--------------------------- MODULE SBusNodeProofs ---------------------------
(***************************************************************************)
(* Proofs about one SBus and its two threads, for any number of other      *)
(* SBuses, descriptors, connections and messages: first the inductive      *)
(* invariant IInv (types, the kernel's tables, what each thread holds, the *)
(* contact list, the poll list), then the list's exactness, the mapping to *)
(* the mailbox, and whom a queued message is from.                         *)
(***************************************************************************)
EXTENDS SBusNode, SequenceTheorems, FiniteSetTheorems, WellFoundedInduction, TLAPS

(* The lemmas about the contact list, for the list of a node.              *)
CT == INSTANCE ContactTableProofs WITH
  Socket <- Fd, NoSocket <- NoFd, MaxPeers <- 2 * Cardinality(Remote),
  MaxIdle <- 1, CleanPeriod <- 1

-----------------------------------------------------------------------------
(* The contact list of a node. *)

(* The bounds the contact list is instantiated with.                       *)
LEMMA BoundsOfList == 2 * Cardinality(Remote) \in Nat /\ 1 \in Nat
BY NodeAssumption, FS_CardinalityType

(* There are ids for all the addresses a remote SBus can appear under.     *)
LEMMA AddrCount == IsFiniteSet(Addr) /\ Cardinality(Addr) <= 2 * Cardinality(Remote)
<1> DEFINE Ports == {"server", "client"}
           f == [x \in Remote \X Ports |-> [host |-> x[1], port |-> x[2]]]
<1>1. IsFiniteSet(Ports) /\ Cardinality(Ports) = 2
  <2>1. IsFiniteSet({"server"}) /\ Cardinality({"server"}) = 1
    BY FS_Singleton
  <2>2. Ports = {"server"} \cup {"client"} /\ "client" \notin {"server"}
    OBVIOUS
  <2> QED BY <2>1, <2>2, FS_AddElement
<1>2. IsFiniteSet(Remote) /\ Cardinality(Remote) \in Nat
  BY NodeAssumption, FS_CardinalityType
<1>3. IsFiniteSet(Remote \X Ports)
      /\ Cardinality(Remote \X Ports) = Cardinality(Remote) * Cardinality(Ports)
  BY <1>1, <1>2, FS_Product
<1>4. f \in Surjection(Remote \X Ports, Addr)
  <2>1. f \in [Remote \X Ports -> Addr]
    BY DEF Addr
  <2>2. ASSUME NEW a \in Addr PROVE \E x \in Remote \X Ports : f[x] = a
    <3>1. a.host \in Remote /\ a.port \in Ports
          /\ a = [host |-> a.host, port |-> a.port]
      BY DEF Addr
    <3>2. <<a.host, a.port>> \in Remote \X Ports /\ f[<<a.host, a.port>>] = a
      BY <3>1
    <3> QED BY <3>2
  <2> QED BY <2>1, <2>2 DEF Surjection
<1> HIDE DEF f
<1>5. IsFiniteSet(Addr) /\ Cardinality(Addr) <= Cardinality(Remote \X Ports)
  BY <1>3, <1>4, FS_Surjection
<1>6. Cardinality(Remote) * Cardinality(Ports) = 2 * Cardinality(Remote)
  BY <1>1, <1>2
<1> QED BY <1>3, <1>5, <1>6

(* There is an id for every address, so entering a contact never fails.    *)
LEMMA EnoughIdsForAll == CT!EnoughIds
<1>1. IsFiniteSet(Addr) = CT!IsFiniteSet(Addr)
  BY DEF IsFiniteSet, CT!IsFiniteSet
<1>2. Cardinality(Addr) = CT!Cardinality(Addr)
  BY DEF Cardinality, CT!Cardinality
<1> QED BY <1>1, <1>2, AddrCount DEF CT!EnoughIds

(* Null tells a missing entry from a contact.                              *)
LEMMA NullIsNoContact == Null \notin CT!PeerInfo \cup Addr
BY NodeAssumption
   DEF PeerInfo, CT!PeerInfo, PeerId, CT!PeerId, AnyName, CT!AnyName,
       AnySocket, CT!AnySocket

(* The list of the node is the list the lemmas are about.                  *)
LEMMA SameList ==
  /\ Table = CT!Table /\ PeerId = CT!PeerId /\ EmptyTable = CT!EmptyTable
  /\ \A t : Live(t) = CT!Live(t) /\ Consistent(t) = CT!Consistent(t)
<1>1. /\ Table = CT!Table /\ PeerId = CT!PeerId /\ EmptyTable = CT!EmptyTable
      /\ \A t : Live(t) = CT!Live(t)
  BY DEF Table, CT!Table, EmptyTable, CT!EmptyTable, Live, CT!Live, PeerId, CT!PeerId,
     PeerInfo, CT!PeerInfo, AnyName, CT!AnyName, AnySocket, CT!AnySocket
<1>2. ASSUME NEW t PROVE Consistent(t) = CT!Consistent(t)
  BY SMTT(30) DEF Consistent, CT!Consistent, NoDangling, CT!NoDangling, AddrComplete,
     CT!AddrComplete, IdsGivenOut, CT!IdsGivenOut, Live, CT!Live, PeerId, CT!PeerId,
     AnyName, CT!AnyName, AnySocket, CT!AnySocket
<1> QED BY <1>1, <1>2

(* The same for the updates of a contact.                                  *)
LEMMA SameUpdates ==
  ASSUME NEW t, NEW r, NEW s, NEW n, NEW time
  PROVE  /\ UpdateSockets(t, r, s, time) = CT!UpdateSockets(t, r, s, time)
         /\ UpdateName(t, r, n, time) = CT!UpdateName(t, r, n, time)
BY DEF UpdateSockets, CT!UpdateSockets, UpdateName, CT!UpdateName, KeptNames,
   CT!KeptNames, Show, CT!Show, Insert, CT!Insert, Erase, CT!Erase,
   Live, CT!Live, PeerId, CT!PeerId

(* The same for the lookup of a sender.                                    *)
LEMMA SameSenders ==
  ASSUME NEW t, NEW d, NEW mcs, NEW a, NEW own, NEW time
  PROVE  Senders(t, d, mcs, a, own, time) = CT!Senders(t, d, mcs, a, own, time)
<1>1. \A s, n : Adds(t, s, a, n, time) = CT!Adds(t, s, a, n, time)
                /\ AddResult(t, s, a, n) = CT!AddResult(t, s, a, n)
  BY DEF Adds, CT!Adds, AddResult, CT!AddResult, Known, CT!Known, NewContact,
     CT!NewContact, CleanUps, CT!CleanUps, Unlinked, CT!Unlinked, Unlink, CT!Unlink,
     Expired, CT!Expired, Show, CT!Show, Insert, CT!Insert, Live, CT!Live,
     PeerId, CT!PeerId, AnyName, CT!AnyName, AnySocket, CT!AnySocket
<1>2. \A s, r : UpdateSockets(t, r, s, time) = CT!UpdateSockets(t, r, s, time)
  BY SameUpdates
<1>3. SocketOf(d, mcs) = CT!SocketOf(d, mcs)
  BY DEF SocketOf, CT!SocketOf
<1> QED BY <1>1, <1>2, <1>3 DEF Senders, CT!Senders

(* What the rest relies on: a consistent list, no gap in the ids, and no   *)
(* cleanup due as long as time stands still.                               *)
TableOK(t) == CT!WellFormed(t) /\ CT!Dense(t) /\ t.cleaned = -1

(* What TableOK says of a list and of each of its contacts.                *)
LEMMA TableOKType ==
  ASSUME NEW t, TableOK(t)
  PROVE  /\ t \in Table /\ Consistent(t) /\ Live(t) = 1..t.last
         /\ \A p \in Live(t) : /\ t.peers[p] \in PeerInfo /\ t.peers[p].peer = p
                               /\ p \in PeerId
<1>1. t \in Table /\ Consistent(t)
  BY SameList DEF TableOK, CT!WellFormed
<1>2. Live(t) = 1..t.last
  BY SameList DEF TableOK, CT!Dense
<1>3. ASSUME NEW p \in Live(t)
      PROVE  t.peers[p] \in PeerInfo /\ t.peers[p].peer = p /\ p \in PeerId
  BY <1>1 DEF Table, Live, Consistent, NoDangling
<1> QED BY <1>1, <1>2, <1>3

(* The list of a new SBus.                                                 *)
LEMMA TableStart == TableOK(EmptyTable) /\ CT!SocketComplete(EmptyTable)
<1>1. CT!WellFormed(EmptyTable)
  BY BoundsOfList, NullIsNoContact, SameList, CT!EmptyTableWellFormed
<1>2. CT!Live(EmptyTable) = {} /\ EmptyTable.last = 0 /\ EmptyTable.cleaned = -1
  BY SameList DEF EmptyTable, Live
<1> QED BY <1>1, <1>2 DEF TableOK, CT!Dense, CT!SocketComplete

(* updateSocket() keeps the list in order and its contacts.                *)
LEMMA TableUpdateSocket ==
  ASSUME NEW t, TableOK(t), NEW p \in Live(t), NEW s \in AnySocket,
         NEW v \in UpdateSockets(t, t.peers[p], s, Now)
  PROVE  TableOK(v) /\ Live(v) = Live(t)
<1>1. p \in CT!Live(t) /\ s \in CT!AnySocket /\ Now \in Nat
      /\ v \in CT!UpdateSockets(t, t.peers[p], s, Now)
  BY SameList, SameUpdates DEF AnySocket, CT!AnySocket, Now
<1>2. CT!WellFormed(v) /\ CT!Live(v) = CT!Live(t) /\ v.last = t.last
      /\ v.cleaned = t.cleaned
  BY <1>1, BoundsOfList, NullIsNoContact, CT!UpdateSocketsShape DEF TableOK
<1> QED BY <1>2, SameList DEF TableOK, CT!Dense

(* So does updateName().                                                   *)
LEMMA TableRename ==
  ASSUME NEW t, TableOK(t), NEW p \in Live(t), NEW n \in AnyName
  PROVE  /\ TableOK(UpdateName(t, t.peers[p], n, Now))
         /\ Live(UpdateName(t, t.peers[p], n, Now)) = Live(t)
<1> DEFINE v == UpdateName(t, t.peers[p], n, Now)
<1>1. p \in CT!Live(t) /\ n \in CT!AnyName /\ Now \in Nat
      /\ v = CT!UpdateName(t, t.peers[p], n, Now)
  BY SameList, SameUpdates DEF AnyName, CT!AnyName, Now
<1> HIDE DEF v
<1>2. CT!WellFormed(t)
  BY DEF TableOK
<1>3. CT!WellFormed(v) /\ CT!Live(v) = CT!Live(t) /\ v.last = t.last
      /\ v.cleaned = t.cleaned
  BY <1>1, <1>2, BoundsOfList, NullIsNoContact, CT!UpdateNameShape
<1>4. TableOK(v) /\ Live(v) = Live(t)
  BY <1>3, SameList DEF TableOK, CT!Dense
<1> QED BY <1>4 DEF v

(* The clock of this model never makes a cleanup due.                      *)
LEMMA NoCleanUpDue ==
  ASSUME NEW t, TableOK(t) PROVE CT!NoCleanUpDue(t, Now)
BY DEF TableOK, CT!NoCleanUpDue, Now

(* The name unknown senders are entered under.                             *)
LEMMA OwnNameIsName == OwnName \in AnyName /\ OwnName \in CT!AnyName
BY NodeAssumption DEF AnyName, CT!AnyName

(* Looking a sender up, or entering it, keeps the list in order and every  *)
(* contact.                                                                *)
LEMMA TableSender ==
  ASSUME NEW t, TableOK(t), NEW d \in Fd, NEW mcs, NEW a \in Addr,
         NEW x \in Senders(t, d, mcs, a, OwnName, Now)
  PROVE  TableOK(x.table) /\ Live(t) \subseteq Live(x.table) /\ x.peer \in Live(x.table)
<1>1. /\ x \in CT!Senders(t, d, mcs, a, OwnName, Now) /\ Now \in Nat
      /\ CT!NoCleanUpDue(t, Now) /\ OwnName \in CT!AnyName
  BY SameSenders, NoCleanUpDue, OwnNameIsName DEF Now
<1>2. /\ CT!WellFormed(x.table) /\ CT!Dense(x.table) /\ x.table.cleaned = t.cleaned
      /\ CT!Live(t) \subseteq CT!Live(x.table) /\ x.peer \in CT!Live(x.table)
  <2>1. CT!WellFormed(t) /\ CT!Dense(t)
    BY DEF TableOK
  <2> QED BY <1>1, <2>1, BoundsOfList, NullIsNoContact, EnoughIdsForAll, CT!SendersShape
<1> QED BY <1>2, SameList DEF TableOK

-----------------------------------------------------------------------------
(* New descriptors and connections: the kernel gives the lowest number.    *)

(* Every set of naturals has a least element.                              *)
LEMMA LeastNumber ==
  ASSUME NEW S \in SUBSET Nat, S # {}
  PROVE  \E n \in S : \A m \in S : n <= m
<1>1. PICK n \in S : \A m \in S : ~ <<m, n>> \in OpToRel(<, Nat)
  BY NatLessThanWellFounded, WFMin
<1>2. \A m \in S : ~ (m < n)
  BY <1>1 DEF OpToRel
<1> QED BY <1>2

(* The kernel gives the lowest free descriptor.                            *)
LEMMA NewFdIsFree ==
  ASSUME FreeFds # {}
  PROVE  /\ NewFd \in Fd /\ fdt[NewFd] = Closed
         /\ \A f \in Fd : fdt[f] = Closed => NewFd <= f
<1>1. FreeFds \in SUBSET Nat
  BY DEF FreeFds, Fd
<1>2. \E f \in FreeFds : \A g \in FreeFds : f <= g
  BY <1>1, LeastNumber
<1>3. NewFd \in FreeFds /\ \A g \in FreeFds : NewFd <= g
  BY <1>2 DEF NewFd
<1> QED BY <1>3 DEF FreeFds, OpenFds

(* A connection that was not used before.                                  *)
LEMMA NewConnIsNew ==
  ASSUME NewConns # {}
  PROVE  NewConn \in ConnId /\ conns[NewConn] = Null
<1>1. NewConns \in SUBSET Nat
  BY DEF NewConns, ConnId
<1>2. \E c \in NewConns : \A d \in NewConns : c <= d
  BY <1>1, LeastNumber
<1>3. NewConn \in NewConns
  BY <1>2 DEF NewConn
<1> QED BY <1>3 DEF NewConns

-----------------------------------------------------------------------------
(* Taking the first occurrence of f out of a list of descriptors.          *)
LEMMA WithoutShape ==
  ASSUME NEW s \in Seq(Fd), NEW f, NEW k \in 1..Len(s), s[k] = f,
         \A j \in 1..(k - 1) : s[j] # f
  PROVE  /\ Without(s, f) \in Seq(Fd)
         /\ Len(Without(s, f)) = Len(s) - 1
         /\ \A i \in 1..(Len(s) - 1) :
              Without(s, f)[i] = IF i < k THEN s[i] ELSE s[i + 1]
<1>1. \A m \in 1..Len(s) : s[m] = f /\ (\A j \in 1..(m - 1) : s[j] # f) => m = k
  OBVIOUS
<1>2. (CHOOSE i \in 1..Len(s) : s[i] = f /\ \A j \in 1..(i - 1) : s[j] # f) = k
  BY <1>1
<1>3. Without(s, f) = SubSeq(s, 1, k - 1) \o SubSeq(s, k + 1, Len(s))
  BY <1>2 DEF Without
<1>4. Len(s) \in Nat /\ \A i \in 1..Len(s) : s[i] \in Fd
  OBVIOUS
<1>5. /\ SubSeq(s, 1, k - 1) \in Seq(Fd) /\ Len(SubSeq(s, 1, k - 1)) = k - 1
      /\ \A i \in 1..(k - 1) : SubSeq(s, 1, k - 1)[i] = s[i]
  BY <1>4, SubSeqProperties
<1>6. /\ SubSeq(s, k + 1, Len(s)) \in Seq(Fd)
      /\ Len(SubSeq(s, k + 1, Len(s))) = Len(s) - k
      /\ \A i \in 1..(Len(s) - k) : SubSeq(s, k + 1, Len(s))[i] = s[k + i]
  BY <1>4, SubSeqProperties
<1> DEFINE u == SubSeq(s, 1, k - 1)
           v == SubSeq(s, k + 1, Len(s))
<1> HIDE DEF u, v
<1>7. /\ u \o v \in Seq(Fd) /\ Len(u \o v) = Len(u) + Len(v)
      /\ \A i \in 1..(Len(u) + Len(v)) :
           (u \o v)[i] = IF i <= Len(u) THEN u[i] ELSE v[i - Len(u)]
  BY <1>5, <1>6, ConcatProperties, ZenonT(40) DEF u, v
<1>8. /\ Len(u) = k - 1 /\ \A i \in 1..(k - 1) : u[i] = s[i]
      /\ Len(v) = Len(s) - k /\ \A i \in 1..(Len(s) - k) : v[i] = s[k + i]
      /\ Without(s, f) = u \o v
  BY <1>3, <1>5, <1>6 DEF u, v
<1>9. k \in 1..Len(s)
  OBVIOUS
<1>10. ASSUME NEW i \in 1..(Len(s) - 1)
       PROVE  (u \o v)[i] = IF i < k THEN s[i] ELSE s[i + 1]
  <2>1. CASE i < k
    BY <1>4, <1>7, <1>8, <1>9, <2>1
  <2>2. CASE ~ (i < k)
    <3>1. (u \o v)[i] = v[i - (k - 1)] /\ i - (k - 1) \in 1..(Len(s) - k)
      BY <1>4, <1>7, <1>8, <1>9, <2>2
    <3>2. v[i - (k - 1)] = s[k + (i - (k - 1))] /\ k + (i - (k - 1)) = i + 1
      BY <1>4, <1>8, <1>9, <3>1, SMTT(30)
    <3> QED BY <2>2, <3>1, <3>2
  <2> QED BY <2>1, <2>2
<1>11. Len(u) + Len(v) = Len(s) - 1
  BY <1>4, <1>8, <1>9
<1> QED BY <1>7, <1>8, <1>10, <1>11

(* Nothing but one f leaves, and nothing moves past anything else.         *)
LEMMA WithoutKeeps ==
  ASSUME NEW s \in Seq(Fd), NEW k \in 1..Len(s)
  PROVE  /\ Without(s, s[k]) \in Seq(Fd)
         /\ \A i \in 1..Len(Without(s, s[k])) : \E j \in 1..Len(s) :
              Without(s, s[k])[i] = s[j]
         /\ \A i \in 1..Len(s) : s[i] # s[k] =>
              \E j \in 1..Len(Without(s, s[k])) : Without(s, s[k])[j] = s[i]
         /\ \A i, j \in 1..Len(Without(s, s[k])) :
              i # j /\ Without(s, s[k])[i] = Without(s, s[k])[j] =>
                \E m, n \in 1..Len(s) : m # n /\ s[m] = Without(s, s[k])[i] /\ s[n] = s[m]
         /\ (\A m, n \in 1..Len(s) : s[m] = s[k] /\ s[n] = s[k] => m = n) =>
              \A i \in 1..Len(Without(s, s[k])) : Without(s, s[k])[i] # s[k]
<1> DEFINE f == s[k]
           S == {m \in 1..Len(s) : s[m] = f}
           w == Without(s, f)
<1>1. S \in SUBSET Nat /\ S # {}
  OBVIOUS
<1>2. PICK n \in S : \A m \in S : n <= m
  BY <1>1, LeastNumber
<1>3. n \in 1..Len(s) /\ s[n] = f /\ \A j \in 1..(n - 1) : s[j] # f
  BY <1>2
<1> HIDE DEF w, f
<1>4. /\ w \in Seq(Fd) /\ Len(w) = Len(s) - 1
      /\ \A i \in 1..(Len(s) - 1) : w[i] = IF i < n THEN s[i] ELSE s[i + 1]
  BY <1>3, WithoutShape DEF w
<1>5. Len(s) \in Nat /\ n \in 1..Len(s)
  BY <1>3
<1>6. \A i \in 1..Len(w) : \E j \in 1..Len(s) : w[i] = s[j]
  BY <1>4, <1>5
<1>7. ASSUME NEW i \in 1..Len(s), s[i] # f
      PROVE  \E j \in 1..Len(w) : w[j] = s[i]
  <2>1. CASE i < n
    BY <1>4, <1>5, <2>1
  <2>2. CASE i > n
    <3>1. i - 1 \in 1..Len(w) /\ w[i - 1] = s[i]
      BY <1>4, <1>5, <2>2
    <3> QED BY <3>1
  <2> QED BY <1>3, <1>7, <2>1, <2>2
<1>8. ASSUME NEW i \in 1..Len(w), NEW j \in 1..Len(w), i # j, w[i] = w[j]
      PROVE  \E a, b \in 1..Len(s) : a # b /\ s[a] = w[i] /\ s[b] = s[a]
  <2> DEFINE a == IF i < n THEN i ELSE i + 1
             b == IF j < n THEN j ELSE j + 1
  <2>1. a \in 1..Len(s) /\ b \in 1..Len(s) /\ a # b /\ w[i] = s[a] /\ w[j] = s[b]
    BY <1>4, <1>5, <1>8
  <2> QED BY <1>8, <2>1
<1>9. ASSUME \A a, b \in 1..Len(s) : s[a] = f /\ s[b] = f => a = b,
             NEW i \in 1..Len(w), w[i] = f
      PROVE  FALSE
  <2> DEFINE a == IF i < n THEN i ELSE i + 1
  <2>1. a \in 1..Len(s) /\ w[i] = s[a] /\ a # n
    BY <1>4, <1>5
  <2> QED BY <1>3, <1>9, <2>1
<1> QED BY <1>4, <1>6, <1>7, <1>8, <1>9 DEF w, f

-----------------------------------------------------------------------------
(* The inductive invariant.                                                *)

(* The connections the kernel still knows.                                 *)
InUse == {c \in ConnId : conns[c] # Null /\ conns[c].state # "gone"}

(* Only the multicast socket is one; a descriptor of a connection is the   *)
(* only one; what waits to be accepted has none.                           *)
KernelOK ==
  /\ \A f \in Fd : fdt[f] = Mc => f = mcsock
  /\ inPc # "remake" <=> fdt[mcsock] = Mc
  /\ \A f \in Fd : fdt[f] \in ConnId => fdt[f] \in InUse
  /\ \A f, g \in Fd : fdt[f] = fdt[g] /\ fdt[f] \in ConnId => f = g
  /\ \A i \in 1..Len(backlog) :
       backlog[i] \in InUse /\ \A f \in Fd : fdt[f] # backlog[i]
  /\ \A i, j \in 1..Len(backlog) : backlog[i] = backlog[j] => i = j
  /\ \A c \in ConnId :
       conns[c] # Null /\ conns[c].state \in {"reset", "gone"} => conns[c].data = <<>>

(* What each thread holds at its place in the code.                        *)
ThreadsOK ==
  /\ inPc \in {"push", "remake"} => inMsg \in SMsg
  /\ appPc = "process" => appMsg \in SMsg
  /\ appPc \in {"resolve", "connect", "write"} => job.peer \in Live(contacts)
  /\ appPc \in {"connect", "write"} => job.fd \in Fd
  /\ appPc = "connect" <=> job.conn # 0

(* A connection that was opened is not waiting to be accepted.             *)
Opened(c) ==
  /\ c \in ConnId /\ conns[c] # Null
  /\ \A i \in 1..Len(backlog) : backlog[i] # c

(* What stays out of the poll list: connections that were lost, and the    *)
(* one connect() waits for, at no other descriptor than connect()'s.       *)
OutsideOK ==
  /\ \A c \in lost : Opened(c)
  /\ appPc = "connect" =>
       /\ Opened(job.conn) /\ job.conn \notin lost
       /\ \A f \in Fd : fdt[f] = job.conn => f = job.fd

(* The inductive invariant.                                                *)
IInv ==
  /\ TypeOK
  /\ KernelOK
  /\ ThreadsOK
  /\ OutsideOK
  /\ TableOK(contacts)
  /\ OpenIsPolled

(* Values that must not be mistaken for one another.                       *)
LEMMA Distinct ==
  /\ MaxConns \in Nat /\ Mc \notin ConnId /\ Closed \notin ConnId /\ Mc # Closed
  /\ Null \notin Conn /\ Null \notin Msg /\ Null \notin SMsg
  /\ 0..Mc = ConnId \cup {Closed, Mc}
  /\ McSource \notin ConnId /\ NoFd \notin Fd /\ 1 \in Fd
BY NodeAssumption DEF Mc, Closed, ConnId, McSource, NoFd, Fd

(* Every message is one of this SBus or from an address of another one.    *)
LEMMA MessageType ==
  ASSUME NEW h \in Heard, NEW t \in Tag, NEW n \in Texts(t)
  PROVE  [tag |-> t, addr |-> [host |-> h, port |-> "server"], name |-> n] \in Msg
BY NodeAssumption DEF Msg, AnyAddr, Addr, OwnAddr, Texts, AnyName

(* What a peer sends on its connection is a message.                       *)
LEMMA FrameType ==
  ASSUME TypeOK, NEW c \in ConnId, conns[c] # Null, NEW t \in Tag, NEW n \in Texts(t)
  PROVE  [tag |-> t, addr |-> [host |-> conns[c].host, port |-> conns[c].port],
          name |-> n] \in Msg
BY DEF TypeOK, Conn, Msg, AnyAddr, Addr, Texts, AnyName

(* Counting up below a bound stays within it.                              *)
LEMMA CountersType ==
  ASSUME TypeOK
  PROVE  LET Counters == [msgs : 0..MaxMsgs, errors : 0..MaxErrors, sends : 0..MaxSends]
         IN /\ used.msgs < MaxMsgs => [used EXCEPT !.msgs = @ + 1] \in Counters
            /\ used.errors < MaxErrors => [used EXCEPT !.errors = @ + 1] \in Counters
            /\ used.sends < MaxSends => [used EXCEPT !.sends = @ + 1] \in Counters
<1>1. /\ used.msgs \in 0..MaxMsgs /\ used.errors \in 0..MaxErrors
      /\ used.sends \in 0..MaxSends
      /\ used = [msgs |-> used.msgs, errors |-> used.errors, sends |-> used.sends]
  BY DEF TypeOK
<1>2. MaxMsgs \in Nat /\ MaxErrors \in Nat /\ MaxSends \in Nat
  BY NodeAssumption
<1>3. /\ used.msgs < MaxMsgs => used.msgs + 1 \in 0..MaxMsgs
      /\ used.errors < MaxErrors => used.errors + 1 \in 0..MaxErrors
      /\ used.sends < MaxSends => used.sends + 1 \in 0..MaxSends
  BY <1>1, <1>2
<1> QED BY <1>1, <1>3

(* No send is under way.                                                   *)
LEMMA NoJobType ==
  NoJob \in [peer : PeerId \cup {0}, fd : Fd \cup {NoFd}, tag : AllTags,
            back : {"app", "recv"}, conn : 0..MaxConns]
BY Distinct DEF NoJob, AllTags

(* The poll list holds descriptors.                                        *)
LEMMA PolledIsFd == ASSUME TypeOK, NEW i \in 1..Len(poll) PROVE poll[i] \in Fd
<1>1. poll \in Seq(Fd)
  BY DEF TypeOK
<1> QED BY <1>1

(* Types: the network and the other SBuses.                                *)
LEMMA EnvironmentKeepsTypeOK ==
  ASSUME IInv, Environment PROVE TypeOK'
<1> USE DEF IInv, kernel, inThread, appThread
<1>1. ASSUME NEW h \in Heard, NEW t \in Tag, NEW n \in Texts(t),
             McArrive(h, t, n)
      PROVE  TypeOK'
  <2>1. mcin' \in Seq(Msg)
    BY <1>1, MessageType, AppendProperties DEF McArrive, TypeOK
  <2>2. used' \in [msgs : 0..MaxMsgs, errors : 0..MaxErrors, sends : 0..MaxSends]
    BY <1>1, CountersType DEF McArrive, Sending, TypeOK
  <2>3. UNCHANGED <<fdt, conns, backlog, mcerr, mcsock, poll, inThread, inq, appThread>>
    BY <1>1 DEF McArrive
  <2> QED BY <2>1, <2>2, <2>3 DEF TypeOK
<1>2. CASE McBreak
  <2>1. mcerr' \in BOOLEAN
    BY <1>2 DEF McBreak
  <2>2. used' \in [msgs : 0..MaxMsgs, errors : 0..MaxErrors, sends : 0..MaxSends]
    BY <1>2, CountersType DEF McBreak, Failing
  <2>3. UNCHANGED <<fdt, conns, backlog, mcin, mcsock, poll, inThread, inq, appThread>>
    BY <1>2 DEF McBreak
  <2> QED BY <2>1, <2>2, <2>3 DEF TypeOK
<1>3. ASSUME NEW r \in Remote, RemoteConnect(r) PROVE TypeOK'
  <2>1. NewConn \in ConnId
    BY <1>3, NewConnIsNew DEF RemoteConnect
  <2>2. [host |-> r, port |-> "client", state |-> "open", data |-> <<>>] \in Conn
    BY DEF Conn
  <2> QED BY <1>3, <2>1, <2>2, AppendProperties DEF RemoteConnect, TypeOK
<1>4. ASSUME NEW c \in ConnId, NEW t \in Tag, NEW n \in Texts(t), RemoteSend(c, t, n)
      PROVE  TypeOK'
  <2> DEFINE m == [tag |-> t, addr |-> [host |-> conns[c].host, port |-> conns[c].port],
                   name |-> n]
  <2>1. conns[c] \in Conn /\ conns[c] # Null
    BY <1>4 DEF RemoteSend, Established, NewConns, TypeOK
  <2>2. m \in Msg
    BY <2>1, FrameType
  <2> HIDE DEF m
  <2>3. Append(conns[c].data, m) \in Seq(Msg)
    BY <2>1, <2>2, AppendProperties DEF Conn
  <2>4. conns' = [conns EXCEPT ![c] = [conns[c] EXCEPT !.data = Append(conns[c].data, m)]]
    BY <1>4, <2>1 DEF RemoteSend, m
  <2>5. [conns[c] EXCEPT !.data = Append(conns[c].data, m)] \in Conn
    BY <2>1, <2>3 DEF Conn
  <2>6. conns' \in [ConnId -> Conn \cup {Null}]
    BY <2>4, <2>5 DEF TypeOK
  <2>7. used' \in [msgs : 0..MaxMsgs, errors : 0..MaxErrors, sends : 0..MaxSends]
    BY <1>4, CountersType DEF RemoteSend, Sending, TypeOK
  <2>8. UNCHANGED <<fdt, backlog, mcin, mcerr, mcsock, poll, inThread, inq, appThread>>
    BY <1>4 DEF RemoteSend
  <2> QED BY <2>6, <2>7, <2>8 DEF TypeOK
<1>5. ASSUME NEW c \in ConnId, RemoteClose(c) PROVE TypeOK'
  <2>1. conns[c] \in Conn
    BY <1>5 DEF RemoteClose, Established, NewConns, TypeOK
  <2>2. [conns[c] EXCEPT !.state = "eof"] \in Conn
    BY <2>1 DEF Conn
  <2> QED BY <1>5, <2>2 DEF RemoteClose, TypeOK
<1>6. ASSUME NEW c \in ConnId, RemoteReset(c) PROVE TypeOK'
  <2>1. conns[c] \in Conn
    BY <1>6 DEF RemoteReset, Established, NewConns, TypeOK
  <2>2. [conns[c] EXCEPT !.state = "reset", !.data = <<>>] \in Conn
    BY <2>1, EmptySeq DEF Conn
  <2>3. conns' = [conns EXCEPT ![c] = [conns[c] EXCEPT !.state = "reset", !.data = <<>>]]
    BY <1>6 DEF RemoteReset, TypeOK
  <2> QED BY <1>6, <2>2, <2>3 DEF RemoteReset, TypeOK
<1> QED BY <1>1, <1>2, <1>3, <1>4, <1>5, <1>6 DEF Environment

(* What the receiving thread takes from a connection or from the group.    *)
LEMMA ReadShape ==
  ASSUME IInv, NEW f \in Fd, Read(f)
  PROVE  \/ /\ fdt[f] = Mc /\ mcin # <<>>
            /\ mcin' = Tail(mcin) /\ mcin' \in Seq(Msg) /\ conns' = conns
            /\ Head(mcin) \in Msg /\ inMsg' \in SMsg
            /\ inMsg' = [what |-> Head(mcin), sock |-> f, src |-> McSource,
                         host |-> Head(mcin).addr.host]
         \/ \E c \in ConnId :
              /\ fdt[f] = c /\ conns[c] \in Conn /\ conns[c].data # <<>>
              /\ conns' = [conns EXCEPT ![c] = [conns[c] EXCEPT !.data = Tail(conns[c].data)]]
              /\ conns' \in [ConnId -> Conn \cup {Null}] /\ mcin' = mcin
              /\ Head(conns[c].data) \in Msg /\ inMsg' \in SMsg
              /\ inMsg' = [what |-> Head(conns[c].data), sock |-> f, src |-> c,
                           host |-> conns[c].host]
<1> USE DEF IInv
<1>1. CASE fdt[f] = Mc
  <2>1. mcin \in Seq(Msg) /\ mcin # <<>>
    BY <1>1 DEF Read, Readable, TypeOK
  <2>2. Head(mcin) \in Msg /\ Tail(mcin) \in Seq(Msg)
    BY <2>1, HeadTailProperties
  <2>3. Head(mcin).addr.host \in Remote \cup {Self}
    BY <2>2 DEF Msg, AnyAddr, Addr, OwnAddr
  <2>4. inMsg' = [what |-> Head(mcin), sock |-> f, src |-> McSource,
                  host |-> Head(mcin).addr.host]
        /\ mcin' = Tail(mcin) /\ conns' = conns
    BY <1>1 DEF Read
  <2>5. inMsg' \in SMsg
    BY <2>2, <2>3, <2>4 DEF SMsg
  <2> QED BY <1>1, <2>1, <2>2, <2>4, <2>5
<1>2. CASE fdt[f] # Mc
  <2> DEFINE c == fdt[f]
  <2>1. c \in ConnId
    BY <1>2, Distinct DEF Read, Readable, Broken, TypeOK
  <2>2. conns[c] \in Conn /\ conns[c].data # <<>>
    BY <1>2, <2>1 DEF Read, Readable, TypeOK, KernelOK, InUse
  <2>3. conns[c].data \in Seq(Msg) /\ conns[c].host \in Remote
    BY <2>2 DEF Conn
  <2>4. Head(conns[c].data) \in Msg /\ Tail(conns[c].data) \in Seq(Msg)
    BY <2>2, <2>3, HeadTailProperties
  <2>5. /\ inMsg' = [what |-> Head(conns[c].data), sock |-> f, src |-> c,
                     host |-> conns[c].host]
        /\ conns' = [conns EXCEPT ![c] = [conns[c] EXCEPT !.data = Tail(conns[c].data)]]
        /\ mcin' = mcin
    BY <1>2, <2>1, <2>2 DEF Read, TypeOK
  <2> HIDE DEF c
  <2>6. [conns[c] EXCEPT !.data = Tail(conns[c].data)] \in Conn
    BY <2>2, <2>4 DEF Conn
  <2>7. conns' \in [ConnId -> Conn \cup {Null}]
    BY <2>5, <2>6 DEF TypeOK
  <2>8. inMsg' \in SMsg
    BY <2>1, <2>3, <2>4, <2>5 DEF SMsg
  <2>9. fdt[f] = c
    BY DEF c
  <2> QED BY <2>1, <2>2, <2>4, <2>5, <2>7, <2>8, <2>9
<1> QED BY <1>1, <1>2

(* What dropping a descriptor does: it is closed, a notice is held, and a  *)
(* connection is gone.                                                     *)
LEMMA DropShape ==
  ASSUME IInv, NEW f \in Fd, Drop(f)
  PROVE  /\ inMsg' \in SMsg /\ IsError(inMsg') /\ inMsg'.sock = f
         /\ fdt' = [fdt EXCEPT ![f] = Closed]
         /\ conns' \in [ConnId -> Conn \cup {Null}]
         /\ \/ /\ fdt[f] \notin ConnId /\ conns' = conns
               /\ inMsg'.src = McSource
            \/ \E c \in ConnId :
                 /\ fdt[f] = c /\ conns[c] \in Conn /\ conns[c].data = <<>>
                 /\ conns' = [conns EXCEPT ![c] = [conns[c] EXCEPT !.state = "gone"]]
                 /\ inMsg'.src = c /\ inMsg'.host = conns[c].host
         /\ \/ fdt[f] # Mc /\ mcin' = mcin /\ mcerr' = mcerr
            \/ fdt[f] = Mc /\ mcin' = <<>> /\ mcerr' = FALSE
<1> USE DEF IInv
<1>1. fdt' = [fdt EXCEPT ![f] = Closed]
  BY DEF Drop
<1>2. \/ fdt[f] # Mc /\ mcin' = mcin /\ mcerr' = mcerr
      \/ fdt[f] = Mc /\ mcin' = <<>> /\ mcerr' = FALSE
  BY DEF Drop
<1>3. CASE fdt[f] \in ConnId
  <2> DEFINE c == fdt[f]
  <2>1. conns[c] \in Conn /\ conns[c].data = <<>>
    BY <1>3, Distinct DEF Drop, Broken, TypeOK, KernelOK, InUse
  <2>2. /\ conns' = [conns EXCEPT ![c] = [conns[c] EXCEPT !.state = "gone"]]
        /\ inMsg' = [what |-> Null, sock |-> f, src |-> c, host |-> conns[c].host]
    BY <1>3, <2>1 DEF Drop, TypeOK
  <2>3. [conns[c] EXCEPT !.state = "gone"] \in Conn /\ conns[c].host \in Remote
    BY <2>1 DEF Conn
  <2>4. inMsg' \in SMsg /\ conns' \in [ConnId -> Conn \cup {Null}]
    BY <1>3, <2>2, <2>3 DEF SMsg, TypeOK
  <2> QED BY <1>1, <1>2, <1>3, <2>1, <2>2, <2>4 DEF IsError
<1>4. CASE fdt[f] \notin ConnId
  <2>1. inMsg' = [what |-> Null, sock |-> f, src |-> McSource, host |-> Self]
        /\ conns' = conns
    BY <1>4 DEF Drop
  <2>2. inMsg' \in SMsg
    BY <2>1 DEF SMsg
  <2> QED BY <1>1, <1>2, <1>4, <2>1, <2>2 DEF IsError, TypeOK
<1> QED BY <1>3, <1>4

(* Types: the receiving thread.                                            *)
LEMMA InThreadKeepsTypeOK ==
  ASSUME IInv, InThread PROVE TypeOK'
<1> USE DEF IInv, kernel, inThread, appThread
<1>1. CASE Listen
  <2>1. CASE backlog = <<>>
    BY <1>1, <2>1 DEF Listen, TypeOK
  <2>2. CASE backlog # <<>>
    <3>1. NewFd \in Fd /\ Head(backlog) \in ConnId /\ Tail(backlog) \in Seq(ConnId)
      BY <1>1, <2>2, NewFdIsFree, HeadTailProperties DEF Listen, TypeOK
    <3>2. /\ fdt' = [fdt EXCEPT ![NewFd] = Head(backlog)] /\ backlog' = Tail(backlog)
          /\ inPc' = "poll"
          /\ \/ poll' = Append(poll, NewFd) /\ UNCHANGED <<lost, used>>
             \/ Failing /\ lost' = lost \cup {Head(backlog)} /\ UNCHANGED poll
      BY <1>1, <2>2 DEF Listen
    <3>3. fdt' \in [Fd -> 0..Mc]
      BY <3>1, <3>2, Distinct DEF TypeOK
    <3>4. poll' \in Seq(Fd) /\ backlog' \in Seq(ConnId)
      <4>1. poll \in Seq(Fd) /\ Append(poll, NewFd) \in Seq(Fd)
        BY <3>1, AppendProperties DEF TypeOK
      <4> QED BY <3>1, <3>2, <4>1
    <3>5. lost' \subseteq ConnId
      BY <3>1, <3>2 DEF TypeOK
    <3>6. used' \in [msgs : 0..MaxMsgs, errors : 0..MaxErrors, sends : 0..MaxSends]
      BY <3>2, CountersType DEF Failing, TypeOK
    <3> QED BY <1>1, <3>2, <3>3, <3>4, <3>5, <3>6 DEF Listen, TypeOK
  <2> QED BY <2>1, <2>2
<1>2. CASE Idle
  BY <1>2 DEF Idle, TypeOK
<1>3. ASSUME NEW i \in 1..Len(poll), Read(poll[i]) PROVE TypeOK'
  <2>1. poll[i] \in Fd
    BY PolledIsFd
  <2>2. inMsg' \in SMsg /\ conns' \in [ConnId -> Conn \cup {Null}] /\ mcin' \in Seq(Msg)
    BY <1>3, <2>1, ReadShape DEF TypeOK
  <2> QED BY <1>3, <2>2 DEF Read, TypeOK
<1>4. ASSUME NEW i \in 1..Len(poll), Drop(poll[i]) PROVE TypeOK'
  <2>1. poll[i] \in Fd
    BY PolledIsFd
  <2>2. /\ inMsg' \in SMsg /\ conns' \in [ConnId -> Conn \cup {Null}]
        /\ fdt' = [fdt EXCEPT ![poll[i]] = Closed]
    BY <1>4, <2>1, DropShape
  <2>5. /\ mcin' = mcin \/ mcin' = <<>>
        /\ mcerr' = mcerr \/ mcerr' = FALSE
    BY <1>4, <2>1, DropShape
  <2>6. mcin' \in Seq(Msg)
    <3>1. mcin \in Seq(Msg)
      BY DEF TypeOK
    <3> QED BY <2>5, <3>1, EmptySeq
  <2>7. mcerr' \in BOOLEAN
    BY <2>5 DEF TypeOK
  <2>3. Without(poll, poll[i]) \in Seq(Fd)
    BY WithoutKeeps DEF TypeOK
  <2>4. fdt' \in [Fd -> 0..Mc]
    BY <2>2, Distinct DEF TypeOK
  <2> QED BY <1>4, <2>2, <2>3, <2>4, <2>6, <2>7 DEF Drop, TypeOK
<1>5. CASE Remake
  <2>1. NewFd \in Fd
    BY <1>5, NewFdIsFree DEF Remake
  <2>2. fdt' \in [Fd -> 0..Mc] /\ poll' \in Seq(Fd)
    BY <1>5, <2>1, Distinct, AppendProperties DEF Remake, TypeOK
  <2> QED BY <1>5, <2>1, <2>2 DEF Remake, TypeOK
<1>6. CASE Push
  <2>1. inMsg \in SMsg
    BY <1>6 DEF Push, ThreadsOK
  <2>2. inq' \in Seq(SMsg)
    BY <1>6, <2>1, AppendProperties DEF Push, TypeOK
  <2> QED BY <1>6, <2>2 DEF Push, TypeOK
<1> QED BY <1>1, <1>2, <1>3, <1>4, <1>5, <1>6 DEF InThread, Poll

(* Whom a message is from, and what the contact list is afterwards.        *)
LEMMA DataShape ==
  ASSUME IInv, ProcessData
  PROVE  /\ appMsg \in SMsg /\ appMsg.what \in Msg /\ appMsg.what.addr \in Addr
         /\ appMsg.what.name \in AnyName
         /\ \E x \in Senders(contacts, appMsg.sock, mcsock, appMsg.what.addr, OwnName, Now) :
              /\ TableOK(x.table) /\ Live(contacts) \subseteq Live(x.table)
              /\ x.peer \in Live(x.table) /\ TableOK(contacts')
              /\ Live(contacts') = Live(x.table)
              /\ \/ contacts' = x.table
                 \/ contacts' = UpdateName(x.table, x.table.peers[x.peer],
                                           appMsg.what.name, Now)
              /\ \/ appPc' = "resolve" /\ Reply(x.peer, "manameis", "recv")
                 \/ appPc' = "resolve" /\ Reply(x.peer, "nametaken", "app")
                 \/ appPc' \in {"app", "recv"} /\ UNCHANGED job
<1> USE DEF IInv
<1>1. appMsg \in SMsg /\ appMsg.what \in Msg
  BY DEF ProcessData, ThreadsOK, SMsg, IsError
<1>2. appMsg.what.addr \in Addr /\ appMsg.what.name \in AnyName /\ appMsg.sock \in Fd
  BY <1>1 DEF ProcessData, Msg, AnyAddr, SMsg
<1>3. PICK x \in Senders(contacts, appMsg.sock, mcsock, appMsg.what.addr, OwnName, Now) :
        /\ \/ contacts' = x.table
           \/ contacts' = UpdateName(x.table, x.table.peers[x.peer], appMsg.what.name, Now)
        /\ \/ appPc' = "resolve" /\ Reply(x.peer, "manameis", "recv")
           \/ appPc' = "resolve" /\ Reply(x.peer, "nametaken", "app")
           \/ appPc' \in {"app", "recv"} /\ UNCHANGED job
  BY DEF ProcessData
<1>4. /\ TableOK(x.table) /\ Live(contacts) \subseteq Live(x.table)
      /\ x.peer \in Live(x.table)
  BY <1>2, TableSender
<1>5. TableOK(contacts') /\ Live(contacts') = Live(x.table)
  BY <1>2, <1>3, <1>4, TableRename
<1> QED BY <1>1, <1>2, <1>3, <1>4, <1>5

(* A notice of a closed connection takes its socket off the record.        *)
LEMMA NoticeShape ==
  ASSUME IInv, ProcessError
  PROVE  TableOK(contacts') /\ Live(contacts') = Live(contacts)
<1> USE DEF IInv
<1> DEFINE r == contacts.socket2peer[appMsg.sock]
<1>1. CASE r # Null
  <2>1. appMsg.sock \in Fd
    BY DEF ProcessError, ThreadsOK, SMsg
  <2>2. contacts \in Table /\ Consistent(contacts)
    BY TableOKType
  <2>3. r \in PeerInfo /\ contacts.peers[r.peer] = r
    BY <1>1, <2>1, <2>2 DEF Table, Consistent, NoDangling, AnySocket
  <2>4. r.peer \in Live(contacts) /\ NoFd \in AnySocket
    BY <1>1, <2>3 DEF Live, PeerInfo, AnySocket
  <2>5. contacts' \in UpdateSockets(contacts, contacts.peers[r.peer], NoFd, Now)
    BY <1>1, <2>3 DEF ProcessError
  <2> QED BY <2>4, <2>5, TableUpdateSocket
<1>2. CASE r = Null
  BY <1>2 DEF ProcessError
<1> QED BY <1>1, <1>2

(* What opening a connection to a contact that has none changes.           *)
LEMMA ConnectShape ==
  ASSUME IInv, Connect
  PROVE  /\ appPc = "resolve"
         /\ UNCHANGED <<backlog, mcin, mcerr, mcsock, poll, inThread, inq, appMsg,
                        contacts, used>>
         /\ \/ /\ job' = NoJob /\ appPc' = job.back
               /\ UNCHANGED <<fdt, conns>>
            \/ \E f \in Fd, c \in ConnId, k \in Conn :
                 /\ f = NewFd /\ fdt[f] = Closed /\ conns[c] = Null
                 /\ k.state \in {"open", "reset"} /\ k.data = <<>>
                 /\ conns' = [conns EXCEPT ![c] = k]
                 /\ fdt' = [fdt EXCEPT ![f] = c]
                 /\ job' = [job EXCEPT !.fd = f, !.conn = c] /\ appPc' = "connect"
<1> USE DEF IInv
<1>1. CASE FreeFds = {}
  BY <1>1 DEF Connect
<1>2. CASE FreeFds # {}
  <2> DEFINE r == contacts.peers[job.peer]
  <2>1. NewFd \in Fd /\ fdt[NewFd] = Closed /\ NewConn \in ConnId /\ conns[NewConn] = Null
    BY <1>2, NewFdIsFree, NewConnIsNew DEF Connect
  <2>2. job.peer \in Live(contacts)
    BY DEF Connect, ThreadsOK
  <2>3. r.addr.host \in Remote /\ r.addr.port \in {"server", "client"}
    BY <2>2, TableOKType DEF PeerInfo, Addr
  <2>4. PICK result \in {"open", "reset"} :
          conns' = [conns EXCEPT ![NewConn] =
                     [host |-> r.addr.host, port |-> r.addr.port,
                      state |-> result, data |-> <<>>]]
    BY <1>2 DEF Connect
  <2> DEFINE k == [host |-> r.addr.host, port |-> r.addr.port,
                   state |-> result, data |-> <<>>]
  <2>5. k \in Conn /\ k.state \in {"open", "reset"} /\ k.data = <<>>
    BY <2>3, EmptySeq DEF Conn
  <2> HIDE DEF k
  <2>6. conns' = [conns EXCEPT ![NewConn] = k]
    BY <2>4 DEF k
  <2> QED BY <1>2, <2>1, <2>5, <2>6 DEF Connect
<1> QED BY <1>1, <1>2

(* What adding the connection to the poll list and to the record changes.  *)
LEMMA WatchShape ==
  ASSUME IInv, Watch
  PROVE  /\ TableOK(contacts') /\ Live(contacts') = Live(contacts)
         /\ job.fd \in Fd /\ poll' = Append(poll, job.fd)
         /\ job' = [job EXCEPT !.conn = 0] /\ appPc' = "write"
<1> USE DEF IInv
<1>1. job.peer \in Live(contacts) /\ job.fd \in Fd
  BY DEF Watch, ThreadsOK
<1>2. contacts' \in UpdateSockets(contacts, contacts.peers[job.peer], job.fd, Now)
      /\ job.fd \in AnySocket
  BY <1>1 DEF Watch, AnySocket
<1>3. TableOK(contacts') /\ Live(contacts') = Live(contacts)
  BY <1>1, <1>2, TableUpdateSocket
<1> QED BY <1>1, <1>3 DEF Watch

(* Types: the application thread.                                          *)
LEMMA AppThreadKeepsTypeOK ==
  ASSUME IInv, AppThread PROVE TypeOK'
<1> USE DEF IInv, kernel, inThread, appThread
<1>1. CASE Pop
  <2>1. Head(inq) \in SMsg /\ Tail(inq) \in Seq(SMsg)
    BY <1>1, HeadTailProperties DEF Pop, TypeOK
  <2> QED BY <1>1, <2>1 DEF Pop, TypeOK
<1>2. CASE ProcessError
  <2>1. contacts' \in Table
    BY <1>2, NoticeShape, TableOKType
  <2> QED BY <1>2, <2>1 DEF ProcessError, TypeOK
<1>3. CASE ProcessSelf
  BY <1>3 DEF ProcessSelf, TypeOK
<1>4. CASE ProcessData
  <2>1. PICK x : /\ TableOK(x.table) /\ x.peer \in Live(x.table) /\ TableOK(contacts')
                 /\ \/ appPc' = "resolve" /\ Reply(x.peer, "manameis", "recv")
                    \/ appPc' = "resolve" /\ Reply(x.peer, "nametaken", "app")
                    \/ appPc' \in {"app", "recv"} /\ UNCHANGED job
    BY <1>4, DataShape
  <2>2. contacts' \in Table /\ x.peer \in PeerId
    BY <2>1, TableOKType
  <2>3. job' \in [peer : PeerId \cup {0}, fd : Fd \cup {NoFd}, tag : AllTags,
                  back : {"app", "recv"}, conn : 0..MaxConns]
    <3>1. ASSUME NEW g \in AllTags, NEW b \in {"app", "recv"}, Reply(x.peer, g, b)
          PROVE  job' \in [peer : PeerId \cup {0}, fd : Fd \cup {NoFd}, tag : AllTags,
                          back : {"app", "recv"}, conn : 0..MaxConns]
      BY <2>2, <3>1, NoJobType DEF Reply
    <3> QED BY <2>1, <3>1 DEF AllTags, TypeOK
  <2>4. appPc' \in {"app", "recv", "process", "resolve", "connect", "write"}
    BY <2>1
  <2> QED BY <1>4, <2>2, <2>3, <2>4 DEF ProcessData, TypeOK
<1>5. ASSUME NEW p \in PeerId, UserSend(p) PROVE TypeOK'
  <2>1. job' \in [peer : PeerId \cup {0}, fd : Fd \cup {NoFd}, tag : AllTags,
                  back : {"app", "recv"}, conn : 0..MaxConns]
    BY <1>5, NoJobType DEF UserSend, Reply, AllTags
  <2>2. used' \in [msgs : 0..MaxMsgs, errors : 0..MaxErrors, sends : 0..MaxSends]
    BY <1>5, CountersType DEF UserSend
  <2> QED BY <1>5, <2>1, <2>2 DEF UserSend, TypeOK
<1>6. CASE Resolve
  <2>1. contacts.peers[job.peer].socket \in Fd
    BY <1>6, TableOKType DEF Resolve, ThreadsOK, PeerInfo, AnySocket
  <2> QED BY <1>6, <2>1 DEF Resolve, TypeOK
<1>7. CASE Connect
  <2>1. UNCHANGED <<backlog, mcin, mcerr, mcsock, poll, inThread, inq, appMsg, contacts, used>>
    BY <1>7, ConnectShape
  <2>2. /\ fdt' \in [Fd -> 0..Mc] /\ conns' \in [ConnId -> Conn \cup {Null}]
        /\ job' \in [peer : PeerId \cup {0}, fd : Fd \cup {NoFd}, tag : AllTags,
                     back : {"app", "recv"}, conn : 0..MaxConns]
        /\ appPc' \in {"app", "recv", "process", "resolve", "connect", "write"}
    <3>1. CASE job' = NoJob /\ appPc' = job.back /\ UNCHANGED <<fdt, conns>>
      BY <3>1, NoJobType DEF TypeOK
    <3>2. ASSUME NEW f \in Fd, NEW c \in ConnId, NEW k \in Conn,
                 conns' = [conns EXCEPT ![c] = k], fdt' = [fdt EXCEPT ![f] = c],
                 job' = [job EXCEPT !.fd = f, !.conn = c], appPc' = "connect"
          PROVE  /\ fdt' \in [Fd -> 0..Mc] /\ conns' \in [ConnId -> Conn \cup {Null}]
                 /\ job' \in [peer : PeerId \cup {0}, fd : Fd \cup {NoFd}, tag : AllTags,
                              back : {"app", "recv"}, conn : 0..MaxConns]
                 /\ appPc' \in {"app", "recv", "process", "resolve", "connect", "write"}
      <4>1. c \in 0..MaxConns /\ c \in 0..Mc
        BY Distinct DEF ConnId, Mc
      <4> QED BY <3>2, <4>1 DEF TypeOK
    <3> QED BY <1>7, <3>1, <3>2, ConnectShape
  <2> QED BY <2>1, <2>2 DEF TypeOK
<1>8. CASE Watch
  <2>1. contacts' \in Table /\ poll' \in Seq(Fd)
    <3>1. poll \in Seq(Fd) /\ job.fd \in Fd
      BY <1>8, WatchShape DEF TypeOK
    <3>2. Append(poll, job.fd) \in Seq(Fd)
      BY <3>1, AppendProperties
    <3> QED BY <1>8, <3>2, WatchShape, TableOKType
  <2>2. job' \in [peer : PeerId \cup {0}, fd : Fd \cup {NoFd}, tag : AllTags,
                 back : {"app", "recv"}, conn : 0..MaxConns]
    <3>1. 0 \in 0..MaxConns
      BY Distinct
    <3> QED BY <1>8, <3>1, WatchShape DEF TypeOK
  <2> QED BY <1>8, <2>1, <2>2 DEF Watch, TypeOK
<1>9. CASE Leak
  <2>1. job.conn \in ConnId
    BY <1>9 DEF Leak, OutsideOK, Opened
  <2>2. used' \in [msgs : 0..MaxMsgs, errors : 0..MaxErrors, sends : 0..MaxSends]
    BY <1>9, CountersType DEF Leak, Failing
  <2>3. lost' \subseteq ConnId
    BY <1>9, <2>1 DEF Leak, TypeOK
  <2>4. job' \in [peer : PeerId \cup {0}, fd : Fd \cup {NoFd}, tag : AllTags,
                 back : {"app", "recv"}, conn : 0..MaxConns]
        /\ appPc' \in {"app", "recv", "process", "resolve", "connect", "write"}
    BY <1>9, NoJobType DEF Leak, TypeOK
  <2>5. UNCHANGED <<kernel, mcsock, poll, inPc, inMsg, moved, inq, appMsg, contacts>>
    BY <1>9 DEF Leak
  <2> QED BY <2>2, <2>3, <2>4, <2>5 DEF TypeOK
<1>10. CASE Write
  BY <1>10, NoJobType DEF Write, TypeOK
<1> QED BY <1>1, <1>2, <1>3, <1>4, <1>5, <1>6, <1>7, <1>8, <1>9, <1>10 DEF AppThread

-----------------------------------------------------------------------------
(* How the connections change.                                             *)

(* and gets or loses frames.                                               *)
ConnChanges(c, k) ==
  /\ conns' = [conns EXCEPT ![c] = k]
  /\ \/ conns[c] = Null /\ k.data = <<>>
     \/ /\ conns[c] \in Conn /\ k.host = conns[c].host
        /\ \/ k.data \in {<<>>, conns[c].data}
           \/ conns[c].data # <<>> /\ k.data = Tail(conns[c].data)
           \/ \E m \in Msg : m.addr.host = conns[c].host
                             /\ k.data = Append(conns[c].data, m)

(* A step that changes one connection.                                     *)
ConnsChange == \E c \in ConnId, k \in Conn : ConnChanges(c, k)

(* The network changes at most one connection, and keeps its host.         *)
LEMMA EnvironmentChangesConns ==
  ASSUME IInv, Environment PROVE conns' = conns \/ ConnsChange
<1> USE DEF IInv
<1>1. ASSUME NEW h \in Heard, NEW t \in Tag, NEW n \in Texts(t),
             McArrive(h, t, n)
      PROVE  conns' = conns
  BY <1>1 DEF McArrive
<1>2. CASE McBreak
  BY <1>2 DEF McBreak
<1>3. ASSUME NEW r \in Remote, RemoteConnect(r) PROVE ConnsChange
  <2> DEFINE k == [host |-> r, port |-> "client", state |-> "open", data |-> <<>>]
  <2>1. NewConn \in ConnId /\ conns[NewConn] = Null
    BY <1>3, NewConnIsNew DEF RemoteConnect
  <2>2. k \in Conn /\ k.data = <<>>
    BY EmptySeq DEF Conn
  <2>3. conns' = [conns EXCEPT ![NewConn] = k]
    BY <1>3 DEF RemoteConnect
  <2> HIDE DEF k
  <2> QED BY <2>1, <2>2, <2>3 DEF ConnsChange, ConnChanges
<1>4. ASSUME NEW c \in ConnId, NEW t \in Tag, NEW n \in Texts(t), RemoteSend(c, t, n)
      PROVE  ConnsChange
  <2> DEFINE m == [tag |-> t, addr |-> [host |-> conns[c].host, port |-> conns[c].port],
                   name |-> n]
             k == [conns[c] EXCEPT !.data = Append(conns[c].data, m)]
  <2>1. conns[c] \in Conn /\ conns[c] # Null
    BY <1>4 DEF RemoteSend, Established, NewConns, TypeOK
  <2>2. m \in Msg /\ m.addr.host = conns[c].host
    BY <2>1, FrameType
  <2>3. conns' = [conns EXCEPT ![c] = k]
    BY <1>4, <2>1 DEF RemoteSend
  <2> HIDE DEF m
  <2>4. Append(conns[c].data, m) \in Seq(Msg)
    BY <2>1, <2>2, AppendProperties DEF Conn
  <2>5. k \in Conn /\ k.data = Append(conns[c].data, m) /\ k.host = conns[c].host
    BY <2>1, <2>4 DEF Conn
  <2> HIDE DEF k
  <2> QED BY <2>1, <2>2, <2>3, <2>5 DEF ConnsChange, ConnChanges
<1>5. ASSUME NEW c \in ConnId, RemoteClose(c) PROVE ConnsChange
  <2> DEFINE k == [conns[c] EXCEPT !.state = "eof"]
  <2>1. conns[c] \in Conn
    BY <1>5 DEF RemoteClose, Established, NewConns, TypeOK
  <2>2. conns' = [conns EXCEPT ![c] = k]
    BY <1>5, <2>1 DEF RemoteClose
  <2>3. k \in Conn /\ k.data = conns[c].data /\ k.host = conns[c].host
    BY <2>1 DEF Conn
  <2> HIDE DEF k
  <2> QED BY <2>1, <2>2, <2>3 DEF ConnsChange, ConnChanges
<1>6. ASSUME NEW c \in ConnId, RemoteReset(c) PROVE ConnsChange
  <2> DEFINE k == [conns[c] EXCEPT !.state = "reset", !.data = <<>>]
  <2>1. conns[c] \in Conn
    BY <1>6 DEF RemoteReset, Established, NewConns, TypeOK
  <2>2. conns' = [conns EXCEPT ![c] = k]
    BY <1>6, <2>1 DEF RemoteReset, TypeOK
  <2>3. k \in Conn /\ k.data = <<>> /\ k.host = conns[c].host
    BY <2>1, EmptySeq DEF Conn
  <2> HIDE DEF k
  <2> QED BY <2>1, <2>2, <2>3 DEF ConnsChange, ConnChanges
<1> QED BY <1>1, <1>2, <1>3, <1>4, <1>5, <1>6 DEF Environment

(* So does every step.                                                     *)
LEMMA NextChangesConns ==
  ASSUME IInv, [Next]_vars PROVE conns' = conns \/ ConnsChange
<1>1. ASSUME NEW f \in Fd, Read(f) PROVE conns' = conns \/ ConnsChange
  <2>1. ASSUME NEW c \in ConnId, conns[c] \in Conn, conns[c].data # <<>>,
               conns' = [conns EXCEPT ![c] = [conns[c] EXCEPT !.data = Tail(conns[c].data)]]
        PROVE  ConnsChange
    <3> DEFINE k == [conns[c] EXCEPT !.data = Tail(conns[c].data)]
    <3>1. Tail(conns[c].data) \in Seq(Msg)
      BY <2>1, HeadTailProperties DEF Conn
    <3>2. k \in Conn /\ k.data = Tail(conns[c].data) /\ k.host = conns[c].host
      BY <2>1, <3>1 DEF Conn
    <3>3. conns' = [conns EXCEPT ![c] = k]
      BY <2>1
    <3> HIDE DEF k
    <3> QED BY <2>1, <3>2, <3>3 DEF ConnsChange, ConnChanges
  <2> QED BY <1>1, <2>1, ReadShape
<1>2. ASSUME NEW f \in Fd, Drop(f) PROVE conns' = conns \/ ConnsChange
  <2>1. ASSUME NEW c \in ConnId, conns[c] \in Conn, conns[c].data = <<>>,
               conns' = [conns EXCEPT ![c] = [conns[c] EXCEPT !.state = "gone"]]
        PROVE  ConnsChange
    <3> DEFINE k == [conns[c] EXCEPT !.state = "gone"]
    <3>1. k \in Conn /\ k.data = <<>> /\ k.host = conns[c].host
      BY <2>1 DEF Conn
    <3>2. conns' = [conns EXCEPT ![c] = k]
      BY <2>1
    <3> HIDE DEF k
    <3> QED BY <2>1, <3>1, <3>2 DEF ConnsChange, ConnChanges
  <2> QED BY <1>2, <2>1, DropShape
<1>3. ASSUME NEW i \in 1..Len(poll), Read(poll[i]) \/ Drop(poll[i])
      PROVE  conns' = conns \/ ConnsChange
  <2>1. poll[i] \in Fd
    BY PolledIsFd DEF IInv
  <2> QED BY <1>1, <1>2, <1>3, <2>1
<1>4. CASE Connect
  BY <1>4, ConnectShape DEF ConnsChange, ConnChanges
<1>5. CASE AppThread /\ ~ Connect
  BY <1>5 DEF AppThread, Pop, ProcessError, ProcessSelf, ProcessData, UserSend, Resolve,
     Watch, Leak, Write, kernel
<1>6. CASE Listen \/ Idle \/ Remake \/ Push \/ UNCHANGED vars
  BY <1>6 DEF Listen, Idle, Remake, Push, vars, kernel
<1> QED BY <1>3, <1>4, <1>5, <1>6, EnvironmentChangesConns DEF Next, InThread, Poll, AppThread

(* A connection is to the same host for ever.                              *)
LEMMA HostStays ==
  ASSUME IInv, [Next]_vars, NEW c \in ConnId, conns[c] # Null
  PROVE  conns'[c] # Null /\ conns'[c].host = conns[c].host
<1>1. ASSUME NEW d \in ConnId, NEW k \in Conn, ConnChanges(d, k)
      PROVE  conns'[c] # Null /\ conns'[c].host = conns[c].host
  <2>1. conns'[c] = IF c = d THEN k ELSE conns[c]
    BY <1>1 DEF ConnChanges, IInv, TypeOK
  <2>2. k # Null
    BY Distinct
  <2>3. c = d => k.host = conns[c].host
    BY <1>1 DEF ConnChanges
  <2> QED BY <2>1, <2>2, <2>3
<1> QED BY <1>1, NextChangesConns DEF ConnsChange

-----------------------------------------------------------------------------
(* The kernel's side of the invariant.                                     *)

(* A step that leaves descriptors, connections and backlog alone.          *)
LEMMA SameKernel ==
  ASSUME KernelOK, UNCHANGED <<fdt, conns, backlog, mcsock>>,
         inPc = "remake" <=> inPc' = "remake"
  PROVE  KernelOK'
BY DEF KernelOK, InUse

(* One connection changes and stays in use.                                *)
LEMMA SameDescriptors ==
  ASSUME TypeOK, KernelOK, NEW c \in ConnId, c \in InUse, NEW k \in Conn, k.state # "gone",
         k.state = "reset" => k.data = <<>>,
         conns' = [conns EXCEPT ![c] = k], UNCHANGED <<fdt, backlog, mcsock>>,
         inPc = "remake" <=> inPc' = "remake"
  PROVE  KernelOK'
<1> USE Distinct DEF TypeOK, KernelOK
<1>1. \A d \in ConnId : conns'[d] = IF d = c THEN k ELSE conns[d]
  OBVIOUS
<1>2. \A d \in ConnId : d \in InUse => d \in InUse'
  BY <1>1 DEF InUse
<1>3. \A i \in 1..Len(backlog) : backlog[i] \in ConnId
  OBVIOUS
<1>4. \A d \in ConnId :
        conns'[d] # Null /\ conns'[d].state \in {"reset", "gone"} => conns'[d].data = <<>>
  BY <1>1
<1> QED BY <1>2, <1>3, <1>4, SMTT(30) DEF KernelOK

(* The network and the other SBuses keep the kernel's tables in order.     *)
LEMMA EnvironmentKeepsKernelOK ==
  ASSUME IInv, Environment PROVE KernelOK'
<1> USE DEF IInv
<1>1. ASSUME NEW h \in Heard, NEW t \in Tag, NEW n \in Texts(t),
             McArrive(h, t, n)
      PROVE  KernelOK'
  BY <1>1, SameKernel DEF McArrive, inThread
<1>2. CASE McBreak
  BY <1>2, SameKernel DEF McBreak, inThread
<1>3. ASSUME NEW r \in Remote, RemoteConnect(r) PROVE KernelOK'
  <2> DEFINE c == NewConn
             k == [host |-> r, port |-> "client", state |-> "open", data |-> <<>>]
  <2>1. c \in ConnId /\ conns[c] = Null
    BY <1>3, NewConnIsNew DEF RemoteConnect
  <2>2. k \in Conn /\ k # Null
    <3>1. k \in Conn
      BY EmptySeq DEF Conn
    <3> QED BY <3>1, Distinct
  <2>3. /\ conns' = [conns EXCEPT ![c] = k] /\ backlog' = Append(backlog, c)
        /\ UNCHANGED <<fdt, mcsock, inPc>>
    BY <1>3 DEF RemoteConnect, inThread
  <2>0. k.state = "open"
    OBVIOUS
  <2> HIDE DEF c, k
  <2>4. \A d \in ConnId : conns'[d] = IF d = c THEN k ELSE conns[d]
    BY <2>3 DEF TypeOK
  <2>5. \A d \in ConnId : d \in InUse => d \in InUse' /\ d # c
    BY <2>1, <2>4 DEF InUse
  <2>6. c \in InUse'
    BY <2>0, <2>1, <2>2, <2>4 DEF InUse
  <2>7. /\ Len(backlog) \in Nat /\ Len(backlog') = Len(backlog) + 1
        /\ \A i \in 1..Len(backlog) : backlog'[i] = backlog[i] /\ backlog[i] \in ConnId
        /\ backlog'[Len(backlog) + 1] = c
    BY <2>1, <2>3, AppendProperties DEF TypeOK
  <2>8. \A f \in Fd : fdt[f] # c
    BY <2>1, <2>5 DEF KernelOK
  <2>9. \A i \in 1..Len(backlog') :
          backlog'[i] \in InUse' /\ \A f \in Fd : fdt'[f] # backlog'[i]
    BY <2>3, <2>5, <2>6, <2>7, <2>8 DEF KernelOK
  <2>10. \A i, j \in 1..Len(backlog') : backlog'[i] = backlog'[j] => i = j
    BY <2>5, <2>7 DEF KernelOK
  <2>11. \A d \in ConnId :
           conns'[d] # Null /\ conns'[d].state \in {"reset", "gone"} => conns'[d].data = <<>>
    BY <2>0, <2>4 DEF KernelOK
  <2> QED BY <2>3, <2>5, <2>9, <2>10, <2>11 DEF KernelOK
<1>4. ASSUME NEW c \in ConnId, NEW t \in Tag, NEW n \in Texts(t), RemoteSend(c, t, n)
      PROVE  KernelOK'
  <2> DEFINE m == [tag |-> t, addr |-> [host |-> conns[c].host, port |-> conns[c].port],
                   name |-> n]
  <2>1. conns[c] \in Conn /\ conns[c].state = "open" /\ c \in InUse
    BY <1>4 DEF RemoteSend, Established, NewConns, TypeOK, InUse
  <2>2. m \in Msg
    BY <2>1, FrameType DEF InUse
  <2> HIDE DEF m
  <2>3. [conns[c] EXCEPT !.data = Append(conns[c].data, m)] \in Conn
    BY <2>1, <2>2, AppendProperties DEF Conn
  <2>4. conns' = [conns EXCEPT ![c] = [conns[c] EXCEPT !.data = Append(conns[c].data, m)]]
        /\ UNCHANGED <<fdt, backlog, mcsock, inPc>>
    BY <1>4, <2>1 DEF RemoteSend, m, inThread
  <2> QED BY <2>1, <2>3, <2>4, SameDescriptors DEF Conn
<1>5. ASSUME NEW c \in ConnId, RemoteClose(c) PROVE KernelOK'
  <2>1. conns[c] \in Conn /\ c \in InUse
    BY <1>5 DEF RemoteClose, Established, NewConns, TypeOK, InUse
  <2> DEFINE k == [conns[c] EXCEPT !.state = "eof"]
  <2>2. k \in Conn /\ k.state = "eof"
    BY <2>1 DEF Conn
  <2>3. conns' = [conns EXCEPT ![c] = k] /\ UNCHANGED <<fdt, backlog, mcsock, inPc>>
    BY <1>5 DEF RemoteClose, inThread, TypeOK
  <2> QED BY <2>1, <2>2, <2>3, SameDescriptors
<1>6. ASSUME NEW c \in ConnId, RemoteReset(c) PROVE KernelOK'
  <2>1. conns[c] \in Conn /\ c \in InUse
    BY <1>6 DEF RemoteReset, Established, NewConns, TypeOK, InUse
  <2> DEFINE k == [conns[c] EXCEPT !.state = "reset", !.data = <<>>]
  <2>2. k \in Conn /\ k.state = "reset" /\ k.data = <<>>
    BY <2>1, EmptySeq DEF Conn
  <2>3. conns' = [conns EXCEPT ![c] = k] /\ UNCHANGED <<fdt, backlog, mcsock, inPc>>
    BY <1>6 DEF RemoteReset, inThread, TypeOK
  <2> QED BY <2>1, <2>2, <2>3, SameDescriptors
<1> QED BY <1>1, <1>2, <1>3, <1>4, <1>5, <1>6 DEF Environment

(* So does the receiving thread.                                           *)
LEMMA InThreadKeepsKernelOK ==
  ASSUME IInv, InThread PROVE KernelOK'
<1> USE DEF IInv
<1>1. CASE Listen
  <2>1. CASE backlog = <<>>
    BY <1>1, <2>1, SameKernel DEF Listen
  <2>2. CASE backlog # <<>>
    <3> DEFINE f == NewFd
               c == Head(backlog)
    <3>1. f \in Fd /\ fdt[f] = Closed
      BY <1>1, <2>2, NewFdIsFree DEF Listen
    <3>2. /\ Len(backlog) \in Nat \ {0} /\ c = backlog[1] /\ c \in ConnId
          /\ Len(Tail(backlog)) = Len(backlog) - 1
          /\ \A i \in 1..(Len(backlog) - 1) : Tail(backlog)[i] = backlog[i + 1]
      BY <2>2, HeadTailProperties, EmptySeq DEF TypeOK
    <3>3. /\ fdt' = [fdt EXCEPT ![f] = c] /\ backlog' = Tail(backlog)
          /\ inPc = "listen" /\ inPc' = "poll" /\ UNCHANGED <<conns, mcsock>>
      BY <1>1, <2>2 DEF Listen
    <3> HIDE DEF f, c
    <3>4. \A g \in Fd : fdt'[g] = IF g = f THEN c ELSE fdt[g]
      BY <3>3 DEF TypeOK
    <3>5. c \in InUse /\ \A g \in Fd : fdt[g] # c
      BY <3>2 DEF KernelOK
    <3>6. InUse' = InUse
      BY <3>3 DEF InUse
    <3>7. \A i \in 1..Len(backlog') : i + 1 \in 1..Len(backlog)
            /\ backlog'[i] = backlog[i + 1] /\ backlog[i + 1] # c
      BY <3>2, <3>3 DEF KernelOK
    <3>8. \A i \in 1..Len(backlog') :
            backlog'[i] \in InUse' /\ \A g \in Fd : fdt'[g] # backlog'[i]
      BY <3>4, <3>6, <3>7 DEF KernelOK
    <3>9. ASSUME NEW i \in 1..Len(backlog'), NEW j \in 1..Len(backlog'),
                 backlog'[i] = backlog'[j]
          PROVE  i = j
      <4>1. i + 1 = j + 1
        BY <3>7, <3>9 DEF KernelOK
      <4> QED BY <4>1
    <3>10. mcsock' \in Fd /\ fdt[mcsock] = Mc /\ fdt'[mcsock'] = Mc
      BY <3>1, <3>3, <3>4, Distinct DEF KernelOK, TypeOK
    <3>11. \A g \in Fd : fdt'[g] = Mc => g = mcsock'
      BY <3>2, <3>3, <3>4, Distinct DEF KernelOK
    <3>12. \A g, h \in Fd : fdt'[g] = fdt'[h] /\ fdt'[g] \in ConnId => g = h
      BY <3>4, <3>5 DEF KernelOK
    <3>13. \A g \in Fd : fdt'[g] \in ConnId => fdt'[g] \in InUse'
      BY <3>4, <3>5, <3>6 DEF KernelOK
    <3> QED BY <3>3, <3>8, <3>9, <3>10, <3>11, <3>12, <3>13 DEF KernelOK
  <2> QED BY <2>1, <2>2
<1>2. CASE Idle
  BY <1>2, SameKernel DEF Idle, kernel
<1>3. ASSUME NEW i \in 1..Len(poll), Read(poll[i]) PROVE KernelOK'
  <2>1. poll[i] \in Fd
    BY PolledIsFd
  <2>2. UNCHANGED <<fdt, backlog, mcsock>> /\ inPc = "poll" /\ inPc' = "push"
    BY <1>3 DEF Read
  <2>3. CASE conns' = conns
    BY <2>2, <2>3, SameKernel
  <2>4. ASSUME NEW c \in ConnId, fdt[poll[i]] = c, conns[c] \in Conn, conns[c].data # <<>>,
               conns' = [conns EXCEPT ![c] = [conns[c] EXCEPT !.data = Tail(conns[c].data)]]
        PROVE  KernelOK'
    <3> DEFINE k == [conns[c] EXCEPT !.data = Tail(conns[c].data)]
    <3>1. c \in InUse /\ conns[c].state # "reset"
      BY <2>1, <2>4 DEF KernelOK, InUse
    <3>2. Tail(conns[c].data) \in Seq(Msg)
      BY <2>4, HeadTailProperties DEF Conn
    <3>3. k \in Conn /\ k.state = conns[c].state
      BY <2>4, <3>2 DEF Conn
    <3>4. conns' = [conns EXCEPT ![c] = k]
      BY <2>4
    <3> HIDE DEF k
    <3> QED BY <2>2, <3>1, <3>3, <3>4, SameDescriptors DEF InUse
  <2> QED BY <1>3, <2>1, <2>3, <2>4, ReadShape
<1>4. ASSUME NEW i \in 1..Len(poll), Drop(poll[i]) PROVE KernelOK'
  <2> DEFINE f == poll[i]
  <2>1. f \in Fd
    BY DEF TypeOK
  <2>2. /\ fdt' = [fdt EXCEPT ![f] = Closed] /\ UNCHANGED <<backlog, mcsock>>
        /\ inPc = "poll" /\ inPc' = IF f = mcsock THEN "remake" ELSE "push"
    BY <1>4 DEF Drop
  <2>3. \/ fdt[f] \notin ConnId /\ conns' = conns
        \/ \E c \in ConnId :
             /\ fdt[f] = c /\ conns[c] \in Conn /\ conns[c].data = <<>>
             /\ conns' = [conns EXCEPT ![c] = [conns[c] EXCEPT !.state = "gone"]]
    BY <1>4, <2>1, DropShape
  <2> HIDE DEF f
  <2>4. \A g \in Fd : fdt'[g] = IF g = f THEN Closed ELSE fdt[g]
    BY <2>2 DEF TypeOK
  <2>5. \A d \in ConnId : d # fdt[f] => conns'[d] = conns[d]
    BY <2>3 DEF TypeOK
  <2>6. \A d \in ConnId : d \in InUse /\ d # fdt[f] => d \in InUse'
    BY <2>5 DEF InUse
  <2>7. \A d \in ConnId :
          conns'[d] # Null /\ conns'[d].state \in {"reset", "gone"} => conns'[d].data = <<>>
    <3> SUFFICES ASSUME NEW d \in ConnId, conns'[d] # Null,
                        conns'[d].state \in {"reset", "gone"}
                 PROVE  conns'[d].data = <<>>
      OBVIOUS
    <3>1. CASE d # fdt[f]
      BY <2>5, <3>1 DEF KernelOK
    <3>2. CASE d = fdt[f]
      <4>1. /\ conns[d] \in Conn /\ conns[d].data = <<>>
            /\ conns' = [conns EXCEPT ![d] = [conns[d] EXCEPT !.state = "gone"]]
        BY <2>3, <3>2
      <4>2. conns'[d] = [conns[d] EXCEPT !.state = "gone"]
        BY <4>1 DEF TypeOK
      <4>3. [conns[d] EXCEPT !.state = "gone"].data = conns[d].data
        BY <4>1 DEF Conn
      <4> QED BY <4>1, <4>2, <4>3
    <3> QED BY <3>1, <3>2
  <2>8. \A g \in Fd : fdt'[g] \in ConnId => fdt'[g] \in InUse'
    BY <2>1, <2>4, <2>6, Distinct DEF KernelOK
  <2>9. \A j \in 1..Len(backlog) : backlog[j] \in InUse' /\ \A g \in Fd : fdt'[g] # backlog[j]
    <3>1. \A j \in 1..Len(backlog) : backlog[j] \in ConnId
      BY DEF TypeOK
    <3> QED BY <2>1, <2>4, <2>6, <3>1, Distinct DEF KernelOK
  <2>10. inPc' # "remake" <=> fdt'[mcsock'] = Mc
    BY <2>1, <2>2, <2>4, Distinct DEF KernelOK, TypeOK
  <2>11. \A g \in Fd : fdt'[g] = Mc => g = mcsock'
    BY <2>2, <2>4, Distinct DEF KernelOK
  <2>12. \A g, h \in Fd : fdt'[g] = fdt'[h] /\ fdt'[g] \in ConnId => g = h
    BY <2>4, Distinct DEF KernelOK
  <2> QED BY <2>2, <2>7, <2>8, <2>9, <2>10, <2>11, <2>12 DEF KernelOK
<1>5. CASE Remake
  <2> DEFINE f == NewFd
  <2>1. f \in Fd /\ fdt[f] = Closed
    BY <1>5, NewFdIsFree DEF Remake
  <2>2. /\ fdt' = [fdt EXCEPT ![f] = Mc] /\ mcsock' = f
        /\ inPc = "remake" /\ inPc' = "push" /\ UNCHANGED <<conns, backlog>>
    BY <1>5 DEF Remake
  <2> HIDE DEF f
  <2>3. \A g \in Fd : fdt'[g] = IF g = f THEN Mc ELSE fdt[g]
    BY <2>2 DEF TypeOK
  <2>4. InUse' = InUse
    BY <2>2 DEF InUse
  <2>5. \A g \in Fd : fdt[g] # Mc
    BY <2>2 DEF KernelOK
  <2>6. \A j \in 1..Len(backlog) : backlog[j] \in ConnId
    BY DEF TypeOK
  <2>7. \A g \in Fd : fdt'[g] = Mc <=> g = mcsock'
    BY <2>1, <2>2, <2>3, <2>5
  <2>8. \A g \in Fd : fdt'[g] \in ConnId => g # f /\ fdt'[g] = fdt[g]
    BY <2>3, Distinct
  <2>9. \A g, h \in Fd : fdt'[g] = fdt'[h] /\ fdt'[g] \in ConnId => g = h
    BY <2>8 DEF KernelOK
  <2>10. \A j \in 1..Len(backlog) : backlog[j] \in InUse' /\ \A g \in Fd : fdt'[g] # backlog[j]
    BY <2>3, <2>4, <2>6, Distinct DEF KernelOK
  <2>11. \A g \in Fd : fdt'[g] \in ConnId => fdt'[g] \in InUse'
    BY <2>4, <2>8 DEF KernelOK
  <2> QED BY <2>1, <2>2, <2>7, <2>9, <2>10, <2>11 DEF KernelOK
<1>6. CASE Push
  BY <1>6, SameKernel DEF Push, kernel
<1> QED BY <1>1, <1>2, <1>3, <1>4, <1>5, <1>6 DEF InThread, Poll

(* So does the application thread.                                         *)
LEMMA AppThreadKeepsKernelOK ==
  ASSUME IInv, AppThread PROVE KernelOK'
<1> USE DEF IInv
<1>1. CASE UNCHANGED <<fdt, conns, backlog, mcsock, inPc>>
  BY <1>1, SameKernel
<1>2. ASSUME NEW f \in Fd, NEW c \in ConnId, NEW k \in Conn, fdt[f] = Closed,
             conns[c] = Null, k.state \in {"open", "reset"}, k.data = <<>>,
             conns' = [conns EXCEPT ![c] = k], fdt' = [fdt EXCEPT ![f] = c],
             UNCHANGED <<backlog, mcsock, inPc>>
      PROVE  KernelOK'
  <2>1. \A g \in Fd : fdt'[g] = IF g = f THEN c ELSE fdt[g]
    BY <1>2 DEF TypeOK
  <2>2. \A d \in ConnId : conns'[d] = IF d = c THEN k ELSE conns[d]
    BY <1>2 DEF TypeOK
  <2>3. \A d \in ConnId : d \in InUse => d \in InUse' /\ d # c
    BY <1>2, <2>2 DEF InUse
  <2>4. c \in InUse'
    BY <1>2, <2>2, Distinct DEF InUse
  <2>5. \A g \in Fd : fdt[g] # c
    BY <2>3 DEF KernelOK
  <2>6. \A j \in 1..Len(backlog) : backlog[j] \in ConnId /\ backlog[j] # c
    BY <2>3 DEF TypeOK, KernelOK
  <2>7. \A j \in 1..Len(backlog) : backlog[j] \in InUse' /\ \A g \in Fd : fdt'[g] # backlog[j]
    BY <2>1, <2>3, <2>6 DEF KernelOK
  <2>8. \A g \in Fd : fdt'[g] \in ConnId => fdt'[g] \in InUse'
    BY <2>1, <2>3, <2>4 DEF KernelOK
  <2>9. \A g, h \in Fd : fdt'[g] = fdt'[h] /\ fdt'[g] \in ConnId => g = h
    BY <2>1, <2>5 DEF KernelOK
  <2>10. \A g \in Fd : fdt'[g] = Mc <=> fdt[g] = Mc
    BY <1>2, <2>1, Distinct
  <2>11. (\A g \in Fd : fdt'[g] = Mc => g = mcsock') /\ (inPc' # "remake" <=> fdt'[mcsock'] = Mc)
    BY <1>2, <2>10 DEF KernelOK, TypeOK
  <2>12. \A d \in ConnId :
           conns'[d] # Null /\ conns'[d].state \in {"reset", "gone"} => conns'[d].data = <<>>
    BY <1>2, <2>2 DEF KernelOK
  <2> QED BY <1>2, <2>7, <2>8, <2>9, <2>11, <2>12 DEF KernelOK
<1>3. CASE Connect
  <2>1. UNCHANGED <<backlog, mcsock, inPc>>
    BY <1>3, ConnectShape DEF inThread
  <2> QED BY <1>1, <1>2, <1>3, <2>1, ConnectShape
<1>4. CASE Pop
  BY <1>1, <1>4 DEF Pop, kernel, inThread
<1>5. CASE ProcessError
  BY <1>1, <1>5 DEF ProcessError, kernel, inThread
<1>6. CASE ProcessSelf
  BY <1>1, <1>6 DEF ProcessSelf, kernel, inThread
<1>7. CASE ProcessData
  BY <1>1, <1>7 DEF ProcessData, kernel, inThread
<1>8. ASSUME NEW p \in PeerId, UserSend(p) PROVE KernelOK'
  BY <1>1, <1>8 DEF UserSend, kernel, inThread
<1>9. CASE Resolve
  BY <1>1, <1>9 DEF Resolve, kernel, inThread
<1>10. CASE Write
  BY <1>1, <1>10 DEF Write, kernel, inThread
<1>11. CASE Watch
  BY <1>1, <1>11 DEF Watch, kernel, inThread
<1>12. CASE Leak
  BY <1>1, <1>12 DEF Leak, kernel
<1> QED BY <1>3, <1>4, <1>5, <1>6, <1>7, <1>8, <1>9, <1>10, <1>11, <1>12 DEF AppThread

-----------------------------------------------------------------------------
(* The threads' side of the invariant.                                     *)

(* A step of the receiving thread or the network leaves the application's  *)
(* place alone.                                                            *)
LEMMA SameThreads ==
  ASSUME ThreadsOK, Live(contacts') = Live(contacts),
         UNCHANGED <<appPc, appMsg, job>>,
         inPc' \in {"push", "remake"} => inMsg' \in SMsg
  PROVE  ThreadsOK'
<1>1. Live(contacts)' = Live(contacts)
  BY DEF Live
<1> QED BY <1>1 DEF ThreadsOK

(* Each thread finds what its place in the code promises, and the contact  *)
(* list stays in order.                                                    *)
LEMMA NextKeepsThreadsOK ==
  ASSUME IInv, Next PROVE ThreadsOK' /\ TableOK(contacts')
<1> USE DEF IInv
<1>1. ASSUME UNCHANGED <<inPc, inMsg, appPc, appMsg, job, contacts>>
      PROVE  ThreadsOK' /\ TableOK(contacts')
  BY <1>1, SameThreads DEF ThreadsOK
<1>2. CASE Environment
  <2>1. UNCHANGED <<inPc, inMsg, appPc, appMsg, job, contacts>>
    BY <1>2 DEF Environment, McArrive, McBreak, RemoteConnect, RemoteSend, RemoteClose,
       RemoteReset, inThread, appThread
  <2> QED BY <1>1, <2>1
<1>3. CASE InThread
  <2>1. UNCHANGED <<appPc, appMsg, job, contacts>>
    BY <1>3 DEF InThread, Listen, Idle, Poll, Read, Drop, Remake, Push, appThread
  <2>2. inPc' \in {"push", "remake"} => inMsg' \in SMsg
    <3>1. CASE Listen
      BY <3>1 DEF Listen
    <3>2. CASE Idle
      BY <3>2 DEF Idle
    <3>3. ASSUME NEW i \in 1..Len(poll), Read(poll[i]) \/ Drop(poll[i])
          PROVE  inMsg' \in SMsg
      <4>1. poll[i] \in Fd
        BY PolledIsFd
      <4> QED BY <3>3, <4>1, ReadShape, DropShape
    <3>4. CASE Remake
      BY <3>4 DEF Remake, ThreadsOK
    <3>5. CASE Push
      BY <3>5 DEF Push
    <3> QED BY <1>3, <3>1, <3>2, <3>3, <3>4, <3>5 DEF InThread, Poll
  <2> QED BY <2>1, <2>2, SameThreads
<1>4. CASE AppThread
  <2>0. UNCHANGED <<inPc, inMsg>>
    BY <1>4 DEF AppThread, Pop, ProcessError, ProcessSelf, ProcessData, UserSend,
       Resolve, Connect, Watch, Leak, Write, inThread
  <2>1. CASE Pop
    <3>1. Head(inq) \in SMsg
      BY <2>1, HeadTailProperties DEF Pop, TypeOK
    <3>2. appMsg' \in SMsg /\ appPc' = "process" /\ UNCHANGED <<contacts, job>>
          /\ appPc # "connect"
      BY <2>1, <3>1 DEF Pop
    <3> QED BY <2>0, <3>2 DEF ThreadsOK
  <2>2. CASE ProcessError
    BY <2>0, <2>2, NoticeShape DEF ProcessError, ThreadsOK
  <2>3. CASE ProcessSelf
    BY <2>0, <2>3 DEF ProcessSelf, ThreadsOK
  <2>4. CASE ProcessData
    <3>1. PICK x : /\ x.peer \in Live(x.table) /\ TableOK(contacts')
                   /\ Live(contacts') = Live(x.table)
                   /\ \/ appPc' = "resolve" /\ Reply(x.peer, "manameis", "recv")
                      \/ appPc' = "resolve" /\ Reply(x.peer, "nametaken", "app")
                      \/ appPc' \in {"app", "recv"} /\ UNCHANGED job
      BY <2>4, DataShape
    <3>2. appPc' = "resolve" => job'.peer = x.peer
      BY <3>1 DEF Reply, NoJob
    <3>3. appPc' \notin {"process", "connect", "write"}
      BY <3>1
    <3>4. job'.conn = 0
      BY <2>4, <3>1 DEF Reply, NoJob, ProcessData, ThreadsOK
    <3> QED BY <2>0, <3>1, <3>2, <3>3, <3>4 DEF ThreadsOK, Live
  <2>5. ASSUME NEW p \in PeerId, UserSend(p) PROVE ThreadsOK' /\ TableOK(contacts')
    <3>1. p \in Live(contacts)
      <4>1. Live(contacts) = 1..contacts.last /\ contacts.last \in Int
        BY TableOKType, BoundsOfList DEF Table
      <4>2. p \in Int /\ p >= 1 /\ p <= contacts.last
        BY <2>5, BoundsOfList DEF UserSend, PeerId
      <4> QED BY <4>1, <4>2
    <3>2. job'.peer = p /\ job'.conn = 0 /\ appPc' = "resolve" /\ contacts' = contacts
      BY <2>5 DEF UserSend, Reply, NoJob
    <3> QED BY <2>0, <3>1, <3>2 DEF ThreadsOK
  <2>6. CASE Resolve
    <3>1. /\ job.peer \in Live(contacts)
          /\ contacts.peers[job.peer].socket \in AnySocket \ {NoFd}
      BY <2>6, TableOKType DEF Resolve, ThreadsOK, PeerInfo
    <3>2. contacts.peers[job.peer].socket \in Fd
      BY <3>1 DEF AnySocket
    <3>3. job'.peer = job.peer /\ job'.fd = contacts.peers[job.peer].socket /\ job'.conn = 0
      BY <2>6 DEF Resolve, TypeOK, ThreadsOK
    <3>4. appPc' = "write" /\ contacts' = contacts
      BY <2>6 DEF Resolve
    <3> QED BY <2>0, <3>1, <3>2, <3>3, <3>4 DEF ThreadsOK
  <2>7. CASE Connect
    <3>1. contacts' = contacts /\ job.peer \in Live(contacts)
      BY <2>7, ConnectShape DEF ThreadsOK
    <3>2. CASE job' = NoJob /\ appPc' = job.back
      BY <2>0, <3>1, <3>2 DEF ThreadsOK, TypeOK, NoJob
    <3>3. ASSUME NEW f \in Fd, NEW c \in ConnId, job' = [job EXCEPT !.fd = f, !.conn = c],
                 appPc' = "connect"
          PROVE  ThreadsOK'
      <4>1. job'.peer = job.peer /\ job'.fd = f /\ job'.conn # 0
        BY <3>3, Distinct DEF TypeOK, Closed
      <4> QED BY <2>0, <3>1, <3>3, <4>1 DEF ThreadsOK, Live
    <3> QED BY <2>7, <3>1, <3>2, <3>3, ConnectShape
  <2>8. CASE Watch
    <3>1. job.peer \in Live(contacts') /\ job.fd \in Fd /\ TableOK(contacts')
      BY <2>8, WatchShape DEF Watch, ThreadsOK
    <3>2. job'.peer = job.peer /\ job'.fd = job.fd /\ job'.conn = 0 /\ appPc' = "write"
      BY <2>8, WatchShape DEF TypeOK
    <3> QED BY <2>0, <3>1, <3>2 DEF ThreadsOK, Live
  <2>9. CASE Leak
    BY <2>0, <2>9 DEF Leak, NoJob, ThreadsOK, TypeOK
  <2>10. CASE Write
    BY <2>0, <2>10 DEF Write, NoJob, ThreadsOK, TypeOK
  <2> QED BY <1>4, <2>1, <2>2, <2>3, <2>4, <2>5, <2>6, <2>7, <2>8, <2>9, <2>10 DEF AppThread
<1> QED BY <1>2, <1>3, <1>4 DEF Next

-----------------------------------------------------------------------------
(* What stays out of the poll list.                                        *)

(* A connection that was opened is never accepted again.                   *)
LEMMA OpenedStays ==
  ASSUME IInv, [Next]_vars, NEW c, Opened(c) PROVE Opened(c)'
<1> USE DEF IInv
<1>1. c \in ConnId /\ conns'[c] # Null
  BY HostStays DEF Opened
<1>2. CASE backlog' = backlog
  BY <1>1, <1>2 DEF Opened
<1>3. ASSUME NEW r \in Remote, RemoteConnect(r) PROVE Opened(c)'
  <2>1. NewConn \in ConnId /\ NewConn # c /\ backlog' = Append(backlog, NewConn)
    BY <1>3, NewConnIsNew DEF RemoteConnect, Opened
  <2>2. /\ Len(backlog) \in Nat /\ Len(backlog') = Len(backlog) + 1
        /\ \A i \in 1..Len(backlog) : backlog'[i] = backlog[i]
        /\ backlog'[Len(backlog) + 1] = NewConn
    BY <2>1, AppendProperties DEF TypeOK
  <2>3. \A i \in 1..Len(backlog') : backlog'[i] # c
    BY <2>1, <2>2 DEF Opened
  <2> QED BY <1>1, <2>3 DEF Opened
<1>4. CASE Listen /\ backlog # <<>>
  <2>1. /\ Len(backlog) \in Nat /\ backlog' = Tail(backlog)
        /\ Len(backlog') = Len(backlog) - 1
        /\ \A i \in 1..Len(backlog') : backlog'[i] = backlog[i + 1]
    <3>1. backlog \in Seq(ConnId) /\ backlog # <<>> /\ backlog' = Tail(backlog)
      BY <1>4 DEF Listen, TypeOK
    <3> QED BY <3>1, HeadTailProperties
  <2>2. \A i \in 1..Len(backlog') : backlog'[i] # c
    BY <2>1 DEF Opened
  <2> QED BY <1>1, <2>2 DEF Opened
<1>5. CASE Environment /\ ~ \E r \in Remote : RemoteConnect(r)
  BY <1>2, <1>5 DEF Environment, McArrive, McBreak, RemoteSend, RemoteClose, RemoteReset
<1>6. CASE Listen /\ backlog = <<>>
  BY <1>2, <1>6 DEF Listen
<1>7. CASE InThread /\ ~ Listen
  BY <1>2, <1>7 DEF InThread, Idle, Poll, Read, Drop, Remake, Push, kernel
<1>8. CASE AppThread
  BY <1>2, <1>8 DEF AppThread, Pop, ProcessError, ProcessSelf, ProcessData, UserSend,
     Resolve, Connect, Watch, Leak, Write, kernel
<1>9. CASE UNCHANGED vars
  BY <1>2, <1>9 DEF vars, kernel
<1> QED BY <1>3, <1>4, <1>5, <1>6, <1>7, <1>8, <1>9 DEF Next, InThread

(* What is accepted is new to the rest.                                    *)
LEMMA AcceptShape ==
  ASSUME IInv, Listen, backlog # <<>>
  PROVE  \E f \in Fd, c \in ConnId :
           /\ f = NewFd /\ c = Head(backlog) /\ fdt[f] = Closed
           /\ fdt' = [fdt EXCEPT ![f] = c] /\ Opened(c)'
           /\ ~ Opened(c) /\ \A g \in Fd : fdt[g] # c
           /\ \/ poll' = Append(poll, f) /\ lost' = lost
              \/ poll' = poll /\ lost' = lost \cup {c}
<1> USE DEF IInv
<1>1. PICK f \in Fd : f = NewFd /\ fdt[f] = Closed
  BY NewFdIsFree DEF Listen
<1>2. PICK c \in ConnId : c = Head(backlog)
  BY HeadTailProperties DEF TypeOK
<1>3. backlog' = Tail(backlog) /\ conns' = conns
  BY DEF Listen
<1>4. /\ Len(backlog) \in Nat \ {0} /\ c = backlog[1]
      /\ Len(backlog') = Len(backlog) - 1
      /\ \A i \in 1..Len(backlog') : backlog'[i] = backlog[i + 1]
  <2>1. backlog \in Seq(ConnId) /\ Len(backlog) \in Nat \ {0}
    BY EmptySeq DEF TypeOK
  <2> QED BY <1>2, <1>3, <2>1, HeadTailProperties
<1>5. \A i \in 1..Len(backlog') : backlog'[i] # c
  <2> SUFFICES ASSUME NEW i \in 1..Len(backlog'), backlog'[i] = c PROVE FALSE
    OBVIOUS
  <2>1. 1 \in 1..Len(backlog) /\ i + 1 \in 1..Len(backlog) /\ backlog[i + 1] = backlog[1]
    BY <1>4
  <2>2. i + 1 = 1
    BY <2>1 DEF KernelOK
  <2> QED BY <1>4, <2>2
<1>6. conns[c] # Null /\ ~ Opened(c) /\ \A g \in Fd : fdt[g] # c
  BY <1>4 DEF Opened, KernelOK, InUse
<1>7. Opened(c)'
  BY <1>3, <1>5, <1>6 DEF Opened
<1>8. /\ fdt' = [fdt EXCEPT ![f] = c]
      /\ \/ poll' = Append(poll, f) /\ lost' = lost
         \/ poll' = poll /\ lost' = lost \cup {c}
  BY <1>1, <1>2 DEF Listen
<1> QED BY <1>1, <1>2, <1>6, <1>7, <1>8

(* A step without accept() or connect() loses no connection and waits for  *)
(* none.                                                                   *)
LEMMA SameOutside ==
  ASSUME IInv, [Next]_vars, ~ Listen, ~ Connect, ~ Watch, ~ Leak
  PROVE  /\ lost' = lost
         /\ appPc' = "connect" => appPc = "connect"
         /\ appPc = "connect" => UNCHANGED <<job, appPc>>
<1> USE DEF IInv
<1>1. CASE Environment \/ InThread \/ UNCHANGED vars
  BY <1>1, ZenonT(40) DEF Environment, McArrive, McBreak, RemoteConnect, RemoteSend,
     RemoteClose, RemoteReset, InThread, Idle, Poll, Read, Drop, Remake, Push, vars,
     inThread, appThread
<1>2. CASE AppThread
  <2>1. lost' = lost /\ appPc # "connect"
    BY <1>2 DEF AppThread, Pop, ProcessError, ProcessSelf, ProcessData, UserSend,
       Resolve, Write, inThread
  <2>2. appPc' # "connect"
    BY <1>2 DEF AppThread, Pop, ProcessError, ProcessSelf, ProcessData, UserSend,
       Resolve, Write, TypeOK
  <2> QED BY <2>1, <2>2
<1> QED BY <1>1, <1>2 DEF Next

(* Every step keeps apart what is out of the poll list.                    *)
LEMMA NextKeepsOutsideOK ==
  ASSUME IInv, Next PROVE OutsideOK'
<1> USE DEF IInv
<1>0. \A c : Opened(c) => Opened(c)'
  BY OpenedStays
<1>1. ASSUME lost' = lost, appPc' = "connect" => appPc = "connect",
             appPc = "connect" => UNCHANGED job,
             NEW f \in Fd, NEW x, fdt' = fdt \/ fdt' = [fdt EXCEPT ![f] = x],
             ~ Opened(x)
      PROVE  OutsideOK'
  <2>1. \A g \in Fd : fdt'[g] = fdt[g] \/ fdt'[g] = x
    BY <1>1 DEF TypeOK
  <2>2. ASSUME appPc' = "connect"
        PROVE  Opened(job.conn)' /\ job' = job /\ Opened(job.conn)
    BY <1>0, <1>1, <2>2 DEF OutsideOK
  <2> QED BY <1>0, <1>1, <2>1, <2>2 DEF OutsideOK
<1>2. ASSUME lost' = lost, appPc' = "connect" => appPc = "connect",
             appPc = "connect" => UNCHANGED job, fdt' = fdt
      PROVE  OutsideOK'
  BY <1>0, <1>2 DEF OutsideOK
<1>3. ~ Opened(Closed) /\ ~ Opened(Mc)
  BY Distinct DEF Opened
<1>4. CASE Listen
  <2>1. UNCHANGED <<job, appPc>>
    BY <1>4 DEF Listen, appThread
  <2>2. CASE backlog = <<>>
    BY <1>2, <1>4, <2>1, <2>2 DEF Listen
  <2>3. CASE backlog # <<>>
    <3>1. PICK f \in Fd, c \in ConnId :
             /\ fdt' = [fdt EXCEPT ![f] = c] /\ Opened(c)' /\ ~ Opened(c)
             /\ lost' = lost \/ lost' = lost \cup {c}
      BY <1>4, <2>3, AcceptShape
    <3>2. \A d \in lost' : Opened(d)'
      BY <1>0, <3>1 DEF OutsideOK
    <3>3. ASSUME appPc = "connect"
          PROVE  /\ Opened(job.conn)' /\ job.conn \notin lost'
                 /\ \A g \in Fd : fdt'[g] = job.conn => g = job.fd
      <4>1. Opened(job.conn) /\ job.conn # c
        BY <3>1, <3>3 DEF OutsideOK
      <4>2. \A g \in Fd : fdt'[g] = IF g = f THEN c ELSE fdt[g]
        BY <3>1 DEF TypeOK
      <4>3. \A g \in Fd : fdt'[g] = job.conn => g = job.fd
        BY <3>3, <4>1, <4>2 DEF OutsideOK
      <4>4. job.conn \notin lost'
        BY <3>1, <3>3, <4>1 DEF OutsideOK
      <4>5. Opened(job.conn)'
        <5>1. Opened(job.conn)
          BY <4>1
        <5>2. job' = job
          BY <2>1
        <5> QED BY <1>0, <4>1, <5>2 DEF Opened
      <4> QED BY <4>3, <4>4, <4>5
    <3> QED BY <2>1, <3>2, <3>3 DEF OutsideOK
  <2> QED BY <2>2, <2>3
<1>5. CASE Connect
  <2>1. CASE job' = NoJob /\ appPc' = job.back /\ UNCHANGED <<fdt, conns>>
    BY <1>2, <1>5, <2>1, ConnectShape DEF TypeOK, inThread
  <2>2. ASSUME NEW f \in Fd, NEW c \in ConnId, NEW k \in Conn, conns[c] = Null,
               conns' = [conns EXCEPT ![c] = k], fdt' = [fdt EXCEPT ![f] = c],
               job' = [job EXCEPT !.fd = f, !.conn = c]
        PROVE  OutsideOK'
    <3>1. lost' = lost /\ backlog' = backlog
      BY <1>5, ConnectShape DEF inThread
    <3>2. \A d \in lost' : Opened(d)'
      BY <1>0, <3>1 DEF OutsideOK
    <3>3. job'.conn = c /\ job'.fd = f
      BY <2>2 DEF TypeOK
    <3>4. \A i \in 1..Len(backlog) : backlog[i] # c
      BY <2>2 DEF KernelOK, InUse
    <3>5. conns'[c] # Null
      BY <2>2, Distinct DEF TypeOK
    <3>6. \A g \in Fd : fdt[g] # c
      BY <2>2 DEF KernelOK, InUse
    <3>7. \A g \in Fd : fdt'[g] = c => g = f
      BY <2>2, <3>6 DEF TypeOK
    <3>8. c \notin lost'
      BY <2>2, <3>1 DEF OutsideOK, Opened
    <3>9. Opened(job.conn)'
      BY <2>2, <3>1, <3>3, <3>4, <3>5 DEF Opened
    <3> QED BY <3>2, <3>3, <3>7, <3>8, <3>9 DEF OutsideOK
  <2> QED BY <1>5, <2>1, <2>2, ConnectShape
<1>6. CASE Watch
  BY <1>0, <1>6 DEF Watch, OutsideOK, inThread
<1>7. CASE Leak
  <2>1. lost' = lost \cup {job.conn} /\ appPc' # "connect" /\ Opened(job.conn)
    BY <1>7 DEF Leak, OutsideOK, TypeOK
  <2>2. \A d \in lost' : Opened(d)'
    BY <1>0, <2>1 DEF OutsideOK
  <2> QED BY <2>1, <2>2 DEF OutsideOK
<1>8. ASSUME NEW i \in 1..Len(poll), Drop(poll[i]) PROVE OutsideOK'
  <2>1. poll[i] \in Fd /\ fdt' = [fdt EXCEPT ![poll[i]] = Closed]
        /\ UNCHANGED <<lost, job, appPc>>
    BY <1>8, PolledIsFd DEF Drop, appThread
  <2> QED BY <1>1, <1>3, <2>1
<1>9. CASE Remake
  <2>1. NewFd \in Fd /\ fdt' = [fdt EXCEPT ![NewFd] = Mc] /\ UNCHANGED <<lost, job, appPc>>
    BY <1>9, NewFdIsFree DEF Remake, appThread
  <2> QED BY <1>1, <1>3, <2>1
<1>10. CASE Environment
  <2>1. fdt' = fdt /\ UNCHANGED <<lost, job, appPc>>
    BY <1>10 DEF Environment, McArrive, McBreak, RemoteConnect, RemoteSend, RemoteClose,
       RemoteReset, inThread, appThread
  <2> QED BY <1>2, <2>1
<1>11. CASE AppThread /\ ~ Connect /\ ~ Watch /\ ~ Leak
  <2>1. /\ lost' = lost /\ fdt' = fdt /\ appPc # "connect"
        /\ ~ Listen
    BY <1>11 DEF AppThread, Pop, ProcessError, ProcessSelf, ProcessData, UserSend,
       Resolve, Write, kernel, inThread, Listen
  <2>2. [Next]_vars
    OBVIOUS
  <2> QED BY <1>2, <1>11, <2>1, <2>2, SameOutside
<1>12. CASE Idle \/ Push \/ \E i \in 1..Len(poll) : Read(poll[i])
  <2>1. fdt' = fdt /\ UNCHANGED <<lost, job, appPc>>
    BY <1>12 DEF Idle, Push, Read, kernel, appThread
  <2> QED BY <1>2, <2>1
<1> QED BY <1>4, <1>5, <1>6, <1>7, <1>8, <1>9, <1>10, <1>11, <1>12 DEF Next, InThread, Poll

-----------------------------------------------------------------------------
(* Every other open descriptor is in the poll list.                        *)

(* The owners of descriptors that need not be polled.                      *)
Apart == lost \cup {job.conn, Closed}

(* A step that loses no connection and waits for no other one.             *)
LEMMA SameApart ==
  ASSUME IInv, IInv', [Next]_vars, ~ Listen, ~ Connect, ~ Watch, ~ Leak
  PROVE  Apart' = Apart
<1>1. appPc # "connect" => job.conn = 0 /\ job'.conn = 0
  BY SameOutside DEF IInv, ThreadsOK
<1> QED BY <1>1, SameOutside DEF Apart

(* Adding a descriptor forgets none.                                       *)
LEMMA AppendPolls ==
  ASSUME TypeOK, NEW f \in Fd, poll' = Append(poll, f)
  PROVE  \A g \in Fd : Polled(g) \/ g = f => Polled(g)'
<1>1. /\ Len(poll) \in Nat /\ Len(poll') = Len(poll) + 1
      /\ \A i \in 1..Len(poll) : poll'[i] = poll[i]
      /\ poll'[Len(poll) + 1] = f
  BY AppendProperties DEF TypeOK
<1>2. \A g \in Fd : Polled(g) => \E i \in 1..Len(poll') : poll'[i] = g
  BY <1>1 DEF Polled
<1>3. \E i \in 1..Len(poll') : poll'[i] = f
  BY <1>1
<1> QED BY <1>2, <1>3 DEF Polled

(* No step leaves an open descriptor out of the poll list, but for those   *)
(* connect() waits for and those that are lost.                            *)
LEMMA NextKeepsPolled ==
  ASSUME IInv, Next PROVE OpenIsPolled'
<1> USE DEF IInv
<1>1. ASSUME UNCHANGED <<fdt, poll>>, lost \subseteq lost',
             job'.conn = job.conn \/ job.conn = 0 \/ job.conn \in lost'
      PROVE  OpenIsPolled'
  BY <1>1 DEF OpenIsPolled, Polled, Closed
<1>2. ASSUME NEW f \in Fd, NEW x, fdt' = [fdt EXCEPT ![f] = x], poll' = Append(poll, f),
             UNCHANGED <<lost, job>>
      PROVE  OpenIsPolled'
  BY <1>2, AppendPolls DEF OpenIsPolled, TypeOK
<1>3. CASE Environment
  BY <1>1, <1>3 DEF Environment, McArrive, McBreak, RemoteConnect, RemoteSend,
     RemoteClose, RemoteReset, inThread, appThread
<1>4. CASE Listen
  <2>0. job' = job
    BY <1>4 DEF Listen, appThread
  <2>1. CASE backlog = <<>>
    BY <1>1, <1>4, <2>0, <2>1 DEF Listen
  <2>2. CASE backlog # <<>>
    <3>1. PICK f \in Fd, c \in ConnId :
             /\ fdt' = [fdt EXCEPT ![f] = c]
             /\ \/ poll' = Append(poll, f) /\ lost' = lost
                \/ poll' = poll /\ lost' = lost \cup {c}
      BY <1>4, <2>2, AcceptShape
    <3>2. CASE poll' = poll /\ lost' = lost \cup {c}
      <4>1. \A g \in Fd : fdt'[g] = IF g = f THEN c ELSE fdt[g]
        BY <3>1 DEF TypeOK
      <4> QED BY <2>0, <3>2, <4>1 DEF OpenIsPolled, Polled
    <3> QED BY <1>2, <2>0, <3>1, <3>2
  <2> QED BY <2>1, <2>2
<1>5. ASSUME NEW i \in 1..Len(poll), Drop(poll[i]) PROVE OpenIsPolled'
  <2>1. poll[i] \in Fd /\ fdt' = [fdt EXCEPT ![poll[i]] = Closed]
        /\ (poll' = poll \/ poll' = Without(poll, poll[i]))
        /\ UNCHANGED <<lost, job>>
    BY <1>5 DEF Drop, TypeOK, appThread
  <2>2. ASSUME NEW g \in Fd, fdt'[g] # Closed, fdt'[g] # job'.conn, fdt'[g] \notin lost'
        PROVE  Polled(g)'
    <3>1. g # poll[i] /\ fdt[g] # Closed /\ fdt[g] # job.conn /\ fdt[g] \notin lost
      BY <2>1, <2>2 DEF TypeOK
    <3>2. PICK j \in 1..Len(poll) : poll[j] = g
      BY <3>1 DEF OpenIsPolled, Polled
    <3>3. CASE poll' = poll
      BY <3>2, <3>3 DEF Polled
    <3>4. CASE poll' = Without(poll, poll[i])
      <4>1. \E k \in 1..Len(Without(poll, poll[i])) : Without(poll, poll[i])[k] = poll[j]
        <5>1. poll \in Seq(Fd) /\ poll[j] # poll[i]
          BY <3>1, <3>2 DEF TypeOK
        <5> QED BY <5>1, WithoutKeeps, ZenonT(40)
      <4> QED BY <3>2, <3>4, <4>1 DEF Polled
    <3> QED BY <2>1, <3>3, <3>4
  <2> QED BY <2>2 DEF OpenIsPolled
<1>6. CASE Remake
  BY <1>2, <1>6, NewFdIsFree DEF Remake, appThread
<1>7. CASE Idle \/ Push \/ \E i \in 1..Len(poll) : Read(poll[i])
  BY <1>1, <1>7 DEF Idle, Push, Read, kernel, appThread
<1>8. CASE Connect
  <2>1. job.conn = 0 /\ lost' = lost /\ poll' = poll
    BY <1>8, ConnectShape DEF ThreadsOK, inThread
  <2>2. CASE fdt' = fdt
    BY <1>1, <2>1, <2>2
  <2>3. ASSUME NEW f \in Fd, NEW c \in ConnId, fdt' = [fdt EXCEPT ![f] = c],
               job' = [job EXCEPT !.fd = f, !.conn = c]
        PROVE  OpenIsPolled'
    <3>1. \A g \in Fd : fdt'[g] = IF g = f THEN c ELSE fdt[g]
      BY <2>3 DEF TypeOK
    <3>2. job'.conn = c
      BY <2>3 DEF TypeOK
    <3> QED BY <2>1, <3>1, <3>2 DEF OpenIsPolled, Polled, Closed
  <2> QED BY <1>8, <2>2, <2>3, ConnectShape
<1>9. CASE Watch
  <2>1. job.fd \in Fd /\ poll' = Append(poll, job.fd) /\ UNCHANGED <<fdt, lost>>
        /\ \A g \in Fd : fdt[g] = job.conn => g = job.fd
    BY <1>9, WatchShape DEF Watch, OutsideOK, kernel, inThread
  <2> QED BY <2>1, AppendPolls DEF OpenIsPolled
<1>10. CASE Leak
  BY <1>1, <1>10 DEF Leak, kernel
<1>11. CASE AppThread /\ ~ Connect /\ ~ Watch /\ ~ Leak
  <2>1. UNCHANGED <<fdt, poll, lost>> /\ appPc # "connect"
    BY <1>11 DEF AppThread, Pop, ProcessError, ProcessSelf, ProcessData, UserSend,
       Resolve, Write, kernel, inThread
  <2>2. job.conn = 0
    BY <2>1 DEF ThreadsOK
  <2> QED BY <1>1, <2>1, <2>2
<1> QED BY <1>3, <1>4, <1>5, <1>6, <1>7, <1>8, <1>9, <1>10, <1>11
        DEF Next, InThread, Poll, AppThread

-----------------------------------------------------------------------------
(* The invariant holds.                                                    *)

(* The invariant holds at the start.                                       *)
LEMMA InitEstablishesIInv == Init => IInv
<1> SUFFICES ASSUME Init PROVE IInv
  OBVIOUS
<1> USE Distinct DEF Init
<1>1. fdt \in [Fd -> 0..Mc] /\ fdt[1] = Mc /\ \A f \in Fd : f # 1 => fdt[f] = Closed
  OBVIOUS
<1>2. poll \in Seq(Fd) /\ Len(poll) = 1 /\ poll[1] = 1
  OBVIOUS
<1>3. /\ backlog \in Seq(ConnId) /\ mcin \in Seq(Msg) /\ inq \in Seq(SMsg)
      /\ Len(backlog) = 0
  BY EmptySeq
<1>4. TableOK(contacts)
  BY TableStart
<1>5. job \in [peer : PeerId \cup {0}, fd : Fd \cup {NoFd}, tag : AllTags,
               back : {"app", "recv"}, conn : 0..MaxConns]
  BY NoJobType
<1>6. used \in [msgs : 0..MaxMsgs, errors : 0..MaxErrors, sends : 0..MaxSends]
  BY NodeAssumption DEF Used0
<1>7. TypeOK
  <2>1. contacts \in Table
    BY <1>4, TableOKType
  <2> QED BY <1>1, <1>2, <1>3, <1>5, <1>6, <2>1 DEF TypeOK
<1>8. KernelOK
  BY <1>1, <1>3 DEF KernelOK
<1>9. ThreadsOK
  BY DEF ThreadsOK, NoJob
<1>10. OpenIsPolled
  BY <1>1, <1>2 DEF OpenIsPolled, Polled
<1>11. OutsideOK
  BY DEF OutsideOK
<1> QED BY <1>4, <1>7, <1>8, <1>9, <1>10, <1>11 DEF IInv

(* Every step keeps the invariant.                                         *)
LEMMA NextKeepsIInv ==
  ASSUME IInv, [Next]_vars PROVE IInv'
<1>1. CASE Next
  <2>1. TypeOK'
    BY <1>1, EnvironmentKeepsTypeOK, InThreadKeepsTypeOK, AppThreadKeepsTypeOK DEF Next
  <2>2. KernelOK'
    BY <1>1, EnvironmentKeepsKernelOK, InThreadKeepsKernelOK, AppThreadKeepsKernelOK DEF Next
  <2> QED BY <1>1, <2>1, <2>2, NextKeepsThreadsOK, NextKeepsOutsideOK, NextKeepsPolled
         DEF IInv
<1>2. CASE UNCHANGED vars
  <2> USE <1>2 DEF vars, kernel, inThread, appThread, IInv
  <2>1. TypeOK'
    BY DEF TypeOK
  <2>2. KernelOK'
    BY SameKernel
  <2>3. ThreadsOK' /\ TableOK(contacts')
    BY DEF ThreadsOK
  <2>4. OpenIsPolled'
    BY DEF OpenIsPolled, Polled
  <2>5. OutsideOK'
    BY DEF OutsideOK, Opened
  <2> QED BY <2>1, <2>2, <2>3, <2>4, <2>5
<1> QED BY <1>1, <1>2

(* Hence it holds always.                                                  *)
LEMMA IInvIsInvariant == Spec => []IInv
<1>1. IInv /\ [Next]_vars => IInv'
  BY NextKeepsIInv
<1> QED BY <1>1, InitEstablishesIInv, PTL DEF Spec

(* The variables of the node keep their types.                             *)
THEOREM TypeCorrect == Spec => []TypeOK
<1>1. IInv => TypeOK
  BY DEF IInv
<1> QED BY <1>1, IInvIsInvariant, PTL

(* The contact list stays consistent whatever the two threads do, so no    *)
(* lookup of processSMsg() or peer2Socket() meets a deleted contact.       *)
THEOREM ListStaysConsistent == Spec => []ContactsConsistent
<1>1. IInv => ContactsConsistent
  BY TableOKType DEF IInv, ContactsConsistent
<1> QED BY <1>1, IInvIsInvariant, PTL

(* An open descriptor that is not polled is that of a connection connect() *)
(* still waits for, or of one that connect() gave up or add() refused,     *)
(* whatever breaks and whatever number is reused.                          *)
THEOREM NothingIsForgotten == Spec => []OpenIsPolled
<1>1. IInv => OpenIsPolled
  BY DEF IInv
<1> QED BY <1>1, IInvIsInvariant, PTL

-----------------------------------------------------------------------------
(* The poll list holds nothing but open descriptors, those of connections  *)
(* once, as long as the multicast socket keeps its number.                 *)

(* The poll list as it is until the multicast socket moves: open           *)
(* descriptors, but for the multicast socket's while it is made again, and *)
(* none that is set apart.                                                 *)
Tidy ==
  /\ \A i \in 1..Len(poll) :
       fdt[poll[i]] \notin Apart \/ (inPc = "remake" /\ poll[i] = mcsock)
  /\ \A i, j \in 1..Len(poll) : poll[i] = poll[j] /\ poll[i] # mcsock => i = j
  /\ appPc = "connect" => fdt[job.fd] = job.conn

(* A step that leaves descriptors and poll list alone.                     *)
LEMMA SameTidy ==
  ASSUME IInv, IInv', Tidy, [Next]_vars, ~ Listen, ~ Connect, ~ Watch, ~ Leak,
         UNCHANGED <<fdt, poll, mcsock>>, inPc = "remake" <=> inPc' = "remake"
  PROVE  Tidy'
<1>1. Apart' = Apart
  BY SameApart
<1>2. appPc' = "connect" => appPc = "connect" /\ job' = job
  BY SameOutside
<1> QED BY <1>1, <1>2 DEF Tidy

(* A descriptor that is not in the list goes to its end; what is set apart *)
(* was so before.                                                          *)
LEMMA AddedStaysTidy ==
  ASSUME TypeOK, Tidy, NEW f \in Fd, fdt[f] \in Apart,
         inPc = "remake" => inPc' = "remake" \/ f = mcsock,
         \A g \in Fd \ {f} : fdt'[g] = fdt[g], fdt'[f] \notin Apart',
         Apart' \subseteq Apart, poll' = Append(poll, f), mcsock' = mcsock,
         appPc' = "connect" => appPc = "connect" /\ job' = job /\ job.fd # f /\ job.fd \in Fd
  PROVE  Tidy'
<1>1. /\ Len(poll) \in Nat /\ Len(poll') = Len(poll) + 1
      /\ \A i \in 1..Len(poll) : poll'[i] = poll[i] /\ poll[i] \in Fd
      /\ poll'[Len(poll) + 1] = f
  BY AppendProperties DEF TypeOK
<1>2. \A g \in Fd : g # f => fdt'[g] = fdt[g]
  OBVIOUS
<1>3. ASSUME NEW i \in 1..Len(poll)
      PROVE  fdt'[poll[i]] \notin Apart' \/ (inPc' = "remake" /\ poll[i] = mcsock)
  <2>1. CASE poll[i] = f
    BY <2>1
  <2>2. CASE poll[i] # f
    BY <1>1, <1>2, <2>2 DEF Tidy
  <2> QED BY <2>1, <2>2
<1>4. \A i \in 1..Len(poll') :
        fdt'[poll'[i]] \notin Apart' \/ (inPc' = "remake" /\ poll'[i] = mcsock')
  BY <1>1, <1>3
<1>5. \A i \in 1..Len(poll) : poll[i] = f => f = mcsock
  BY DEF Tidy
<1>6. ASSUME NEW i \in 1..Len(poll'), NEW j \in 1..Len(poll'),
             poll'[i] = poll'[j], poll'[i] # mcsock
      PROVE  i = j
  <2>1. CASE i \in 1..Len(poll) /\ j \in 1..Len(poll)
    BY <1>1, <1>6, <2>1 DEF Tidy
  <2>2. CASE i = Len(poll) + 1 \/ j = Len(poll) + 1
    BY <1>1, <1>5, <1>6, <2>2
  <2> QED BY <1>1, <2>1, <2>2
<1>7. \A i, j \in 1..Len(poll') : poll'[i] = poll'[j] /\ poll'[i] # mcsock' => i = j
  BY <1>6
<1>8. appPc' = "connect" => fdt'[job'.fd] = job'.conn
  BY <1>2 DEF Tidy
<1> HIDE DEF TypeOK
<1> QED BY ONLY <1>4, <1>7, <1>8 DEF Tidy

(* A connection that is waited for has a descriptor of its own.            *)
LEMMA AwaitedIsOpen ==
  ASSUME IInv, Tidy, appPc = "connect"
  PROVE  /\ job.fd \in Fd /\ fdt[job.fd] = job.conn /\ job.conn \in ConnId
         /\ job.conn \notin lost /\ fdt[job.fd] # Closed /\ fdt[job.fd] # Mc
BY Distinct DEF IInv, ThreadsOK, OutsideOK, Opened, Tidy

(* Accepting a connection keeps the list tidy.                             *)
LEMMA ListenKeepsTidy ==
  ASSUME IInv, IInv', Tidy, Listen PROVE Tidy'
<1> USE DEF IInv
<1>0. /\ UNCHANGED <<mcsock, job, appPc>> /\ inPc = "listen" /\ inPc' = "poll"
  BY DEF Listen, appThread
<1>1. CASE backlog = <<>>
  <2>1. UNCHANGED <<fdt, poll, lost>>
    BY <1>1 DEF Listen
  <2> QED BY <1>0, <2>1 DEF Tidy, Apart
<1>2. CASE backlog # <<>>
  <2>1. PICK f \in Fd, c \in ConnId :
           /\ fdt[f] = Closed /\ fdt' = [fdt EXCEPT ![f] = c]
           /\ ~ Opened(c) /\ \A g \in Fd : fdt[g] # c
           /\ \/ poll' = Append(poll, f) /\ lost' = lost
              \/ poll' = poll /\ lost' = lost \cup {c}
    BY <1>2, AcceptShape
  <2>2. \A g \in Fd : fdt'[g] = IF g = f THEN c ELSE fdt[g]
    BY <2>1 DEF TypeOK
  <2>3. c \notin Apart
    <3>1. c # Closed /\ c \notin lost
      BY <2>1, Distinct DEF OutsideOK
    <3>2. CASE appPc = "connect"
      BY <2>1, <3>1, <3>2 DEF OutsideOK, Apart
    <3>3. CASE appPc # "connect"
      BY <3>1, <3>3 DEF ThreadsOK, Apart, Closed
    <3> QED BY <3>2, <3>3
  <2>4. appPc = "connect" => job.fd # f /\ job.fd \in Fd
    BY <2>1, AwaitedIsOpen
  <2>5. CASE poll' = Append(poll, f) /\ lost' = lost
    <3>1. Apart' = Apart
      BY <1>0, <2>5 DEF Apart
    <3>2. fdt[f] \in Apart
      BY <2>1 DEF Apart
    <3> QED BY <1>0, <2>1, <2>2, <2>3, <2>4, <2>5, <3>1, <3>2, AddedStaysTidy
  <2>6. CASE poll' = poll /\ lost' = lost \cup {c}
    <3>1. Apart' = Apart \cup {c}
      BY <1>0, <2>6 DEF Apart
    <3>2. ASSUME NEW i \in 1..Len(poll) PROVE fdt'[poll[i]] \notin Apart'
      <4>1. poll[i] \in Fd /\ fdt[poll[i]] \notin Apart
        BY <1>0, PolledIsFd DEF Tidy
      <4>2. poll[i] # f
        BY <2>1, <4>1 DEF Apart
      <4> QED BY <2>1, <2>2, <3>1, <4>1, <4>2
    <3>3. appPc' = "connect" => fdt'[job'.fd] = job'.conn
      BY <1>0, <2>2, <2>4 DEF Tidy
    <3> QED BY <1>0, <2>6, <3>2, <3>3 DEF Tidy
  <2> QED BY <2>1, <2>5, <2>6
<1> QED BY <1>1, <1>2

(* Closing a descriptor keeps the list tidy.                               *)
LEMMA DropKeepsTidy ==
  ASSUME IInv, IInv', Tidy, NEW i \in 1..Len(poll), Drop(poll[i]) PROVE Tidy'
<1> USE DEF IInv
<1> DEFINE f == poll[i]
           w == Without(poll, f)
<1>1. /\ f \in Fd /\ fdt' = [fdt EXCEPT ![f] = Closed] /\ mcsock' = mcsock
      /\ inPc = "poll" /\ poll \in Seq(Fd) /\ UNCHANGED <<lost, job, appPc>>
  BY DEF Drop, TypeOK, appThread
<1>2. \A g \in Fd : g # f => fdt'[g] = fdt[g]
  BY <1>1 DEF TypeOK
<1>3. Apart' = Apart
  BY <1>1 DEF Apart
<1>4. appPc' = "connect" => fdt'[job'.fd] = job'.conn
  <2> SUFFICES ASSUME appPc = "connect" PROVE fdt'[job.fd] = job.conn
    BY <1>1
  <2>1. fdt[f] \notin Apart
    BY <1>1 DEF Tidy
  <2>2. job.fd \in Fd /\ fdt[job.fd] = job.conn
    BY AwaitedIsOpen
  <2>3. job.fd # f
    BY <2>1, <2>2 DEF Apart
  <2> QED BY <1>2, <2>2, <2>3
<1>5. CASE f = mcsock
  <2>1. poll' = poll /\ inPc' = "remake"
    BY <1>5 DEF Drop
  <2>2. \A j \in 1..Len(poll) : poll[j] \in Fd
    BY <1>1
  <2> QED BY <1>1, <1>2, <1>3, <1>4, <1>5, <2>1, <2>2 DEF Tidy
<1>6. CASE f # mcsock
  <2>1. poll' = w
    BY <1>6 DEF Drop
  <2>2. \A m, n \in 1..Len(poll) : poll[m] = poll[i] /\ poll[n] = poll[i] => m = n
    BY <1>6 DEF Tidy
  <2>3. /\ \A j \in 1..Len(w) : \E m \in 1..Len(poll) : w[j] = poll[m]
        /\ \A j, k \in 1..Len(w) : j # k /\ w[j] = w[k] =>
             \E m, n \in 1..Len(poll) : m # n /\ poll[m] = w[j] /\ poll[n] = poll[m]
        /\ \A j \in 1..Len(w) : w[j] # f
    BY <1>1, <2>2, WithoutKeeps, ZenonT(40)
  <2> HIDE DEF w, f
  <2>4. ASSUME NEW j \in 1..Len(w) PROVE fdt'[w[j]] \notin Apart'
    <3>1. PICK m \in 1..Len(poll) : w[j] = poll[m]
      BY <2>3
    <3>2. w[j] # f /\ fdt[w[j]] \notin Apart /\ w[j] \in Fd
      BY <1>1, <2>3, <3>1 DEF Tidy
    <3> QED BY <1>2, <1>3, <3>2
  <2>5. \A j, k \in 1..Len(w) : w[j] = w[k] /\ w[j] # mcsock => j = k
    BY <2>3 DEF Tidy
  <2>6. \A j \in 1..Len(poll') : fdt'[poll'[j]] \notin Apart'
    BY <2>1, <2>4
  <2>7. \A j, k \in 1..Len(poll') : poll'[j] = poll'[k] /\ poll'[j] # mcsock' => j = k
    BY <1>1, <2>1, <2>5
  <2> QED BY ONLY <1>4, <2>6, <2>7 DEF Tidy
<1> QED BY <1>5, <1>6

(* Opening a connection keeps the list tidy: it is not added yet.          *)
LEMMA ConnectKeepsTidy ==
  ASSUME IInv, Tidy, Connect PROVE Tidy'
<1> USE DEF IInv
<1>0. UNCHANGED <<mcsock, inPc, poll, lost>> /\ job.conn = 0 /\ appPc = "resolve"
  BY ConnectShape DEF ThreadsOK, inThread
<1>1. CASE job' = NoJob /\ appPc' = job.back /\ fdt' = fdt
  <2>1. appPc' # "connect" /\ job'.conn = 0
    BY <1>1 DEF TypeOK, NoJob
  <2>2. Apart' = Apart
    BY <1>0, <2>1 DEF Apart
  <2> QED BY <1>0, <1>1, <2>1, <2>2 DEF Tidy
<1>2. ASSUME NEW f \in Fd, NEW c \in ConnId, fdt[f] = Closed, conns[c] = Null,
             fdt' = [fdt EXCEPT ![f] = c], job' = [job EXCEPT !.fd = f, !.conn = c]
      PROVE  Tidy'
  <2>1. \A g \in Fd : fdt'[g] = IF g = f THEN c ELSE fdt[g]
    BY <1>2 DEF TypeOK
  <2>2. job'.conn = c /\ job'.fd = f
    BY <1>2 DEF TypeOK
  <2>3. Apart' = Apart \cup {c}
    BY <1>0, <2>2 DEF Apart, Closed
  <2>4. \A g \in Fd : fdt[g] # c
    BY <1>2 DEF KernelOK, InUse
  <2>5. ASSUME NEW i \in 1..Len(poll)
        PROVE  fdt'[poll[i]] \notin Apart' \/ (inPc = "remake" /\ poll[i] = mcsock)
    <3>1. poll[i] \in Fd
      BY PolledIsFd
    <3>2. CASE poll[i] = f
      BY <1>2, <3>2 DEF Tidy, Apart
    <3>3. CASE poll[i] # f
      BY <2>1, <2>3, <2>4, <3>1, <3>3 DEF Tidy
    <3> QED BY <3>2, <3>3
  <2> QED BY <1>0, <2>1, <2>2, <2>5 DEF Tidy
<1> QED BY <1>1, <1>2, ConnectShape

(* Adding it then keeps the list tidy.                                     *)
LEMMA WatchKeepsTidy ==
  ASSUME IInv, Tidy, Watch PROVE Tidy'
<1> USE DEF IInv
<1>1. /\ job.fd \in Fd /\ fdt[job.fd] = job.conn /\ job.conn \in ConnId
      /\ job.conn \notin lost
  BY AwaitedIsOpen DEF Watch
<1>2. UNCHANGED <<fdt, mcsock, inPc, lost>> /\ poll' = Append(poll, job.fd)
      /\ appPc' = "write"
  BY DEF Watch, kernel, inThread
<1>3. job'.conn = 0
  BY WatchShape DEF TypeOK
<1>4. Apart' = lost \cup {Closed} /\ fdt[job.fd] \in Apart
  BY <1>1, <1>2, <1>3 DEF Apart, Closed
<1>5. fdt'[job.fd] \notin Apart' /\ Apart' \subseteq Apart
  BY <1>1, <1>2, <1>4, Distinct DEF Apart
<1>6. /\ inPc = "remake" => inPc' = "remake" \/ job.fd = mcsock
      /\ \A g \in Fd \ {job.fd} : fdt'[g] = fdt[g]
      /\ mcsock' = mcsock /\ appPc' # "connect"
  BY <1>2
<1> DEFINE f == job.fd
<1>7. /\ f \in Fd /\ fdt[f] \in Apart /\ fdt'[f] \notin Apart' /\ Apart' \subseteq Apart
      /\ poll' = Append(poll, f) /\ mcsock' = mcsock /\ appPc' # "connect"
      /\ inPc = "remake" => inPc' = "remake" \/ f = mcsock
      /\ \A g \in Fd \ {f} : fdt'[g] = fdt[g]
  BY <1>1, <1>2, <1>4, <1>5, <1>6
<1> HIDE DEF f
<1> QED BY <1>7, AddedStaysTidy

(* Every step keeps the poll list tidy, if a remade multicast socket gets  *)
(* its number back.                                                        *)
LEMMA NextKeepsTidy ==
  ASSUME IInv, IInv', Tidy, [Next]_vars, Remake => NewFd = mcsock
  PROVE  Tidy'
<1> USE DEF IInv
<1>0. ASSUME ~ Listen, ~ Connect, ~ Watch, ~ Leak,
             UNCHANGED <<fdt, poll, mcsock>>, inPc = "remake" <=> inPc' = "remake"
      PROVE  Tidy'
  BY <1>0, SameTidy
<1>1. CASE UNCHANGED vars
  <2>1. UNCHANGED <<fdt, poll, mcsock, inPc, lost, job, appPc>>
    BY <1>1 DEF vars, kernel, inThread, appThread
  <2> QED BY <2>1 DEF Tidy, Apart
<1>2. CASE Environment
  <2>1. UNCHANGED <<fdt, poll, mcsock, inPc, lost, job, appPc>>
    BY <1>2 DEF Environment, McArrive, McBreak, RemoteConnect, RemoteSend, RemoteClose,
       RemoteReset, inThread, appThread
  <2> QED BY <2>1 DEF Tidy, Apart
<1>3. CASE Listen
  BY <1>3, ListenKeepsTidy
<1>4. ASSUME Idle \/ Push \/ \E i \in 1..Len(poll) : Read(poll[i]) PROVE Tidy'
  <2>1. /\ UNCHANGED <<fdt, poll, mcsock, lost, job, appPc>>
        /\ inPc # "remake" /\ inPc' # "remake"
    BY <1>4 DEF Idle, Push, Read, kernel, appThread
  <2> QED BY <2>1 DEF Tidy, Apart
<1>6. ASSUME NEW i \in 1..Len(poll), Drop(poll[i]) PROVE Tidy'
  BY <1>6, DropKeepsTidy
<1>7. CASE Remake
  <2>1. NewFd \in Fd /\ fdt[NewFd] = Closed /\ NewFd = mcsock
    BY <1>7, NewFdIsFree DEF Remake
  <2>2. /\ fdt' = [fdt EXCEPT ![NewFd] = Mc] /\ poll' = Append(poll, NewFd)
        /\ mcsock' = mcsock /\ UNCHANGED <<lost, job, appPc>>
    BY <1>7, <2>1 DEF Remake, appThread
  <2>3. Apart' = Apart /\ Closed \in Apart /\ Mc \notin Apart
    <3>1. job.conn \in 0..MaxConns /\ lost \subseteq ConnId
      BY DEF TypeOK
    <3> QED BY <2>2, <3>1, Distinct DEF Apart, Mc, Closed
  <2>4. appPc = "connect" => job.fd # NewFd /\ job.fd \in Fd
    BY <2>1, AwaitedIsOpen
  <2>5. fdt'[NewFd] = Mc /\ \A g \in Fd \ {NewFd} : fdt'[g] = fdt[g]
    BY <2>1, <2>2 DEF TypeOK
  <2> QED BY <2>1, <2>2, <2>3, <2>4, <2>5, AddedStaysTidy
<1>8. CASE Connect
  BY <1>8, ConnectKeepsTidy
<1>9. CASE Watch
  BY <1>9, WatchKeepsTidy
<1>10. CASE Leak
  <2>1. UNCHANGED <<fdt, poll, mcsock, inPc>> /\ lost' = lost \cup {job.conn}
        /\ job'.conn = 0 /\ appPc' # "connect"
    BY <1>10 DEF Leak, kernel, NoJob, TypeOK
  <2>2. Apart' \subseteq Apart
    BY <2>1 DEF Apart, Closed
  <2> QED BY <2>1, <2>2 DEF Tidy
<1>11. CASE AppThread /\ ~ Connect /\ ~ Watch /\ ~ Leak
  <2>1. UNCHANGED <<fdt, poll, mcsock, inPc>> /\ ~ Listen
    BY <1>11 DEF AppThread, Pop, ProcessError, ProcessSelf, ProcessData, UserSend,
       Resolve, Write, kernel, inThread, Listen
  <2> QED BY <1>0, <1>11, <2>1
<1> QED BY <1>1, <1>2, <1>3, <1>4, <1>6, <1>7, <1>8, <1>9, <1>10, <1>11
        DEF Next, InThread, Poll, AppThread

(* A tidy poll list has the open descriptors that are not set apart, those *)
(* of connections once.                                                    *)
LEMMA TidyIsWatched ==
  ASSUME IInv, ~ moved => Tidy PROVE WatchedExactly
<1> SUFFICES ASSUME inPc # "remake", ~ moved, NEW f \in Fd
             PROVE  /\ Occurs(f) > 0
                         <=> (fdt[f] # Closed /\ fdt[f] # job.conn /\ fdt[f] \notin lost)
                    /\ f # mcsock => Occurs(f) <= 1
  BY DEF WatchedExactly
<1> DEFINE S == {i \in 1..Len(poll) : poll[i] = f}
<1>1. Len(poll) \in Nat
  BY DEF IInv, TypeOK
<1>2. IsFiniteSet(S) /\ Cardinality(S) \in Nat /\ (Cardinality(S) = 0 <=> S = {})
  <2>1. IsFiniteSet(1..Len(poll))
    BY <1>1, FS_Interval
  <2>2. IsFiniteSet(S)
    BY <2>1, FS_Subset
  <2> QED BY <2>2, FS_CardinalityType, FS_EmptySet
<1>3. (fdt[f] # Closed /\ fdt[f] # job.conn /\ fdt[f] \notin lost) <=> S # {}
  BY DEF IInv, OpenIsPolled, Polled, Tidy, Apart
<1>4. ASSUME f # mcsock PROVE Cardinality(S) <= 1
  <2>1. CASE S = {}
    BY <1>2, <2>1
  <2>2. CASE S # {}
    <3>1. PICK i \in S : TRUE
      BY <2>2
    <3>2. S = {i}
      BY <1>4, <3>1 DEF Tidy
    <3>3. Cardinality({i}) = 1
      BY FS_Singleton
    <3>4. Cardinality(S) = 1
      BY <3>2, <3>3
    <3> HIDE DEF S
    <3> QED BY <3>4
  <2> QED BY <2>1, <2>2
<1> QED BY <1>2, <1>3, <1>4 DEF Occurs

(* At the start only the multicast socket is open to be polled, and it is. *)
LEMMA InitIsTidy == Init => Tidy
BY Distinct DEF Init, Tidy, Apart, NoJob, Closed, Mc

(* A step either keeps the list tidy or moves the multicast socket.        *)
LEMMA NextKeepsTidyUnlessMoved ==
  ASSUME IInv, IInv', ~ moved => Tidy, [Next]_vars PROVE ~ moved' => Tidy'
<1> SUFFICES ASSUME ~ moved' PROVE Tidy'
  OBVIOUS
<1>1. CASE Remake
  BY <1>1, NextKeepsTidy, Zenon DEF Remake
<1>2. CASE ~ Remake
  <2>1. moved' = moved
    BY <1>2, Zenon DEF Next, Environment, McArrive, McBreak, RemoteConnect, RemoteSend,
       RemoteClose, RemoteReset, InThread, Listen, Idle, Poll, Read, Drop, Push,
       AppThread, Pop, ProcessError, ProcessSelf, ProcessData, UserSend, Resolve,
       Connect, Watch, Leak, Write, vars, inThread
  <2> QED BY <1>2, <2>1, NextKeepsTidy
<1> QED BY <1>1, <1>2

(* So the list is tidy until the multicast socket moves.                   *)
LEMMA TidyUnlessMoved == Spec => [](IInv /\ (~ moved => Tidy))
<1>1. IInv /\ IInv' /\ (~ moved => Tidy) /\ [Next]_vars => (~ moved' => Tidy')
  BY NextKeepsTidyUnlessMoved
<1>2. Init => (~ moved => Tidy)
  BY InitIsTidy
<1> QED BY <1>1, <1>2, IInvIsInvariant, PTL DEF Spec

(* As long as the multicast socket keeps its number and is not being made  *)
(* again, what is polled is open, and what is open is polled but for the   *)
(* connection connect() waits for and those that connect() gave up or      *)
(* add() refused; a connection is polled once, so none is closed twice,    *)
(* whatever number connect() takes while the socket is made again.         *)
THEOREM WatchedExactlyUnlessMoved == Spec => []WatchedExactly
<1>1. IInv /\ (~ moved => Tidy) => WatchedExactly
  BY TidyIsWatched
<1> QED BY <1>1, TidyUnlessMoved, PTL

(* An SBus that never opens a connection itself: nothing its application   *)
(* does makes it answer or send.                                           *)
NeverConnects == [][~ Connect]_vars

(* Then nobody takes the number of the multicast socket, the lowest one,   *)
(* and no connection is ever waited for.                                   *)
McIsFirst ==
  /\ mcsock = 1
  /\ inPc = "remake" => fdt[1] = Closed
  /\ appPc # "connect"

(* Without connect() nobody takes the multicast socket's number.           *)
LEMMA NextKeepsMcIsFirst ==
  ASSUME IInv, McIsFirst, [Next]_vars, [~ Connect]_vars PROVE McIsFirst'
<1> USE DEF IInv
<1>1. CASE /\ UNCHANGED <<fdt, mcsock>>
           /\ inPc' = "remake" => inPc = "remake"
           /\ appPc' # "connect"
  BY <1>1 DEF McIsFirst
<1>2. CASE Listen
  BY <1>2 DEF Listen, McIsFirst, appThread
<1>3. ASSUME NEW i \in 1..Len(poll), Drop(poll[i]) PROVE McIsFirst'
  <2>1. poll[i] \in Fd
    BY PolledIsFd
  <2> QED BY <1>3, <2>1 DEF Drop, McIsFirst, TypeOK, appThread
<1>4. CASE Remake
  <2>1. NewFd \in Fd /\ NewFd <= 1
    BY <1>4, NewFdIsFree, Distinct DEF Remake, McIsFirst
  <2>2. NewFd = 1
    BY <2>1 DEF Fd
  <2> QED BY <1>4, <2>2 DEF Remake, McIsFirst, appThread
<1>5. CASE Environment
  BY <1>1, <1>5 DEF Environment, McArrive, McBreak, RemoteConnect, RemoteSend, RemoteClose,
     RemoteReset, inThread, appThread, McIsFirst
<1>6. CASE Idle \/ Push \/ \E i \in 1..Len(poll) : Read(poll[i])
  BY <1>1, <1>6 DEF Idle, Push, Read, kernel, appThread, McIsFirst
<1>7. CASE AppThread /\ ~ Connect
  <2>1. UNCHANGED <<fdt, mcsock, inPc>>
    BY <1>7 DEF AppThread, Pop, ProcessError, ProcessSelf, ProcessData, UserSend,
       Resolve, Watch, Leak, Write, kernel, inThread
  <2>2. appPc' # "connect"
    BY <1>7, ZenonT(30) DEF AppThread, Pop, ProcessError, ProcessSelf, ProcessData, UserSend,
       Resolve, Watch, Leak, Write, McIsFirst, TypeOK
  <2> QED BY <1>1, <2>1, <2>2
<1>8. CASE UNCHANGED vars
  BY <1>1, <1>8 DEF vars, kernel, inThread, appThread, McIsFirst
<1> QED BY <1>2, <1>3, <1>4, <1>5, <1>6, <1>7, <1>8 DEF Next, InThread, Poll, AppThread

(* Then its number is the lowest free one when it is made again.           *)
LEMMA McIsRemadeInPlace ==
  ASSUME IInv, McIsFirst, Remake PROVE NewFd = mcsock
<1>1. NewFd \in Fd /\ NewFd <= 1
  BY NewFdIsFree, Distinct DEF Remake, McIsFirst, IInv
<1> QED BY <1>1 DEF Fd, McIsFirst

(* So the list is always tidy if the application never connects.           *)
LEMMA TidyIfNeverConnects == Spec /\ NeverConnects => [](IInv /\ McIsFirst /\ Tidy)
<1>1. Init => McIsFirst /\ Tidy
  BY InitIsTidy DEF Init, McIsFirst
<1>2. IInv /\ IInv' /\ McIsFirst /\ Tidy /\ [Next]_vars /\ [~ Connect]_vars
        => McIsFirst' /\ Tidy'
  BY NextKeepsTidy, NextKeepsMcIsFirst, McIsRemadeInPlace
<1> QED BY <1>1, <1>2, IInvIsInvariant, PTL DEF Spec, NeverConnects

-----------------------------------------------------------------------------
(* The queue between the threads implements the mailbox.                   *)

(* What the receiving thread holds is queued as soon as it gets on.        *)
Posted == inq \o Held

(* A queue as the mailbox sees it.                                         *)
Packs(q) == [i \in 1..Len(q) |-> Packed(q[i])]

(* The connections whose end was posted.                                   *)
Ended == {c \in ConnId \ NewConns : conns[c].state = "gone"}

(* Packing goes message by message.                                        *)
LEMMA PackAppend ==
  ASSUME NEW q \in Seq(SMsg), NEW x \in SMsg
  PROVE  Packs(Append(q, x)) = Append(Packs(q), Packed(x))
<1>1. /\ Len(q) \in Nat /\ Len(Append(q, x)) = Len(q) + 1
      /\ \A i \in 1..Len(q) : Append(q, x)[i] = q[i]
      /\ Append(q, x)[Len(q) + 1] = x
  BY AppendProperties, LenProperties
<1>2. Packs(Append(q, x))
        = [i \in 1..(Len(q) + 1) |-> IF i = Len(q) + 1 THEN Packed(x) ELSE Packed(q[i])]
  BY <1>1 DEF Packs
<1>3. Append(Packs(q), Packed(x))
        = [i \in 1..(Len(q) + 1) |-> IF i = Len(q) + 1 THEN Packed(x) ELSE Packed(q[i])]
  BY <1>1 DEF Packs
<1> QED BY <1>2, <1>3

(* Packing commutes with taking the first message.                         *)
LEMMA PackTail ==
  ASSUME NEW q \in Seq(SMsg), q # <<>>
  PROVE  Packs(q) # <<>> /\ Packs(Tail(q)) = Tail(Packs(q))
<1>1. /\ Len(q) \in Nat \ {0} /\ Tail(q) \in Seq(SMsg) /\ Len(Tail(q)) = Len(q) - 1
      /\ \A i \in 1..Len(Tail(q)) : Tail(q)[i] = q[i+1]
  BY HeadTailProperties, EmptySeq
<1>2. Packs(q) # <<>>
  <2>1. Len(Packs(q)) = Len(q)
    BY <1>1 DEF Packs
  <2> QED BY <1>1, <2>1, EmptySeq
<1>3. Packs(Tail(q)) = [i \in 1..(Len(q) - 1) |-> Packed(q[i+1])]
  BY <1>1 DEF Packs
<1>4. Tail(Packs(q)) = [i \in 1..(Len(q) - 1) |-> Packed(q[i+1])]
  BY <1>1 DEF Packs
<1> QED BY <1>2, <1>3, <1>4

(* The box of the mailbox is what is queued or held by the receiving       *)
(* thread.                                                                 *)
LEMMA BoxIsPosted == Box = Packs(Posted) /\ Box' = Packs(Posted')
BY DEF Box, Packs, Posted

(* The queue with what is held changes only when something is read or      *)
(* taken from it.                                                          *)
LEMMA PostedShape ==
  ASSUME IInv, IInv', [Next]_vars
  PROVE  /\ Posted \in Seq(SMsg) /\ Posted' \in Seq(SMsg)
         /\ Posted # <<>> /\ Posted' = Tail(Posted) => Box # <<>> /\ Box' = Tail(Box)
         /\ Posted' = Posted => Box' = Box
<1>1. Posted \in Seq(SMsg) /\ Posted' \in Seq(SMsg)
  BY ConcatProperties, EmptySeq DEF Posted, Held, IInv, TypeOK, ThreadsOK
<1> QED BY <1>1, BoxIsPosted, PackTail

(* Reading or dropping appends to it.                                      *)
LEMMA PostedAppends ==
  ASSUME IInv, inPc = "poll", inPc' \in {"push", "remake"}, inq' = inq, inMsg' \in SMsg
  PROVE  Posted' = Append(Posted, inMsg') /\ Box' = Append(Box, Packed(inMsg'))
<1>1. inq \in Seq(SMsg)
  BY DEF IInv, TypeOK
<1>2. Posted = inq
  BY <1>1, ConcatEmptySeq DEF Posted, Held
<1>3. Posted' = Append(inq, inMsg')
  BY <1>1, AppendIsConcat DEF Posted, Held
<1> QED BY <1>1, <1>2, <1>3, BoxIsPosted, PackAppend

(* Queueing what is held does not change it.                               *)
LEMMA PostedPushed ==
  ASSUME IInv, Push PROVE Posted' = Posted
<1>1. inq \in Seq(SMsg) /\ inMsg \in SMsg
  BY DEF IInv, TypeOK, ThreadsOK, Push
<1>2. Posted = Append(inq, inMsg)
  BY <1>1, AppendIsConcat DEF Posted, Held, Push
<1>3. Append(inq, inMsg) \in Seq(SMsg)
  BY <1>1, AppendProperties
<1>4. Posted' = Append(inq, inMsg)
  BY <1>3, ConcatEmptySeq DEF Posted, Held, Push
<1> QED BY <1>2, <1>4

(* The application takes its first message.                                *)
LEMMA PostedPopped ==
  ASSUME IInv, Pop PROVE Posted # <<>> /\ Posted' = Tail(Posted) /\ Head(Posted) = Head(inq)
<1> DEFINE held == IF inPc \in {"push", "remake"} THEN <<inMsg>> ELSE <<>>
<1>1. inq \in Seq(SMsg) /\ inq # <<>> /\ held \in Seq(SMsg)
  BY EmptySeq DEF IInv, TypeOK, ThreadsOK, Pop
<1>2. Posted = inq \o held /\ Posted' = Tail(inq) \o held
  BY DEF Posted, Held, Pop, inThread
<1> HIDE DEF held
<1>3. /\ Len(inq) \in Nat \ {0} /\ Len(held) \in Nat
      /\ Tail(inq) \in Seq(SMsg) /\ Len(Tail(inq)) = Len(inq) - 1
      /\ \A i \in 1..Len(Tail(inq)) : Tail(inq)[i] = inq[i+1]
  BY <1>1, HeadTailProperties, EmptySeq
<1>4. /\ inq \o held \in Seq(SMsg) /\ Len(inq \o held) = Len(inq) + Len(held)
      /\ \A i \in 1..(Len(inq) + Len(held)) :
           (inq \o held)[i] = IF i <= Len(inq) THEN inq[i] ELSE held[i - Len(inq)]
  BY <1>1, ConcatProperties
<1>5. /\ Tail(inq) \o held \in Seq(SMsg)
      /\ Len(Tail(inq) \o held) = Len(inq) - 1 + Len(held)
      /\ \A i \in 1..(Len(inq) - 1 + Len(held)) :
           (Tail(inq) \o held)[i] = IF i <= Len(inq) - 1 THEN Tail(inq)[i]
                                    ELSE held[i - (Len(inq) - 1)]
  BY <1>1, <1>3, ConcatProperties
<1>6. inq \o held # <<>>
  BY <1>3, <1>4, EmptySeq
<1>7. /\ Tail(inq \o held) \in Seq(SMsg)
      /\ Len(Tail(inq \o held)) = Len(inq) + Len(held) - 1
      /\ \A i \in 1..(Len(inq) + Len(held) - 1) : Tail(inq \o held)[i] = (inq \o held)[i+1]
  BY <1>4, <1>6, HeadTailProperties
<1>8. Tail(inq) \o held = Tail(inq \o held)
  <2>1. \A i \in 1..(Len(inq) - 1 + Len(held)) :
          (Tail(inq) \o held)[i] = Tail(inq \o held)[i]
    BY <1>3, <1>4, <1>5, <1>7
  <2> QED BY <1>3, <1>5, <1>7, <2>1, SeqEqual
<1>9. Head(inq \o held) = Head(inq)
  BY <1>1, <1>3, <1>4
<1> QED BY <1>2, <1>6, <1>8, <1>9

(* What arrived on a connection and was not read, and whether its end was. *)
Data(c) == IF conns[c] = Null THEN <<>> ELSE conns[c].data
(* The same for one connection.                                            *)
Gone(c) == conns[c] # Null /\ conns[c].state = "gone"

(* The sources of the mailbox: the connections and the multicast socket.   *)
LEMMA SourceShape ==
  /\ McSource \in Source /\ McSource \notin ConnId /\ Source = ConnId \cup {McSource}
  /\ \A c \in ConnId : c \in Source /\ c # McSource
BY Distinct DEF Source

(* The channels of the mailbox, before and after a step.                   *)
LEMMA ChanShape ==
  /\ Chan = [s \in Source |-> IF s = McSource THEN mcin ELSE Data(s)]
  /\ Chan' = [s \in Source |-> IF s = McSource THEN mcin' ELSE Data(s)']
  /\ Ended = {c \in ConnId : Gone(c)} /\ Ended' = {c \in ConnId : Gone(c)'}
BY SourceShape DEF Chan, NewConns, Data, Ended, Gone

(* A step on the multicast socket changes its channel only.                *)
LEMMA MulticastSource ==
  ASSUME NEW v, mcin' = v, conns' = conns
  PROVE  Chan' = [Chan EXCEPT ![McSource] = v] /\ Ended' = Ended
BY ChanShape, SourceShape DEF Data, Gone

(* A step on one connection changes its channel only, and whether it has   *)
(* ended.                                                                  *)
LEMMA ConnectionSource ==
  ASSUME TypeOK, NEW c \in ConnId, NEW k \in Conn, conns' = [conns EXCEPT ![c] = k],
         mcin' = mcin
  PROVE  /\ Chan' = [Chan EXCEPT ![c] = k.data]
         /\ Ended' = (Ended \ {c}) \cup (IF k.state = "gone" THEN {c} ELSE {})
<1>1. \A d \in ConnId : conns'[d] = IF d = c THEN k ELSE conns[d]
  BY DEF TypeOK
<1>2. k # Null
  BY Distinct
<1>3. \A d \in ConnId : Data(d)' = IF d = c THEN k.data ELSE Data(d)
  BY <1>1, <1>2 DEF Data
<1>4. \A d \in ConnId : Gone(d)' <=> IF d = c THEN k.state = "gone" ELSE Gone(d)
  BY <1>1, <1>2 DEF Gone
<1>5. Chan' = [Chan EXCEPT ![c] = k.data]
  BY <1>3, ChanShape, SourceShape
<1>6. Ended' = (Ended \ {c}) \cup (IF k.state = "gone" THEN {c} ELSE {})
  BY <1>4, ChanShape
<1> QED BY <1>5, <1>6

(* A step that neither moves data nor ends a connection changes no         *)
(* channel.                                                                *)
LEMMA SameSource ==
  ASSUME TypeOK, mcin' = mcin,
         \/ conns' = conns
         \/ \E c \in ConnId, k \in Conn :
              /\ conns' = [conns EXCEPT ![c] = k] /\ k.data = Data(c)
              /\ k.state # "gone" /\ ~ Gone(c)
  PROVE  Chan' = Chan /\ Ended' = Ended
<1>1. CASE conns' = conns
  BY <1>1, ChanShape DEF Data, Gone
<1>2. ASSUME NEW c \in ConnId, NEW k \in Conn, conns' = [conns EXCEPT ![c] = k],
             k.data = Data(c), k.state # "gone", ~ Gone(c)
      PROVE  Chan' = Chan /\ Ended' = Ended
  <2>1. Chan' = [Chan EXCEPT ![c] = k.data] /\ Ended' = Ended \ {c}
    BY <1>2, ConnectionSource
  <2>2. Chan[c] = k.data /\ c \notin Ended
    BY <1>2, ChanShape, SourceShape
  <2>3. Chan \in [Source -> {Chan[s] : s \in Source}] /\ c \in Source
    BY ChanShape, SourceShape
  <2> QED BY <2>1, <2>2, <2>3
<1> QED BY <1>1, <1>2

(* One step of the mailbox each.                                           *)
LEMMA MailArrive ==
  ASSUME NEW s \in Source, NEW m \in Msg, s \notin Ended,
         Chan' = [Chan EXCEPT ![s] = Append(Chan[s], m)], Ended' = Ended, Box' = Box
  PROVE  M!Next
<1>1. Chan \in [Source -> {Chan[r] : r \in Source}]
  BY ChanShape
<1>2. M!Arrive(s, m)
  BY <1>1 DEF M!Arrive, Ended
<1> QED BY <1>2 DEF M!Next

(* Steps of the mailbox: what was not read is lost.                        *)
LEMMA MailLose ==
  ASSUME NEW s \in Source, Chan' = [Chan EXCEPT ![s] = <<>>], Ended' = Ended, Box' = Box
  PROVE  M!Next
<1>1. M!Lose(s)
  BY DEF M!Lose, Ended
<1> QED BY <1>1 DEF M!Next

(* Steps of the mailbox: a message is posted.                              *)
LEMMA MailPost ==
  ASSUME NEW s \in Source, Chan[s] # <<>>, Chan' = [Chan EXCEPT ![s] = Tail(Chan[s])],
         Ended' = Ended, Box' = Append(Box, [src |-> s, what |-> Head(Chan[s])])
  PROVE  M!Next
<1>1. Chan \in [Source -> {Chan[r] : r \in Source}]
  BY ChanShape
<1>2. M!Post(s)
  BY <1>1 DEF M!Post, Ended
<1> QED BY <1>2 DEF M!Next

(* Steps of the mailbox: the notice of a source that ended.                *)
LEMMA MailEnd ==
  ASSUME NEW s \in Source, s \notin Ended, Chan[s] = <<>> \/ s = McSource,
         Chan' = [Chan EXCEPT ![s] = <<>>], Ended' = Ended \cup ({s} \ {McSource}),
         Box' = Append(Box, [src |-> s, what |-> Null])
  PROVE  M!Next
<1>1. M!End(s)
  BY DEF M!End, Ended
<1> QED BY <1>1 DEF M!Next

(* Steps of the mailbox: a notice for the multicast socket, which goes on. *)
LEMMA MailFalseAlarm ==
  ASSUME Box' = Append(Box, [src |-> McSource, what |-> Null]), Chan' = Chan, Ended' = Ended
  PROVE  M!Next
BY DEF M!Next, M!FalseAlarm, Ended

(* Steps of the mailbox: a message is taken.                               *)
LEMMA MailTake ==
  ASSUME Box # <<>>, Box' = Tail(Box), Chan' = Chan, Ended' = Ended PROVE M!Next
<1>1. M!Take
  BY DEF M!Take, Ended
<1> QED BY <1>1 DEF M!Next

(* The mailbox starts empty.                                               *)
LEMMA MailInit == Init => M!Init
<1> SUFFICES ASSUME Init PROVE M!Init
  OBVIOUS
<1>1. Chan = [s \in Source |-> <<>>]
  <2>1. \A c \in ConnId : Data(c) = <<>>
    BY DEF Init, Data
  <2>2. mcin = <<>>
    BY DEF Init
  <2> QED BY <2>1, <2>2, ChanShape, SourceShape
<1>2. Ended = {}
  BY ChanShape DEF Init, Gone
<1>3. Box = <<>>
  <2>1. Posted = <<>>
    BY EmptySeq, ConcatEmptySeq DEF Init, Posted, Held
  <2>2. Packs(<<>>) = <<>>
    BY DEF Packs
  <2> QED BY <2>1, <2>2, BoxIsPosted
<1> QED BY <1>1, <1>2, <1>3 DEF M!Init, Ended

(* What the network does is an arrival, a loss or nothing to the mailbox.  *)
LEMMA EnvironmentIsMailStep ==
  ASSUME IInv, Environment PROVE [M!Next]_(M!mailVars)
<1> USE DEF IInv
<1>0. Box' = Box
  <2>1. UNCHANGED <<inPc, inMsg, inq>>
    BY DEF Environment, McArrive, McBreak, RemoteConnect, RemoteSend, RemoteClose,
       RemoteReset, inThread
  <2> QED BY <2>1, BoxIsPosted DEF Posted, Held
<1>1. ASSUME Chan' = Chan, Ended' = Ended PROVE [M!Next]_(M!mailVars)
  BY <1>0, <1>1 DEF M!mailVars, Ended
<1>2. ASSUME NEW h \in Heard, NEW t \in Tag, NEW n \in Texts(t),
             McArrive(h, t, n)
      PROVE  M!Next
  <2> DEFINE m == [tag |-> t, addr |-> [host |-> h, port |-> "server"], name |-> n]
  <2>1. m \in Msg
    BY MessageType
  <2>2. mcin' = Append(mcin, m) /\ conns' = conns
    BY <1>2 DEF McArrive
  <2> HIDE DEF m
  <2>3. Chan' = [Chan EXCEPT ![McSource] = Append(Chan[McSource], m)] /\ Ended' = Ended
    BY <2>2, MulticastSource, ChanShape, SourceShape
  <2>4. McSource \notin Ended
    BY ChanShape, SourceShape
  <2> QED BY <1>0, <2>1, <2>3, <2>4, SourceShape, MailArrive
<1>3. CASE McBreak
  BY <1>1, <1>3, SameSource DEF McBreak
<1>4. ASSUME NEW r \in Remote, RemoteConnect(r) PROVE [M!Next]_(M!mailVars)
  <2> DEFINE k == [host |-> r, port |-> "client", state |-> "open", data |-> <<>>]
  <2>1. NewConn \in ConnId /\ conns[NewConn] = Null
    BY <1>4, NewConnIsNew DEF RemoteConnect
  <2>2. k \in Conn /\ k.data = <<>> /\ k.state # "gone"
    BY EmptySeq DEF Conn
  <2>3. conns' = [conns EXCEPT ![NewConn] = k] /\ mcin' = mcin
    BY <1>4 DEF RemoteConnect
  <2> HIDE DEF k
  <2>4. Data(NewConn) = <<>> /\ ~ Gone(NewConn)
    BY <2>1 DEF Data, Gone
  <2> QED BY <1>1, <2>1, <2>2, <2>3, <2>4, SameSource
<1>5. ASSUME NEW c \in ConnId, NEW t \in Tag, NEW n \in Texts(t), RemoteSend(c, t, n)
      PROVE  M!Next
  <2> DEFINE m == [tag |-> t, addr |-> [host |-> conns[c].host, port |-> conns[c].port],
                   name |-> n]
             k == [conns[c] EXCEPT !.data = Append(conns[c].data, m)]
  <2>1. conns[c] \in Conn /\ conns[c] # Null /\ conns[c].state = "open"
    BY <1>5 DEF RemoteSend, Established, NewConns, TypeOK
  <2>2. m \in Msg
    BY <2>1, FrameType
  <2>3. conns' = [conns EXCEPT ![c] = k] /\ mcin' = mcin
    BY <1>5, <2>1 DEF RemoteSend
  <2> HIDE DEF m
  <2>4. Append(conns[c].data, m) \in Seq(Msg)
    BY <2>1, <2>2, AppendProperties DEF Conn
  <2>5. k \in Conn /\ k.data = Append(conns[c].data, m) /\ k.state = "open"
    BY <2>1, <2>4 DEF Conn
  <2> HIDE DEF k
  <2>6. Chan[c] = conns[c].data /\ c \notin Ended /\ c \in Source
    BY <2>1, ChanShape, SourceShape DEF Data, Gone
  <2>7. Chan' = [Chan EXCEPT ![c] = k.data] /\ Ended' = Ended \ {c}
    BY <2>3, <2>5, ConnectionSource
  <2>8. Chan' = [Chan EXCEPT ![c] = Append(Chan[c], m)] /\ Ended' = Ended
    BY <2>5, <2>6, <2>7
  <2> QED BY <1>0, <2>2, <2>6, <2>8, MailArrive
<1>6. ASSUME NEW c \in ConnId, RemoteClose(c) PROVE [M!Next]_(M!mailVars)
  <2> DEFINE k == [conns[c] EXCEPT !.state = "eof"]
  <2>1. conns[c] \in Conn /\ conns[c] # Null /\ conns[c].state = "open"
    BY <1>6 DEF RemoteClose, Established, NewConns, TypeOK
  <2>2. conns' = [conns EXCEPT ![c] = k] /\ mcin' = mcin
    BY <1>6, <2>1 DEF RemoteClose
  <2>3. k \in Conn /\ k.data = conns[c].data /\ k.state # "gone"
    BY <2>1 DEF Conn
  <2> HIDE DEF k
  <2>4. Data(c) = conns[c].data /\ ~ Gone(c)
    BY <2>1 DEF Data, Gone
  <2> QED BY <1>1, <2>2, <2>3, <2>4, SameSource
<1>7. ASSUME NEW c \in ConnId, RemoteReset(c) PROVE M!Next
  <2> DEFINE k == [conns[c] EXCEPT !.state = "reset", !.data = <<>>]
  <2>1. conns[c] \in Conn /\ conns[c] # Null /\ conns[c].state = "open"
    BY <1>7 DEF RemoteReset, Established, NewConns, TypeOK
  <2>2. conns' = [conns EXCEPT ![c] = k] /\ mcin' = mcin
    BY <1>7, <2>1 DEF RemoteReset, TypeOK
  <2>3. k \in Conn /\ k.data = <<>> /\ k.state = "reset"
    BY <2>1, EmptySeq DEF Conn
  <2> HIDE DEF k
  <2>4. c \notin Ended /\ c \in Source
    BY <2>1, ChanShape, SourceShape DEF Gone
  <2>5. Chan' = [Chan EXCEPT ![c] = k.data] /\ Ended' = Ended \ {c}
    BY <2>2, <2>3, ConnectionSource
  <2>6. Chan' = [Chan EXCEPT ![c] = <<>>] /\ Ended' = Ended
    BY <2>3, <2>4, <2>5
  <2> QED BY <1>0, <2>4, <2>6, MailLose
<1> QED BY <1>2, <1>3, <1>4, <1>5, <1>6, <1>7 DEF Environment

(* Reading a message posts it.                                             *)
LEMMA ReadIsMailStep ==
  ASSUME IInv, NEW f \in Fd, Read(f) PROVE M!Next
<1>1. Box' = Append(Box, Packed(inMsg')) /\ inMsg' \in SMsg
  <2>1. inMsg' \in SMsg
    BY ReadShape
  <2> QED BY <2>1, PostedAppends DEF Read
<1>2. CASE /\ mcin # <<>> /\ mcin' = Tail(mcin) /\ conns' = conns
           /\ inMsg' = [what |-> Head(mcin), sock |-> f, src |-> McSource,
                        host |-> Head(mcin).addr.host]
  <2>1. Chan' = [Chan EXCEPT ![McSource] = Tail(Chan[McSource])] /\ Ended' = Ended
        /\ Chan[McSource] = mcin
    BY <1>2, MulticastSource, ChanShape, SourceShape
  <2>2. Packed(inMsg') = [src |-> McSource, what |-> Head(Chan[McSource])]
    BY <1>2, <2>1 DEF Packed
  <2> QED BY <1>1, <1>2, <2>1, <2>2, SourceShape, MailPost
<1>3. ASSUME NEW c \in ConnId, conns[c] \in Conn, conns[c].data # <<>>,
             conns' = [conns EXCEPT ![c] = [conns[c] EXCEPT !.data = Tail(conns[c].data)]],
             mcin' = mcin, fdt[f] = c,
             inMsg' = [what |-> Head(conns[c].data), sock |-> f, src |-> c,
                       host |-> conns[c].host]
      PROVE  M!Next
  <2> DEFINE k == [conns[c] EXCEPT !.data = Tail(conns[c].data)]
  <2>1. /\ Tail(conns[c].data) \in Seq(Msg) /\ conns[c] # Null
        /\ conns[c].state # "gone"
    BY <1>3, HeadTailProperties, Distinct DEF Conn, IInv, KernelOK, InUse
  <2>2. k \in Conn /\ k.data = Tail(conns[c].data) /\ k.state # "gone"
    BY <1>3, <2>1 DEF Conn
  <2>3. conns' = [conns EXCEPT ![c] = k]
    BY <1>3
  <2> HIDE DEF k
  <2>4. Chan[c] = conns[c].data /\ c \notin Ended /\ c \in Source
    BY <2>1, ChanShape, SourceShape DEF Data, Gone
  <2>5. Chan' = [Chan EXCEPT ![c] = k.data] /\ Ended' = Ended \ {c}
    <3>1. TypeOK
      BY DEF IInv
    <3>2. Ended' = (Ended \ {c}) \cup {} /\ Chan' = [Chan EXCEPT ![c] = k.data]
      BY <1>3, <2>2, <2>3, <3>1, ConnectionSource
    <3> QED BY <3>2
  <2>6. Chan' = [Chan EXCEPT ![c] = Tail(Chan[c])] /\ Ended' = Ended
    BY <2>2, <2>4, <2>5
  <2>7. Packed(inMsg') = [src |-> c, what |-> Head(Chan[c])]
    BY <1>3, <2>4 DEF Packed
  <2> QED BY <1>1, <1>3, <2>4, <2>6, <2>7, MailPost
<1> QED BY <1>2, <1>3, ReadShape

(* Dropping a descriptor posts the notice of its source.                   *)
LEMMA DropIsMailStep ==
  ASSUME IInv, NEW f \in Fd, Drop(f) PROVE M!Next
<1>1. Box' = Append(Box, Packed(inMsg')) /\ Packed(inMsg') = [src |-> inMsg'.src, what |-> Null]
  <2>1. inMsg' \in SMsg /\ IsError(inMsg')
    BY DropShape
  <2>2. inPc = "poll" /\ inPc' \in {"push", "remake"} /\ inq' = inq
    BY DEF Drop
  <2> QED BY <2>1, <2>2, PostedAppends DEF Packed, IsError
<1>4. CASE fdt[f] = Closed
  <2>1. fdt[f] # Mc /\ fdt[f] \notin ConnId
    BY <1>4, Distinct
  <2>2. mcin' = mcin /\ conns' = conns /\ inMsg'.src = McSource
    BY <2>1, DropShape
  <2>3. Chan' = Chan /\ Ended' = Ended
    BY <2>2, SameSource DEF IInv
  <2> QED BY <1>1, <2>2, <2>3, MailFalseAlarm
<1>2. CASE fdt[f] = Mc
  <2>1. fdt[f] \notin ConnId
    BY <1>2, Distinct
  <2>2. mcin' = <<>> /\ conns' = conns /\ inMsg'.src = McSource
    BY <1>2, <2>1, DropShape
  <2>3. Chan' = [Chan EXCEPT ![McSource] = <<>>] /\ Ended' = Ended
    BY <2>2, MulticastSource
  <2>4. McSource \notin Ended
    BY ChanShape, SourceShape
  <2>5. Ended \cup ({McSource} \ {McSource}) = Ended
    OBVIOUS
  <2> QED BY <1>1, <2>2, <2>3, <2>4, <2>5, SourceShape, MailEnd
<1>3. ASSUME NEW c \in ConnId, fdt[f] = c, conns[c] \in Conn, conns[c].data = <<>>,
             conns' = [conns EXCEPT ![c] = [conns[c] EXCEPT !.state = "gone"]],
             inMsg'.src = c
      PROVE  M!Next
  <2> DEFINE k == [conns[c] EXCEPT !.state = "gone"]
  <2>1. conns[c] # Null /\ conns[c].state # "gone" /\ mcin' = mcin
    <3>1. fdt[f] # Mc /\ c \in InUse
      BY <1>3, Distinct DEF IInv, KernelOK
    <3>2. mcin' = mcin
      BY <3>1, DropShape
    <3> QED BY <3>1, <3>2 DEF InUse
  <2>2. k \in Conn /\ k.data = <<>> /\ k.state = "gone"
    BY <1>3 DEF Conn
  <2>3. conns' = [conns EXCEPT ![c] = k]
    BY <1>3
  <2> HIDE DEF k
  <2>4. Chan[c] = <<>> /\ c \notin Ended /\ c \in Source /\ c # McSource
    BY <1>3, <2>1, ChanShape, SourceShape DEF Data, Gone
  <2>5. Chan' = [Chan EXCEPT ![c] = k.data] /\ Ended' = (Ended \ {c}) \cup {c}
    BY <2>1, <2>2, <2>3, ConnectionSource DEF IInv
  <2>6. Chan' = [Chan EXCEPT ![c] = <<>>] /\ Ended' = Ended \cup ({c} \ {McSource})
    BY <2>2, <2>4, <2>5
  <2> QED BY <1>1, <1>3, <2>4, <2>6, MailEnd
<1> QED BY <1>2, <1>3, <1>4, Distinct, DropShape DEF IInv, TypeOK

(* Every step is one of the mailbox, or none.                              *)
LEMMA StepIsMailStep ==
  ASSUME IInv, IInv', [Next]_vars PROVE [M!Next]_(M!mailVars)
<1> USE DEF IInv
<1>1. ASSUME Posted' = Posted, UNCHANGED <<conns, mcin>> PROVE [M!Next]_(M!mailVars)
  <2>1. Chan' = Chan /\ Ended' = Ended
    BY <1>1, SameSource
  <2>2. Box' = Box
    BY <1>1, PostedShape
  <2> QED BY <2>1, <2>2 DEF M!mailVars, Ended
<1>2. ASSUME UNCHANGED <<inPc, inMsg, inq, conns, mcin>> PROVE [M!Next]_(M!mailVars)
  BY <1>1, <1>2 DEF Posted, Held
<1>3. CASE Listen \/ Idle
  <2>1. UNCHANGED <<conns, mcin, inq>> /\ {inPc, inPc'} \subseteq {"listen", "poll"}
    BY <1>3 DEF Listen, Idle, kernel
  <2> QED BY <1>1, <2>1 DEF Posted, Held
<1>4. ASSUME NEW i \in 1..Len(poll), Read(poll[i]) \/ Drop(poll[i]) PROVE M!Next
  <2>1. poll[i] \in Fd
    BY PolledIsFd
  <2> QED BY <1>4, <2>1, ReadIsMailStep, DropIsMailStep
<1>5. CASE Remake
  BY <1>1, <1>5 DEF Remake, Posted, Held
<1>6. CASE Push
  BY <1>1, <1>6, PostedPushed DEF Push, kernel
<1>7. CASE Pop
  <2>1. Box # <<>> /\ Box' = Tail(Box)
    BY <1>7, PostedPopped, PostedShape
  <2>2. Chan' = Chan /\ Ended' = Ended
    BY <1>7, SameSource DEF Pop, kernel
  <2> QED BY <2>1, <2>2, MailTake
<1>8. CASE Connect
  <2>1. UNCHANGED <<inPc, inMsg, inq, mcin>>
    BY <1>8 DEF Connect, inThread
  <2>2. CASE conns' = conns
    BY <1>2, <2>1, <2>2
  <2>3. ASSUME NEW c \in ConnId, NEW k \in Conn, conns[c] = Null, k.state \in {"open", "reset"},
               k.data = <<>>, conns' = [conns EXCEPT ![c] = k]
        PROVE  [M!Next]_(M!mailVars)
    <3>1. Data(c) = <<>> /\ ~ Gone(c) /\ k.state # "gone"
      BY <2>3 DEF Data, Gone
    <3>2. Chan' = Chan /\ Ended' = Ended
      BY <2>1, <2>3, <3>1, SameSource
    <3>3. Box' = Box
      BY <2>1, BoxIsPosted DEF Posted, Held
    <3> QED BY <3>2, <3>3 DEF M!mailVars, Ended
  <2> QED BY <1>8, <2>2, <2>3, ConnectShape
<1>9. CASE UNCHANGED vars
  BY <1>2, <1>9 DEF vars, kernel, inThread
<1>10. CASE AppThread /\ ~ Pop /\ ~ Connect
  BY <1>2, <1>10 DEF AppThread, ProcessError, ProcessSelf, ProcessData, UserSend,
     Resolve, Watch, Leak, Write, kernel, inThread
<1> QED BY <1>3, <1>4, <1>5, <1>6, <1>7, <1>8, <1>9, <1>10, EnvironmentIsMailStep
        DEF Next, InThread, Poll, AppThread

(* The queue between the threads is the mailbox: what the receiving thread *)
(* reads reaches processSMsg() in order, once each, and the notice of a    *)
(* closed connection comes after all its messages.                         *)
THEOREM QueueIsMailbox == Spec => IsMailbox
<1>1. IInv /\ IInv' /\ [Next]_vars => [M!Next]_(M!mailVars)
  BY StepIsMailStep
<1> QED BY <1>1, MailInit, IInvIsInvariant, PTL DEF Spec, M!Spec, IsMailbox

-----------------------------------------------------------------------------
(* Descriptors are reused while messages read from them are still queued,  *)
(* yet the record under a descriptor is that of the peer a message came    *)
(* from: between two peers on one descriptor the queue holds the notice    *)
(* that the first one is gone.                                             *)

(* Notices for a descriptor, and stretches of the queue without one.       *)
NoticeOf(q, f, k) == IsError(q[k]) /\ q[k].sock = f
Quiet(q, f, i, j) == \A k \in i..j : ~ NoticeOf(q, f, k)

(* For one descriptor f: what the queue q holds agrees with the hosts on   *)
(* record before it and with the hosts at the other end after it.          *)
Traced(q, f, before, after) ==
  /\ \A i, j \in 1..Len(q) :
       i < j /\ q[i].sock = f /\ q[j].sock = f /\ Quiet(q, f, i, j - 1)
         => q[i].host = q[j].host
  /\ \A i \in 1..Len(q) :
       q[i].sock = f /\ Quiet(q, f, 1, i - 1) => \A h \in before : q[i].host = h
  /\ \A i \in 1..Len(q) : q[i].sock = f /\ Quiet(q, f, i, Len(q)) => q[i].host \in after
  /\ Quiet(q, f, 1, Len(q)) => before \subseteq after

(* Appending a message of the present owner, or the notice that it goes.   *)
LEMMA TracedAppend ==
  ASSUME NEW q \in Seq(SMsg), NEW x \in SMsg, NEW f, NEW before, NEW after, NEW later,
         Traced(q, f, before, after),
         x.sock = f => after = {x.host},
         later = after \/ (IsError(x) /\ x.sock = f)
  PROVE  Traced(Append(q, x), f, before, later)
<1> DEFINE r == Append(q, x)
<1>1. /\ Len(q) \in Nat /\ Len(r) = Len(q) + 1
      /\ \A i \in 1..Len(q) : r[i] = q[i]
      /\ r[Len(q) + 1] = x
  BY AppendProperties, LenProperties
<1> HIDE DEF r
<1>2. ASSUME NEW i \in Nat, NEW j \in Nat, i >= 1, j <= Len(q)
      PROVE  Quiet(r, f, i, j) <=> Quiet(q, f, i, j)
  <2>1. \A k \in i..j : k \in 1..Len(q)
    BY <1>1, <1>2
  <2> QED BY <1>1, <2>1 DEF Quiet, NoticeOf
<1>3. ASSUME NEW i \in 1..Len(q), Quiet(r, f, i, Len(r))
      PROVE  Quiet(q, f, i, Len(q)) /\ ~ (IsError(x) /\ x.sock = f)
  <2>1. i \in Nat /\ i >= 1 /\ Len(q) <= Len(q) /\ Len(q) + 1 \in i..Len(r)
        /\ i..Len(q) \subseteq i..Len(r)
    BY <1>1
  <2>2. Quiet(r, f, i, Len(q))
    BY <1>3, <2>1 DEF Quiet
  <2>3. ~ NoticeOf(r, f, Len(q) + 1)
    BY <1>3, <2>1 DEF Quiet
  <2> QED BY <1>1, <1>2, <2>1, <2>2, <2>3 DEF NoticeOf
<1>4. ASSUME NEW i \in 1..Len(r), NEW j \in 1..Len(r), i < j, r[i].sock = f,
             r[j].sock = f, Quiet(r, f, i, j - 1)
      PROVE  r[i].host = r[j].host
  <2>1. i \in 1..Len(q) /\ j - 1 \in Nat /\ j - 1 <= Len(q) /\ i \in Nat /\ i >= 1
    BY <1>1, <1>4
  <2>2. Quiet(q, f, i, j - 1)
    BY <1>2, <1>4, <2>1
  <2>3. CASE j \in 1..Len(q)
    BY <1>1, <1>4, <2>1, <2>2, <2>3 DEF Traced
  <2>4. CASE j = Len(q) + 1
    <3>1. Quiet(q, f, i, Len(q)) /\ x.sock = f /\ q[i].sock = f
      BY <1>1, <1>4, <2>1, <2>2, <2>4
    <3>2. q[i].host \in {x.host}
      BY <2>1, <3>1 DEF Traced
    <3> QED BY <1>1, <2>1, <2>4, <3>2
  <2> QED BY <1>1, <2>3, <2>4
<1>5. ASSUME NEW i \in 1..Len(r), r[i].sock = f, Quiet(r, f, 1, i - 1), NEW h \in before
      PROVE  r[i].host = h
  <2>1. Quiet(q, f, 1, i - 1)
    <3>1. i - 1 \in Nat /\ i - 1 <= Len(q) /\ 1 \in Nat /\ 1 >= 1
      BY <1>1
    <3> QED BY <1>2, <1>5, <3>1
  <2>2. CASE i \in 1..Len(q)
    BY <1>1, <1>5, <2>1, <2>2 DEF Traced
  <2>3. CASE i = Len(q) + 1
    <3>1. Quiet(q, f, 1, Len(q)) /\ x.sock = f
      BY <1>1, <1>5, <2>1, <2>3
    <3>2. before \subseteq {x.host}
      BY <3>1 DEF Traced
    <3> QED BY <1>1, <2>3, <3>2
  <2> QED BY <1>1, <2>2, <2>3
<1>6. ASSUME NEW i \in 1..Len(r), r[i].sock = f, Quiet(r, f, i, Len(r))
      PROVE  r[i].host \in later
  <2>1. CASE i \in 1..Len(q)
    BY <1>1, <1>3, <1>6, <2>1 DEF Traced
  <2>2. CASE i = Len(q) + 1
    <3>1. ~ NoticeOf(r, f, i)
      BY <1>1, <1>6, <2>2 DEF Quiet
    <3> QED BY <1>1, <1>6, <2>2, <3>1 DEF NoticeOf
  <2> QED BY <1>1, <2>1, <2>2
<1>7. ASSUME Quiet(r, f, 1, Len(r)) PROVE before \subseteq later
  <2>1. Quiet(q, f, 1, Len(q)) /\ ~ (IsError(x) /\ x.sock = f)
    <3>1. 1..Len(q) \subseteq 1..Len(r) /\ Len(q) + 1 \in 1..Len(r) /\ 1 \in Nat /\ 1 >= 1
          /\ Len(q) <= Len(q)
      BY <1>1
    <3>2. Quiet(r, f, 1, Len(q)) /\ ~ NoticeOf(r, f, Len(q) + 1)
      BY <1>7, <3>1 DEF Quiet
    <3> QED BY <1>1, <1>2, <3>1, <3>2 DEF NoticeOf
  <2> QED BY <2>1 DEF Traced
<1>8. Traced(r, f, before, later)
  BY <1>4, <1>5, <1>6, <1>7 DEF Traced
<1> QED BY <1>8 DEF r

(* Taking the first message, after which a notice leaves nobody on record. *)
LEMMA TracedTail ==
  ASSUME NEW q \in Seq(SMsg), q # <<>>, NEW f, NEW before, NEW after, NEW now,
         Traced(q, f, before, after),
         NoticeOf(q, f, 1) => now = {},
         now \subseteq before \cup (IF q[1].sock = f THEN {q[1].host} ELSE {})
  PROVE  Traced(Tail(q), f, now, after)
<1> DEFINE r == Tail(q)
<1>1. /\ Len(q) \in Nat \ {0} /\ Len(r) = Len(q) - 1
      /\ \A i \in 1..Len(r) : r[i] = q[i+1]
  BY HeadTailProperties, LenProperties, EmptySeq
<1> HIDE DEF r
<1>2. ASSUME NEW i \in Nat, NEW j \in Nat, i >= 1, j <= Len(r)
      PROVE  Quiet(r, f, i, j) <=> Quiet(q, f, i + 1, j + 1)
  <2>1. \A k \in i..j : k \in 1..Len(r) /\ k + 1 \in (i + 1)..(j + 1)
    BY <1>1, <1>2
  <2>2. \A k \in (i + 1)..(j + 1) : k - 1 \in i..j /\ k - 1 \in 1..Len(r) /\ (k - 1) + 1 = k
    BY <1>1, <1>2
  <2>3. \A k \in 1..Len(r) : NoticeOf(r, f, k) <=> NoticeOf(q, f, k + 1)
    BY <1>1 DEF NoticeOf
  <2>4. \A k \in (i + 1)..(j + 1) : NoticeOf(r, f, k - 1) <=> NoticeOf(q, f, k)
    BY <2>2, <2>3
  <2> QED BY <2>1, <2>2, <2>3, <2>4 DEF Quiet
<1>3. ASSUME NEW j \in Nat, j <= Len(r), Quiet(r, f, 1, j), ~ NoticeOf(q, f, 1)
      PROVE  Quiet(q, f, 1, j + 1)
  <2>1. Quiet(q, f, 1 + 1, j + 1)
    BY <1>2, <1>3
  <2>2. \A k \in 1..(j + 1) : k = 1 \/ k \in (1 + 1)..(j + 1)
    OBVIOUS
  <2> QED BY <1>3, <2>1, <2>2 DEF Quiet
<1>4. ASSUME NEW i \in 1..Len(r), NEW j \in 1..Len(r), i < j, r[i].sock = f,
             r[j].sock = f, Quiet(r, f, i, j - 1)
      PROVE  r[i].host = r[j].host
  <2>1. /\ i \in Nat /\ i >= 1 /\ j - 1 \in Nat /\ j - 1 <= Len(r)
        /\ i + 1 \in 1..Len(q) /\ j + 1 \in 1..Len(q) /\ i + 1 < j + 1
        /\ (j - 1) + 1 = (j + 1) - 1
    BY <1>1, <1>4
  <2>2. Quiet(q, f, i + 1, (j + 1) - 1)
    BY <1>2, <1>4, <2>1
  <2>3. r[i] = q[i+1] /\ r[j] = q[j+1]
    BY <1>1
  <2>4. q[i+1].sock = f /\ q[j+1].sock = f
    BY <1>4, <2>3
  <2>5. q[i+1].host = q[j+1].host
    BY <2>1, <2>2, <2>4 DEF Traced
  <2> QED BY <2>3, <2>5
<1>5. ASSUME NEW i \in 1..Len(r), r[i].sock = f, Quiet(r, f, 1, i - 1), NEW h \in now
      PROVE  r[i].host = h
  <2>1. ~ NoticeOf(q, f, 1)
    BY <1>5
  <2>2. /\ i - 1 \in Nat /\ i - 1 <= Len(r) /\ (i - 1) + 1 = (i + 1) - 1
        /\ i + 1 \in 1..Len(q) /\ 1 \in 1..Len(q) /\ 1 < i + 1
    BY <1>1
  <2>3. Quiet(q, f, 1, (i + 1) - 1)
    BY <1>3, <1>5, <2>1, <2>2
  <2>4. q[i+1].sock = f /\ r[i].host = q[i+1].host
    BY <1>1, <1>5
  <2>5. CASE h \in before
    BY <2>2, <2>3, <2>4, <2>5 DEF Traced
  <2>6. CASE q[1].sock = f /\ h = q[1].host
    BY <2>2, <2>3, <2>4, <2>6 DEF Traced
  <2> QED BY <1>5, <2>5, <2>6
<1>6. ASSUME NEW i \in 1..Len(r), r[i].sock = f, Quiet(r, f, i, Len(r))
      PROVE  r[i].host \in after
  <2>1. /\ i \in Nat /\ i >= 1 /\ Len(r) \in Nat /\ Len(r) <= Len(r)
        /\ i + 1 \in 1..Len(q) /\ Len(r) + 1 = Len(q)
    BY <1>1
  <2>2. Quiet(q, f, i + 1, Len(q))
    BY <1>2, <1>6, <2>1
  <2> QED BY <1>1, <1>6, <2>1, <2>2 DEF Traced
<1>7. ASSUME Quiet(r, f, 1, Len(r)) PROVE now \subseteq after
  <2>1. CASE NoticeOf(q, f, 1)
    BY <2>1
  <2>2. CASE ~ NoticeOf(q, f, 1)
    <3>1. Quiet(q, f, 1, Len(q)) /\ 1 \in 1..Len(q)
      <4>1. Len(r) \in Nat /\ Len(r) <= Len(r) /\ Len(r) + 1 = Len(q) /\ 1 \in 1..Len(q)
        BY <1>1
      <4> QED BY <1>3, <1>7, <2>2, <4>1
    <3> QED BY <3>1 DEF Traced
  <2> QED BY <2>1, <2>2
<1>8. Traced(r, f, now, after)
  BY <1>4, <1>5, <1>6, <1>7 DEF Traced
<1> QED BY <1>8 DEF r

(* A descriptor that is closed is taken for another peer.                  *)
LEMMA TracedReopen ==
  ASSUME NEW q, NEW f, NEW before, NEW later, Traced(q, f, before, {})
  PROVE  Traced(q, f, before, later)
BY DEF Traced

(* The first message is from whoever was on record before it.              *)
LEMMA TracedHead ==
  ASSUME NEW q \in Seq(SMsg), q # <<>>, NEW before, NEW after,
         Traced(q, q[1].sock, before, after)
  PROVE  \A h \in before : q[1].host = h
<1>1. 1 \in 1..Len(q)
  BY EmptySeq, LenProperties
<1>2. Quiet(q, q[1].sock, 1, 1 - 1)
  BY DEF Quiet
<1> QED BY <1>1, <1>2 DEF Traced

-----------------------------------------------------------------------------
(* What the application thread is at, then what it will get.               *)
Current == IF appPc = "process" THEN <<appMsg>> ELSE <<>>
Queue   == Current \o Posted

(* The host on record under a descriptor, and the one it is connected to.  *)
Before(f) == IF contacts.socket2peer[f] = Null THEN {}
             ELSE {contacts.socket2peer[f].addr.host}
After(f)  == IF fdt[f] \in ConnId THEN {conns[fdt[f]].host} ELSE {}

(* A message that came over a connection names the host at its other end.  *)
NamesItsHost(q) ==
  \A i \in 1..Len(q) : ~ IsError(q[i]) /\ q[i].sock # 1 => q[i].what.addr.host = q[i].host
(* What is in a connection names the connection's host.                    *)
FramesNameTheirHost ==
  \A c \in ConnId : \A i \in 1..Len(Data(c)) : Data(c)[i].addr.host = conns[c].host

(* The invariant behind SocketNamesSender.                                 *)
SenderInv ==
  /\ \A f \in Fd \ {1} : Traced(Queue, f, Before(f), After(f))
  /\ NamesItsHost(Queue)
  /\ FramesNameTheirHost
  /\ contacts.socket2peer[1] = Null
  /\ CT!SocketComplete(contacts)

(* The types of the queues.                                                *)
LEMMA QueueType ==
  ASSUME IInv
  PROVE  Queue \in Seq(SMsg) /\ Current \in Seq(SMsg) /\ Posted \in Seq(SMsg)
<1>1. inq \in Seq(SMsg) /\ (inPc \in {"push", "remake"} => inMsg \in SMsg)
      /\ (appPc = "process" => appMsg \in SMsg)
  BY DEF IInv, TypeOK, ThreadsOK
<1>2. Current \in Seq(SMsg)
  BY <1>1, EmptySeq DEF Current
<1>3. Posted \in Seq(SMsg)
  BY <1>1, EmptySeq, ConcatProperties DEF Posted, Held
<1> QED BY <1>2, <1>3, ConcatProperties DEF Queue

(* Reading or dropping appends to the queue.                               *)
LEMMA QueueAppends ==
  ASSUME IInv, inPc = "poll", inPc' \in {"push", "remake"}, inq' = inq, inMsg' \in SMsg,
         UNCHANGED <<appPc, appMsg>>
  PROVE  Queue' = Append(Queue, inMsg')
<1>1. Posted' = Append(Posted, inMsg') /\ Current' = Current
  BY PostedAppends DEF Current
<1>2. Posted' = Posted \o <<inMsg'>> /\ <<inMsg'>> \in Seq(SMsg)
  BY <1>1, QueueType, AppendIsConcat
<1>3. Current \o (Posted \o <<inMsg'>>) = (Current \o Posted) \o <<inMsg'>>
  BY <1>2, QueueType, ConcatAssociative
<1>4. Append(Queue, inMsg') = Queue \o <<inMsg'>>
  BY QueueType, AppendIsConcat
<1> QED BY <1>1, <1>2, <1>3, <1>4 DEF Queue

(* Popping moves a message from inq to processSMsg() and leaves the whole  *)
(* as it is.                                                               *)
LEMMA QueuePopped ==
  ASSUME IInv, IInv', Pop PROVE Queue' = Queue
<1>1. /\ Posted # <<>> /\ Posted' = Tail(Posted) /\ appMsg' = Head(Posted)
  BY PostedPopped DEF Pop
<1>2. Queue = Posted
  BY QueueType, ConcatEmptySeq DEF Queue, Current, Pop
<1>3. Queue' = <<Head(Posted)>> \o Tail(Posted)
  BY <1>1 DEF Queue, Current, Pop
<1> DEFINE p == Posted
<1>4. p \in Seq(SMsg) /\ p # <<>>
  BY <1>1, QueueType
<1> HIDE DEF p
<1>5. <<Head(p)>> \o Tail(p) = p
  <2>1. /\ Head(p) \in SMsg /\ Tail(p) \in Seq(SMsg) /\ Len(Tail(p)) = Len(p) - 1
        /\ \A i \in 1..Len(Tail(p)) : Tail(p)[i] = p[i+1]
        /\ Len(p) \in Nat \ {0} /\ Head(p) = p[1]
    BY <1>4, HeadTailProperties, EmptySeq
  <2> DEFINE h == <<Head(p)>>
  <2>2. h \in Seq(SMsg) /\ Len(h) = 1 /\ h[1] = p[1]
    BY <2>1
  <2> HIDE DEF h
  <2>3. /\ h \o Tail(p) \in Seq(SMsg) /\ Len(h \o Tail(p)) = 1 + (Len(p) - 1)
        /\ \A i \in 1..(1 + (Len(p) - 1)) :
             (h \o Tail(p))[i] = IF i <= 1 THEN h[i] ELSE Tail(p)[i - 1]
    BY <2>1, <2>2, ConcatProperties, SMTT(30)
  <2>4. \A i \in 1..Len(p) : (h \o Tail(p))[i] = p[i]
    <3> TAKE i \in 1..Len(p)
    <3>1. i \in 1..(1 + (Len(p) - 1)) /\ (i > 1 => i - 1 \in 1..Len(Tail(p)))
      BY <2>1
    <3>2. CASE i = 1
      BY <2>2, <2>3, <3>1, <3>2
    <3>3. CASE i > 1
      <4>1. Tail(p)[i - 1] = p[(i - 1) + 1]
        BY <2>1, <3>1, <3>3
      <4> QED BY <2>1, <2>3, <3>1, <3>3, <4>1
    <3>4. i = 1 \/ i > 1
      BY <2>1
    <3> QED BY <3>2, <3>3, <3>4
  <2>5. h \o Tail(p) = p
    BY <1>4, <2>1, <2>3, <2>4, SeqEqual
  <2> QED BY <2>5 DEF h
<1> QED BY <1>2, <1>3, <1>5 DEF p

(* processSMsg() takes the first message out of the whole.                 *)
LEMMA QueueProcessed ==
  ASSUME IInv, appPc = "process", appPc' # "process", UNCHANGED <<inPc, inMsg, inq>>
  PROVE  Queue # <<>> /\ Queue[1] = appMsg /\ Queue' = Tail(Queue)
<1> DEFINE c == <<appMsg>>
           p == Posted
<1>1. Queue = c \o p /\ Queue' = <<>> \o p
  BY DEF Queue, Current, Posted, Held
<1>2. p \in Seq(SMsg) /\ c \in Seq(SMsg) /\ Len(c) = 1 /\ c[1] = appMsg
  <2>1. appMsg \in SMsg
    BY DEF IInv, ThreadsOK
  <2> QED BY <2>1, QueueType
<1> HIDE DEF c, p
<1>3. Queue' = p
  BY <1>1, <1>2, ConcatEmptySeq
<1>4. /\ c \o p \in Seq(SMsg) /\ Len(c \o p) = 1 + Len(p) /\ Len(p) \in Nat
      /\ \A i \in 1..(1 + Len(p)) : (c \o p)[i] = IF i <= 1 THEN c[i] ELSE p[i - 1]
  <2>1. Len(p) \in Nat
    BY <1>2, LenProperties
  <2>2. /\ c \o p \in Seq(SMsg) /\ Len(c \o p) = Len(c) + Len(p)
        /\ \A i \in 1..(Len(c) + Len(p)) :
             (c \o p)[i] = IF i <= Len(c) THEN c[i] ELSE p[i - Len(c)]
    BY <1>2, ConcatProperties
  <2> QED BY <1>2, <2>1, <2>2
<1>5. c \o p # <<>> /\ (c \o p)[1] = appMsg
  <2>1. Len(c \o p) # 0 /\ 1 \in 1..(1 + Len(p))
    BY <1>4
  <2> QED BY <1>2, <1>4, <2>1, EmptySeq
<1>6. /\ Tail(c \o p) \in Seq(SMsg) /\ Len(Tail(c \o p)) = Len(p)
      /\ \A i \in 1..Len(p) : Tail(c \o p)[i] = p[i]
  <2>1. /\ Tail(c \o p) \in Seq(SMsg) /\ Len(Tail(c \o p)) = (1 + Len(p)) - 1
        /\ \A i \in 1..Len(Tail(c \o p)) : Tail(c \o p)[i] = (c \o p)[i + 1]
    BY <1>4, <1>5, HeadTailProperties
  <2>2. \A i \in 1..Len(p) : (c \o p)[i + 1] = p[i]
    <3> TAKE i \in 1..Len(p)
    <3>1. i + 1 \in 1..(1 + Len(p)) /\ ~ (i + 1 <= 1) /\ (i + 1) - 1 = i
      BY <1>4
    <3>2. (c \o p)[i + 1] = p[(i + 1) - 1]
      BY <1>4, <3>1
    <3> QED BY <3>1, <3>2
  <2>3. Len(Tail(c \o p)) = Len(p)
    BY <1>4, <2>1
  <2> QED BY <2>1, <2>2, <2>3
<1>7. Tail(c \o p) = p
  BY <1>2, <1>6, SeqEqual
<1> QED BY <1>1, <1>3, <1>5, <1>7

(* How a step changes the connections: one is opened, or keeps its host    *)
(* What is in a connection was sent by its host.                           *)
LEMMA FramesKeepTheirHost ==
  ASSUME IInv, [Next]_vars, FramesNameTheirHost PROVE FramesNameTheirHost'
<1>1. ASSUME NEW c \in ConnId, NEW k \in Conn, ConnChanges(c, k)
      PROVE  FramesNameTheirHost'
  <2>1. \A d \in ConnId : conns'[d] = IF d = c THEN k ELSE conns[d]
    BY <1>1 DEF ConnChanges, IInv, TypeOK
  <2>2. k # Null
    BY Distinct
  <2>3. ASSUME NEW d \in ConnId, d # c, NEW i \in 1..Len(Data(d)')
        PROVE  Data(d)'[i].addr.host = conns'[d].host
    <3>1. Data(d)' = Data(d) /\ conns'[d] = conns[d]
      BY <2>1, <2>3 DEF Data
    <3> QED BY <2>3, <3>1 DEF FramesNameTheirHost
  <2>4. \A i \in 1..Len(k.data) : k.data[i].addr.host = k.host
    <3>1. CASE k.data = <<>>
      BY <3>1
    <3>2. CASE conns[c] \in Conn /\ k.host = conns[c].host
      <4> DEFINE q == conns[c].data
      <4>1. /\ q \in Seq(Msg) /\ Len(q) \in Nat
            /\ \A i \in 1..Len(q) : q[i].addr.host = k.host
        <5>1. conns[c] # Null
          BY <3>2, Distinct
        <5> QED BY <3>2, <5>1, LenProperties DEF Conn, FramesNameTheirHost, Data
      <4> HIDE DEF q
      <4>2. CASE k.data = q
        BY <4>1, <4>2
      <4>3. CASE q # <<>> /\ k.data = Tail(q)
        <5>1. /\ Len(Tail(q)) = Len(q) - 1
              /\ \A i \in 1..Len(Tail(q)) : Tail(q)[i] = q[i+1]
          BY <4>1, <4>3, HeadTailProperties
        <5>2. \A i \in 1..Len(Tail(q)) : i + 1 \in 1..Len(q)
          BY <4>1, <5>1
        <5> QED BY <4>1, <4>3, <5>1, <5>2
      <4>4. ASSUME NEW m \in Msg, m.addr.host = k.host, k.data = Append(q, m)
            PROVE  \A i \in 1..Len(k.data) : k.data[i].addr.host = k.host
        <5>1. /\ Len(k.data) = Len(q) + 1
              /\ \A i \in 1..Len(q) : k.data[i] = q[i]
              /\ k.data[Len(q) + 1] = m
          BY <4>1, <4>4, AppendProperties
        <5>2. \A i \in 1..Len(k.data) : i \in 1..Len(q) \/ i = Len(q) + 1
          BY <4>1, <5>1
        <5> QED BY <4>1, <4>4, <5>1, <5>2
      <4> QED BY <1>1, <3>1, <3>2, <4>2, <4>3, <4>4, Distinct DEF ConnChanges, q
    <3> QED BY <1>1, <3>1, <3>2 DEF ConnChanges
  <2>5. \A i \in 1..Len(Data(c)') : Data(c)'[i].addr.host = conns'[c].host
    <3>1. Data(c)' = k.data /\ conns'[c] = k
      BY <2>1, <2>2 DEF Data
    <3> QED BY <2>4, <3>1
  <2> QED BY <2>3, <2>5 DEF FramesNameTheirHost
<1>2. CASE conns' = conns
  BY <1>2 DEF FramesNameTheirHost, Data
<1> QED BY <1>1, <1>2, NextChangesConns DEF ConnsChange

(* What processSMsg() does to the records under descriptors.               *)
LEMMA NoticeSockets ==
  ASSUME IInv, CT!SocketComplete(contacts), ProcessError
  PROVE  /\ CT!SocketComplete(contacts') /\ contacts'.socket2peer[appMsg.sock] = Null
         /\ CT!NoNewSockets(contacts, contacts')
<1>1. appMsg.sock \in Fd /\ CT!WellFormed(contacts) /\ NoFd \notin Fd /\ Now \in Nat
  BY Distinct DEF ProcessError, IInv, ThreadsOK, SMsg, TableOK, Now
<1>2. CASE contacts.socket2peer[appMsg.sock] = Null
  BY <1>2 DEF ProcessError, CT!NoNewSockets
<1>3. CASE contacts.socket2peer[appMsg.sock] # Null
  <2>1. contacts' \in CT!UpdateSockets(contacts, contacts.socket2peer[appMsg.sock], NoFd, Now)
    BY <1>3, SameUpdates DEF ProcessError
  <2> QED BY <1>1, <1>3, <2>1, BoundsOfList, NullIsNoContact, CT!DisconnectKeepsSockets
<1> QED BY <1>2, <1>3

(* A lookup enters at most the descriptor the message came by.             *)
LEMMA TableSenderSockets ==
  ASSUME NEW t, TableOK(t), CT!SocketComplete(t), NEW d \in Fd, NEW mcs, NEW a \in Addr,
         NEW x \in Senders(t, d, mcs, a, OwnName, Now)
  PROVE  CT!SocketComplete(x.table) /\ CT!OnlyNewSocket(t, x.table, CT!SocketOf(d, mcs), a)
<1>1. /\ x \in CT!Senders(t, d, mcs, a, OwnName, Now) /\ Now \in Nat
      /\ CT!NoCleanUpDue(t, Now) /\ OwnName \in CT!AnyName /\ NoFd \notin Fd
  BY SameSenders, NoCleanUpDue, OwnNameIsName, Distinct DEF Now
<1>2. CT!WellFormed(t) /\ CT!Dense(t)
  BY DEF TableOK
<1> QED BY <1>1, <1>2, BoundsOfList, NullIsNoContact, EnoughIdsForAll, CT!SendersSockets

(* So processing a message puts at most its own descriptor on record, for  *)
(* the address in it.                                                      *)
LEMMA DataSockets ==
  ASSUME IInv, CT!SocketComplete(contacts), ProcessData
  PROVE  /\ CT!SocketComplete(contacts')
         /\ \A k \in Fd : contacts'.socket2peer[k] # Null =>
              \/ contacts.socket2peer[k] # Null
                 /\ contacts.socket2peer[k].addr = contacts'.socket2peer[k].addr
              \/ k = appMsg.sock /\ k # mcsock
                 /\ contacts'.socket2peer[k].addr = appMsg.what.addr
<1> DEFINE m == appMsg.what
<1>1. PICK x \in Senders(contacts, appMsg.sock, mcsock, m.addr, OwnName, Now) :
        /\ TableOK(x.table) /\ x.peer \in Live(x.table)
        /\ \/ contacts' = x.table
           \/ contacts' = UpdateName(x.table, x.table.peers[x.peer], m.name, Now)
  BY DataShape
<1>2. /\ appMsg.sock \in Fd /\ m.addr \in Addr /\ m.name \in AnyName
  BY DataShape DEF SMsg
<1>3. /\ CT!WellFormed(contacts) /\ CT!Dense(contacts) /\ CT!NoCleanUpDue(contacts, Now)
      /\ NoFd \notin Fd /\ Now \in Nat
  BY NoCleanUpDue, Distinct DEF IInv, TableOK, Now
<1> HIDE DEF m
<1>4. x \in CT!Senders(contacts, appMsg.sock, mcsock, m.addr, OwnName, Now)
  BY <1>1, SameSenders
<1>5. /\ CT!SocketComplete(x.table)
      /\ \A k \in Fd : x.table.socket2peer[k] # Null =>
           \/ contacts.socket2peer[k] # Null
              /\ contacts.socket2peer[k].addr = x.table.socket2peer[k].addr
           \/ k = appMsg.sock /\ appMsg.sock # mcsock /\ x.table.socket2peer[k].addr = m.addr
  <2>1. TableOK(contacts)
    BY DEF IInv
  <2>2. CT!SocketComplete(x.table)
        /\ CT!OnlyNewSocket(contacts, x.table, CT!SocketOf(appMsg.sock, mcsock), m.addr)
    BY <1>1, <1>2, <2>1, TableSenderSockets
  <2> QED BY <1>3, <2>2 DEF CT!OnlyNewSocket, CT!SocketOf
<1>6. CASE contacts' = x.table
  BY <1>5, <1>6 DEF m
<1>7. CASE contacts' = UpdateName(x.table, x.table.peers[x.peer], m.name, Now)
  <2>1. contacts' = CT!UpdateName(x.table, x.table.peers[x.peer], m.name, Now)
        /\ x.peer \in CT!Live(x.table) /\ m.name \in CT!AnyName /\ CT!WellFormed(x.table)
    BY <1>1, <1>2, <1>7, SameUpdates, SameList DEF AnyName, CT!AnyName, TableOK
  <2>2. CT!SocketComplete(contacts') /\ CT!NoNewSockets(x.table, contacts')
    BY <1>3, <1>5, <2>1, BoundsOfList, NullIsNoContact, CT!RenameKeepsSockets
  <2> QED BY <1>5, <2>2 DEF m, CT!NoNewSockets
<1> QED BY <1>1, <1>6, <1>7 DEF m

(* Steps that neither queue nor process anything.                          *)
LEMMA SameQueueKeepsSenderInv ==
  ASSUME SenderInv, Queue' = Queue, contacts' = contacts, FramesNameTheirHost',
         \A f \in Fd \ {1} : After(f)' = After(f) \/ After(f) = {}
  PROVE  SenderInv'
<1>1. ASSUME NEW f \in Fd \ {1} PROVE Traced(Queue', f, Before(f)', After(f)')
  <2>1. Before(f)' = Before(f) /\ Traced(Queue, f, Before(f), After(f))
    BY DEF Before, SenderInv
  <2>2. CASE After(f)' = After(f)
    BY <2>1, <2>2
  <2>3. CASE After(f) = {}
    <3>1. Traced(Queue, f, Before(f), {})
      BY <2>1, <2>3
    <3>2. Traced(Queue, f, Before(f), After(f)')
      BY <3>1, TracedReopen
    <3> QED BY <2>1, <3>2
  <2> QED BY <2>2, <2>3
<1>2. NamesItsHost(Queue')
  BY DEF SenderInv
<1>3. contacts'.socket2peer[1] = Null /\ CT!SocketComplete(contacts')
  BY DEF SenderInv
<1> QED BY <1>1, <1>2, <1>3 DEF SenderInv

(* A descriptor that stays with its owner keeps the host of its next       *)
(* messages.                                                               *)
LEMMA AfterStays ==
  ASSUME IInv, [Next]_vars, NEW f \in Fd, fdt'[f] = fdt[f]
  PROVE  After(f)' = After(f)
<1>1. CASE fdt[f] \in ConnId
  <2>1. conns[fdt[f]] # Null
    BY <1>1 DEF IInv, KernelOK, InUse
  <2>2. conns'[fdt[f]].host = conns[fdt[f]].host
    BY <1>1, <2>1, HostStays
  <2> QED BY <1>1, <2>2 DEF After
<1>2. CASE fdt[f] \notin ConnId
  BY <1>2 DEF After
<1> QED BY <1>1, <1>2

(* A message is queued.                                                    *)
LEMMA NamesAppend ==
  ASSUME NEW q \in Seq(SMsg), NEW x \in SMsg, NamesItsHost(q),
         ~ IsError(x) /\ x.sock # 1 => x.what.addr.host = x.host
  PROVE  NamesItsHost(Append(q, x))
<1>1. /\ Len(q) \in Nat /\ Len(Append(q, x)) = Len(q) + 1
      /\ \A i \in 1..Len(q) : Append(q, x)[i] = q[i]
      /\ Append(q, x)[Len(q) + 1] = x
  BY AppendProperties, LenProperties
<1>2. \A i \in 1..(Len(q) + 1) : i \in 1..Len(q) \/ i = Len(q) + 1
  BY <1>1
<1> QED BY <1>1, <1>2 DEF NamesItsHost

(* Taking a message out of a queue of messages that name their host.       *)
LEMMA NamesTail ==
  ASSUME NEW q \in Seq(SMsg), q # <<>>, NamesItsHost(q)
  PROVE  NamesItsHost(Tail(q))
<1>1. /\ Len(q) \in Nat /\ Len(Tail(q)) = Len(q) - 1
      /\ \A i \in 1..Len(Tail(q)) : Tail(q)[i] = q[i+1]
  BY HeadTailProperties, LenProperties
<1>2. \A i \in 1..Len(Tail(q)) : i + 1 \in 1..Len(q)
  BY <1>1
<1> QED BY <1>1, <1>2 DEF NamesItsHost

(* Reading a message appends one of the descriptor's present owner.        *)
LEMMA ReadKeepsSenderInv ==
  ASSUME IInv, McIsFirst, SenderInv, FramesNameTheirHost', [Next]_vars,
         NEW d \in Fd, Read(d)
  PROVE  SenderInv'
<1>1. /\ inMsg' \in SMsg /\ inMsg'.sock = d /\ ~ IsError(inMsg')
      /\ \/ fdt[d] = Mc
         \/ /\ fdt[d] \in ConnId
            /\ inMsg'.host = conns[fdt[d]].host /\ conns[fdt[d]] # Null
            /\ Data(fdt[d]) # <<>> /\ inMsg'.what = Head(Data(fdt[d]))
  BY ReadShape, Distinct DEF IsError, Data
<1>2. d # 1 => fdt[d] \in ConnId
  BY <1>1 DEF IInv, KernelOK, McIsFirst
<1>3. d # 1 => inMsg'.what.addr.host = inMsg'.host
  <2> SUFFICES ASSUME d # 1 PROVE inMsg'.what.addr.host = inMsg'.host
    OBVIOUS
  <2> DEFINE q == Data(fdt[d])
  <2>1. q \in Seq(Msg) /\ q # <<>> /\ inMsg'.what = Head(q) /\ fdt[d] \in ConnId
        /\ inMsg'.host = conns[fdt[d]].host
    BY <1>1, <1>2, Distinct DEF Data, IInv, TypeOK, Conn
  <2>2. 1 \in 1..Len(q) /\ Head(q) = q[1]
    BY <2>1, EmptySeq, LenProperties
  <2>3. q[1].addr.host = conns[fdt[d]].host
    BY <2>1, <2>2 DEF SenderInv, FramesNameTheirHost
  <2> QED BY <2>1, <2>2, <2>3
<1>4. Queue' = Append(Queue, inMsg') /\ Queue \in Seq(SMsg)
  BY <1>1, QueueAppends, QueueType DEF Read, appThread
<1>5. contacts' = contacts /\ fdt' = fdt
  BY DEF Read, appThread
<1>6. ASSUME NEW f \in Fd \ {1} PROVE Traced(Queue', f, Before(f)', After(f)')
  <2>1. Before(f)' = Before(f) /\ After(f)' = After(f)
    BY <1>5, AfterStays DEF Before
  <2>2. inMsg'.sock = f => After(f) = {inMsg'.host}
    BY <1>1, <1>2, Distinct DEF After
  <2>3. Traced(Queue, f, Before(f), After(f))
    BY DEF SenderInv
  <2>4. Traced(Append(Queue, inMsg'), f, Before(f), After(f))
    BY <1>1, <1>4, <2>2, <2>3, TracedAppend
  <2> QED BY <1>4, <2>1, <2>4
<1>7. NamesItsHost(Queue')
  BY <1>1, <1>3, <1>4, NamesAppend DEF SenderInv
<1>8. contacts'.socket2peer[1] = Null /\ CT!SocketComplete(contacts')
  BY <1>5 DEF SenderInv
<1> QED BY <1>6, <1>7, <1>8 DEF SenderInv

(* Dropping a descriptor appends the notice that ends its owner's          *)
(* messages.                                                               *)
LEMMA DropKeepsSenderInv ==
  ASSUME IInv, McIsFirst, SenderInv, FramesNameTheirHost', [Next]_vars,
         NEW d \in Fd, Drop(d), fdt[d] # Closed
  PROVE  SenderInv'
<1>1. /\ inMsg' \in SMsg /\ inMsg'.sock = d /\ IsError(inMsg')
      /\ fdt' = [fdt EXCEPT ![d] = Closed]
      /\ fdt[d] \in ConnId => inMsg'.host = conns[fdt[d]].host
  BY DropShape, ZenonT(40)
<1>2. d # 1 => fdt[d] \in ConnId
  BY Distinct DEF IInv, TypeOK, KernelOK, McIsFirst
<1>4. Queue' = Append(Queue, inMsg') /\ Queue \in Seq(SMsg)
  BY <1>1, QueueAppends, QueueType DEF Drop, appThread
<1>5. contacts' = contacts
  BY DEF Drop, appThread
<1>6. ASSUME NEW f \in Fd \ {1} PROVE Traced(Queue', f, Before(f)', After(f)')
  <2>1. Before(f)' = Before(f)
    BY <1>5 DEF Before
  <2>2. f # d => After(f)' = After(f)
    <3>1. f # d => fdt'[f] = fdt[f]
      BY <1>1 DEF IInv, TypeOK
    <3> QED BY <3>1, AfterStays
  <2>3. inMsg'.sock = f => After(f) = {inMsg'.host}
    BY <1>1, <1>2 DEF After
  <2>4. Traced(Queue, f, Before(f), After(f))
    BY DEF SenderInv
  <2>5. Traced(Append(Queue, inMsg'), f, Before(f), After(f)')
    BY <1>1, <1>4, <2>2, <2>3, <2>4, TracedAppend
  <2> QED BY <1>4, <2>1, <2>5
<1>7. NamesItsHost(Queue')
  BY <1>1, <1>4, NamesAppend DEF SenderInv
<1>8. contacts'.socket2peer[1] = Null /\ CT!SocketComplete(contacts')
  BY <1>5 DEF SenderInv
<1> QED BY <1>6, <1>7, <1>8 DEF SenderInv

(* Processing a message puts its sender on record, processing a notice     *)
(* nobody.                                                                 *)
LEMMA ProcessKeepsSenderInv ==
  ASSUME IInv, McIsFirst, SenderInv, FramesNameTheirHost', [Next]_vars,
         ProcessError \/ ProcessSelf \/ ProcessData
  PROVE  SenderInv'
<1>1. /\ appPc = "process" /\ appPc' # "process"
      /\ UNCHANGED <<inPc, inMsg, inq, fdt>> /\ appMsg \in SMsg /\ appMsg.sock \in Fd
  BY DEF ProcessError, ProcessSelf, ProcessData, kernel, inThread, IInv, ThreadsOK, SMsg
<1>2. Queue # <<>> /\ Queue[1] = appMsg /\ Queue' = Tail(Queue) /\ Queue \in Seq(SMsg)
  BY <1>1, QueueProcessed, QueueType
<1>3. 1 \in 1..Len(Queue)
  BY <1>2, EmptySeq, LenProperties
<1>4. /\ CT!SocketComplete(contacts')
      /\ \A k \in Fd : contacts'.socket2peer[k] # Null =>
           \/ contacts.socket2peer[k] # Null
              /\ contacts.socket2peer[k].addr = contacts'.socket2peer[k].addr
           \/ /\ k = appMsg.sock /\ k # 1 /\ ~ IsError(appMsg)
              /\ contacts'.socket2peer[k].addr.host = appMsg.what.addr.host
      /\ IsError(appMsg) => contacts'.socket2peer[appMsg.sock] = Null
  <2>1. CASE ProcessError
    BY <2>1, NoticeSockets DEF SenderInv, CT!NoNewSockets
  <2>2. CASE ProcessSelf
    BY <2>2 DEF SenderInv, ProcessSelf
  <2>3. CASE ProcessData
    <3>1. ~ IsError(appMsg) /\ mcsock = 1
      BY <2>3 DEF ProcessData, McIsFirst
    <3>2. CT!SocketComplete(contacts)
      BY DEF SenderInv
    <3> QED BY <2>3, <3>1, <3>2, DataSockets
  <2> QED BY <2>1, <2>2, <2>3
<1>5. ~ IsError(appMsg) /\ appMsg.sock # 1 => appMsg.what.addr.host = appMsg.host
  BY <1>2, <1>3 DEF SenderInv, NamesItsHost
<1>6. ASSUME NEW f \in Fd \ {1} PROVE Traced(Queue', f, Before(f)', After(f)')
  <2>1. After(f)' = After(f)
    BY <1>1, AfterStays
  <2>2. NoticeOf(Queue, f, 1) => Before(f)' = {}
    BY <1>2, <1>4 DEF NoticeOf, Before
  <2>3. Before(f)' \subseteq Before(f) \cup
          (IF Queue[1].sock = f THEN {Queue[1].host} ELSE {})
    BY <1>2, <1>4, <1>5 DEF Before
  <2>4. Traced(Queue, f, Before(f), After(f))
    BY DEF SenderInv
  <2>5. Traced(Tail(Queue), f, Before(f)', After(f))
    BY <1>2, <2>2, <2>3, <2>4, TracedTail
  <2> QED BY <1>2, <2>1, <2>5
<1>7. NamesItsHost(Queue')
  BY <1>2, NamesTail DEF SenderInv
<1>8. contacts'.socket2peer[1] = Null
  BY <1>4, Distinct DEF SenderInv
<1> QED BY <1>4, <1>6, <1>7, <1>8 DEF SenderInv

(* What is polled is open.                                                 *)
PollsOnlyOpen == inPc = "poll" => \A i \in 1..Len(poll) : fdt[poll[i]] # Closed

(* Only open descriptors are polled.                                       *)
LEMMA TidyPollsOnlyOpen ==
  ASSUME Tidy PROVE PollsOnlyOpen
BY DEF Tidy, Apart, PollsOnlyOpen

(* Every step but connect() keeps queue and record in accord.              *)
LEMMA NextKeepsSenderInv ==
  ASSUME IInv, IInv', McIsFirst, PollsOnlyOpen, SenderInv, [Next]_vars, [~ Connect]_vars
  PROVE  SenderInv'
<1>0. FramesNameTheirHost'
  BY FramesKeepTheirHost DEF SenderInv
<1>1. ASSUME Queue' = Queue, contacts' = contacts, fdt' = fdt PROVE SenderInv'
  BY <1>0, <1>1, AfterStays, SameQueueKeepsSenderInv
<1>2. ASSUME UNCHANGED <<inPc, inMsg, inq, appPc, appMsg, contacts, fdt>> PROVE SenderInv'
  BY <1>1, <1>2 DEF Queue, Current, Posted, Held
<1>3. CASE Environment \/ UNCHANGED vars
  BY <1>2, <1>3, ZenonT(40) DEF Environment, McArrive, McBreak, RemoteConnect, RemoteSend, RemoteClose,
     RemoteReset, vars, kernel, inThread, appThread
<1>4. ASSUME NEW f \in Fd, NEW x, fdt[f] = Closed, fdt' = [fdt EXCEPT ![f] = x],
             Queue' = Queue, contacts' = contacts
      PROVE  SenderInv'
  <2>1. ASSUME NEW g \in Fd PROVE After(g)' = After(g) \/ After(g) = {}
    <3>1. CASE g = f
      BY <1>4, <3>1, Distinct DEF After
    <3>2. CASE g # f
      BY <1>4, <3>2, AfterStays DEF IInv, TypeOK
    <3> QED BY <3>1, <3>2
  <2> QED BY <1>0, <1>4, <2>1, SameQueueKeepsSenderInv
<1>5. CASE Listen
  <2>1. UNCHANGED <<inMsg, inq, appPc, appMsg, contacts>>
        /\ {inPc, inPc'} \subseteq {"listen", "poll"}
    BY <1>5 DEF Listen, appThread
  <2>2. Queue' = Queue
    BY <2>1 DEF Queue, Current, Posted, Held
  <2>3. CASE backlog = <<>>
    BY <1>1, <1>5, <2>1, <2>2, <2>3 DEF Listen
  <2>4. CASE backlog # <<>>
    <3>1. NewFd \in Fd /\ fdt[NewFd] = Closed /\ fdt' = [fdt EXCEPT ![NewFd] = Head(backlog)]
      BY <1>5, <2>4, NewFdIsFree DEF Listen
    <3> QED BY <1>4, <2>1, <2>2, <3>1
  <2> QED BY <2>3, <2>4
<1>6. CASE Idle
  <2>1. UNCHANGED <<inMsg, inq, appPc, appMsg, contacts, fdt>>
        /\ {inPc, inPc'} \subseteq {"listen", "poll"}
    BY <1>6 DEF Idle, appThread, kernel
  <2> QED BY <1>1, <2>1 DEF Queue, Current, Posted, Held
<1>7. CASE Remake
  <2>1. UNCHANGED <<inMsg, inq, appPc, appMsg, contacts>>
        /\ {inPc, inPc'} \subseteq {"push", "remake"}
    BY <1>7 DEF Remake, appThread
  <2>2. Queue' = Queue
    BY <2>1 DEF Queue, Current, Posted, Held
  <2>3. NewFd \in Fd /\ fdt[NewFd] = Closed /\ fdt' = [fdt EXCEPT ![NewFd] = Mc]
    BY <1>7, NewFdIsFree DEF Remake
  <2> QED BY <1>4, <2>1, <2>2, <2>3
<1>8. CASE Push
  <2>1. Posted' = Posted
    BY <1>8, PostedPushed
  <2> QED BY <1>1, <1>8, <2>1 DEF Push, Queue, Current, kernel, appThread
<1>9. ASSUME NEW i \in 1..Len(poll), Read(poll[i]) \/ Drop(poll[i]) PROVE SenderInv'
  <2>1. poll[i] \in Fd
    BY PolledIsFd DEF IInv
  <2>2. inPc = "poll" => fdt[poll[i]] # Closed
    BY DEF PollsOnlyOpen
  <2> QED BY <1>0, <1>9, <2>1, <2>2, ReadKeepsSenderInv, DropKeepsSenderInv DEF Drop
<1>10. CASE Pop
  BY <1>1, <1>10, QueuePopped DEF Pop, kernel
<1>11. CASE ProcessError \/ ProcessSelf \/ ProcessData
  BY <1>0, <1>11, ProcessKeepsSenderInv
<1>12. CASE (\E p \in PeerId : UserSend(p)) \/ Resolve \/ Watch \/ Leak \/ Write
  <2>1. UNCHANGED <<inPc, inMsg, inq, appMsg, contacts, fdt>>
        /\ appPc # "process" /\ appPc' # "process"
    BY <1>12 DEF UserSend, Resolve, Watch, Leak, Write, kernel, inThread, IInv, TypeOK,
       McIsFirst
  <2> QED BY <1>1, <2>1 DEF Queue, Current, Posted, Held
<1> QED BY <1>3, <1>5, <1>6, <1>7, <1>8, <1>9, <1>10, <1>11, <1>12
        DEF Next, InThread, Poll, AppThread

(* At the start nothing is queued and nobody on record.                    *)
LEMMA InitNamesSenders == Init => SenderInv
<1> SUFFICES ASSUME Init PROVE SenderInv
  OBVIOUS
<1>1. Queue = <<>>
  BY EmptySeq, ConcatEmptySeq DEF Init, Queue, Current, Posted, Held
<1>2. contacts = EmptyTable /\ \A f \in Fd : contacts.socket2peer[f] = Null
  BY DEF Init, EmptyTable, AnySocket
<1>3. \A f \in Fd \ {1} : Before(f) = {} /\ Traced(Queue, f, {}, After(f))
  BY <1>1, <1>2 DEF Before, Traced
<1>4. FramesNameTheirHost
  BY DEF Init, FramesNameTheirHost, Data
<1>5. NamesItsHost(Queue)
  BY <1>1 DEF NamesItsHost
<1>6. contacts.socket2peer[1] = Null /\ CT!SocketComplete(contacts)
  BY <1>2, TableStart, Distinct
<1> QED BY <1>3, <1>4, <1>5, <1>6 DEF SenderInv

(* Whatever is queued when its descriptor is closed and reused, it is      *)
(* taken for a message of the peer it came from, as long as the            *)
(* application opens no connection.                                        *)
THEOREM SenderIfNeverConnects == Spec /\ NeverConnects => []SocketNamesSender
<1>1. IInv /\ IInv' /\ McIsFirst /\ Tidy /\ SenderInv /\ [Next]_vars /\ [~ Connect]_vars
        => SenderInv'
  BY NextKeepsSenderInv, TidyPollsOnlyOpen
<1>2. IInv /\ SenderInv => SocketNamesSender
  <2> SUFFICES ASSUME IInv, SenderInv, appPc = "process",
                      contacts.socket2peer[appMsg.sock] # Null
               PROVE  contacts.socket2peer[appMsg.sock].addr.host = appMsg.host
    BY DEF SocketNamesSender
  <2>1. appMsg \in SMsg /\ appMsg.sock \in Fd \ {1}
    BY DEF IInv, ThreadsOK, SMsg, SenderInv
  <2>2. Queue \in Seq(SMsg) /\ Queue # <<>> /\ Queue[1] = appMsg
    <3> DEFINE p == Posted
    <3>1. Queue = <<appMsg>> \o p /\ p \in Seq(SMsg)
      BY QueueType DEF Queue, Current
    <3> HIDE DEF p
    <3>2. /\ Len(<<appMsg>> \o p) = Len(<<appMsg>>) + Len(p) /\ Len(p) \in Nat
          /\ \A i \in 1..(Len(<<appMsg>>) + Len(p)) :
               (<<appMsg>> \o p)[i] = IF i <= Len(<<appMsg>>) THEN <<appMsg>>[i]
                                      ELSE p[i - Len(<<appMsg>>)]
      BY <2>1, <3>1, ConcatProperties, LenProperties
    <3>3. Queue[1] = appMsg /\ Len(Queue) # 0
      BY <3>1, <3>2
    <3> QED BY <3>3, QueueType, EmptySeq
  <2>3. \A h \in Before(appMsg.sock) : appMsg.host = h
    BY <2>1, <2>2, TracedHead DEF SenderInv
  <2> QED BY <2>3 DEF Before
<1> QED BY <1>1, <1>2, InitNamesSenders, TidyIfNeverConnects, IInvIsInvariant, PTL
        DEF Spec, NeverConnects
=============================================================================
