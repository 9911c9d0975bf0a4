---------------------------- MODULE NamingProofs ----------------------------
(***************************************************************************)
(* Proofs about the name protocol.  For any number of SBuses: types; that  *)
(* nobody gives up unless two have claimed the same name; and that such a  *)
(* clash is noticed once everything sent has arrived.  For two, besides,   *)
(* that a program gives up its name only to one that claimed the same name *)
(* and was there first, so that names are unique in the end.               *)
(***************************************************************************)
EXTENDS Naming, FiniteSetTheorems, SequenceTheorems, TLAPS

(* The names and the descriptors that contacts may have.                   *)
Names == Claim \cup Node
Descriptors == Link \cup {Mc}

(* The lemmas about the contact list, for the lists of the nodes.          *)
CT == INSTANCE ContactTableProofs WITH
  Name <- Names, Socket <- Descriptors, NoSocket <- NoFd,
  MaxPeers <- 2 * Cardinality(Node), MaxIdle <- 1, CleanPeriod <- 1

-----------------------------------------------------------------------------
(* The contact list of a node. *)

(* The bounds the contact lists are instantiated with.                     *)
LEMMA BoundsOfList == 2 * Cardinality(Node) \in Nat /\ 1 \in Nat
BY NodesAssumption, FS_CardinalityType

(* An SBus appears under two addresses at most.                            *)
LEMMA AddrCount == IsFiniteSet(Addr) /\ Cardinality(Addr) <= 2 * Cardinality(Node)
<1> DEFINE Ports == {"server", "client"}
           f == [x \in Node \X Ports |-> [host |-> x[1], port |-> x[2]]]
<1>1. IsFiniteSet(Ports) /\ Cardinality(Ports) = 2
  <2>1. IsFiniteSet({"server"}) /\ Cardinality({"server"}) = 1
    BY FS_Singleton
  <2>2. Ports = {"server"} \cup {"client"} /\ "client" \notin {"server"}
    OBVIOUS
  <2> QED BY <2>1, <2>2, FS_AddElement
<1>2. IsFiniteSet(Node) /\ Cardinality(Node) \in Nat
  BY NodesAssumption, FS_CardinalityType
<1>3. IsFiniteSet(Node \X Ports)
      /\ Cardinality(Node \X Ports) = Cardinality(Node) * Cardinality(Ports)
  BY <1>1, <1>2, FS_Product
<1>4. f \in Surjection(Node \X Ports, Addr)
  <2>1. f \in [Node \X Ports -> Addr]
    BY DEF Addr
  <2>2. ASSUME NEW a \in Addr PROVE \E x \in Node \X Ports : f[x] = a
    <3>1. a.host \in Node /\ a.port \in Ports
          /\ a = [host |-> a.host, port |-> a.port]
      BY DEF Addr
    <3>2. <<a.host, a.port>> \in Node \X Ports /\ f[<<a.host, a.port>>] = a
      BY <3>1
    <3> QED BY <3>2
  <2> QED BY <2>1, <2>2 DEF Surjection
<1> HIDE DEF f
<1>5. IsFiniteSet(Addr) /\ Cardinality(Addr) <= Cardinality(Node \X Ports)
  BY <1>3, <1>4, FS_Surjection
<1>6. Cardinality(Node) * Cardinality(Ports) = 2 * Cardinality(Node)
  BY <1>1, <1>2
<1> QED BY <1>3, <1>5, <1>6

(* There is an id for every address.                                       *)
LEMMA EnoughIdsForAll == CT!EnoughIds
<1>1. IsFiniteSet(Addr) = CT!IsFiniteSet(Addr)
  BY DEF IsFiniteSet, CT!IsFiniteSet
<1>2. Cardinality(Addr) = CT!Cardinality(Addr)
  BY DEF Cardinality, CT!Cardinality
<1> QED BY <1>1, <1>2, AddrCount DEF CT!EnoughIds

(* Null tells a missing entry from a contact.                              *)
LEMMA NullIsNoContact == Null \notin CT!PeerInfo \cup Addr
BY NoRecordAssumption
   DEF PeerInfo, CT!PeerInfo, PeerId, CT!PeerId, AnyName, CT!AnyName,
       AnySocket, CT!AnySocket, Names, Descriptors

(* The list of a node is the list the lemmas are about.                    *)
LEMMA SameList ==
  /\ Table = CT!Table /\ PeerId = CT!PeerId /\ EmptyTable = CT!EmptyTable
  /\ AnyName = CT!AnyName /\ AnySocket = CT!AnySocket
  /\ \A t : Live(t) = CT!Live(t) /\ Consistent(t) = CT!Consistent(t)
<1>1. /\ Table = CT!Table /\ PeerId = CT!PeerId /\ EmptyTable = CT!EmptyTable
      /\ AnyName = CT!AnyName /\ AnySocket = CT!AnySocket
      /\ \A t : Live(t) = CT!Live(t)
  BY DEF Table, CT!Table, EmptyTable, CT!EmptyTable, Live, CT!Live, PeerId, CT!PeerId,
     PeerInfo, CT!PeerInfo, AnyName, CT!AnyName, AnySocket, CT!AnySocket,
     Names, Descriptors
<1>2. ASSUME NEW t PROVE Consistent(t) = CT!Consistent(t)
  BY SMTT(30) DEF Consistent, CT!Consistent, NoDangling, CT!NoDangling, AddrComplete,
     CT!AddrComplete, IdsGivenOut, CT!IdsGivenOut, Live, CT!Live, PeerId, CT!PeerId,
     AnyName, CT!AnyName, AnySocket, CT!AnySocket, Names, Descriptors
<1> QED BY <1>1, <1>2

(* The same for the updates of a contact.                                  *)
LEMMA SameUpdates ==
  ASSUME NEW t, NEW r, NEW s, NEW n, NEW time
  PROVE  /\ UpdateSockets(t, r, s, time) = CT!UpdateSockets(t, r, s, time)
         /\ UpdateName(t, r, n, time) = CT!UpdateName(t, r, n, time)
BY DEF UpdateSockets, CT!UpdateSockets, UpdateName, CT!UpdateName, KeptNames,
   CT!KeptNames, Show, CT!Show, Insert, CT!Insert, Erase, CT!Erase,
   Live, CT!Live, PeerId, CT!PeerId

(* The same for the lookup of a sender.                                    *)
LEMMA SameSenders ==
  ASSUME NEW t, NEW d, NEW mcs, NEW a, NEW own, NEW time
  PROVE  /\ Senders(t, d, mcs, a, own, time) = CT!Senders(t, d, mcs, a, own, time)
         /\ \A s, n : Adds(t, s, a, n, time) = CT!Adds(t, s, a, n, time)
                      /\ NewContact(t, s, a, n) = CT!NewContact(t, s, a, n)
                      /\ Known(t, a, n) = CT!Known(t, a, n)
<1>1. \A s, n : /\ Adds(t, s, a, n, time) = CT!Adds(t, s, a, n, time)
                /\ AddResult(t, s, a, n) = CT!AddResult(t, s, a, n)
                /\ NewContact(t, s, a, n) = CT!NewContact(t, s, a, n)
                /\ Known(t, a, n) = CT!Known(t, a, n)
  BY DEF Adds, CT!Adds, AddResult, CT!AddResult, Known, CT!Known, NewContact,
     CT!NewContact, CleanUps, CT!CleanUps, Unlinked, CT!Unlinked, Unlink, CT!Unlink,
     Expired, CT!Expired, Show, CT!Show, Insert, CT!Insert, Live, CT!Live,
     PeerId, CT!PeerId, AnyName, CT!AnyName, AnySocket, CT!AnySocket,
     Names, Descriptors
<1>2. \A s, r : UpdateSockets(t, r, s, time) = CT!UpdateSockets(t, r, s, time)
  BY SameUpdates
<1>3. SocketOf(d, mcs) = CT!SocketOf(d, mcs)
  BY DEF SocketOf, CT!SocketOf
<1> QED BY <1>1, <1>2, <1>3 DEF Senders, CT!Senders

(* A consistent list, no gap in the ids, and no cleanup due as long as     *)
(* time stands still.                                                      *)
TableOK(t) == CT!WellFormed(t) /\ CT!Dense(t) /\ t.cleaned = -1

(* What TableOK says of a list and of each of its contacts.                *)
LEMMA TableOKType ==
  ASSUME NEW t, TableOK(t)
  PROVE  /\ t \in Table /\ Consistent(t) /\ Live(t) = 1..t.last
         /\ \A p \in Live(t) : /\ t.peers[p] \in PeerInfo /\ t.peers[p].peer = p
                               /\ p \in PeerId /\ t.peers[p] # Null
         /\ \A s \in AnySocket : t.socket2peer[s] # Null =>
              \E p \in Live(t) : t.socket2peer[s] = t.peers[p] /\ t.peers[p].socket = s
<1>1. t \in Table /\ Consistent(t)
  BY SameList DEF TableOK, CT!WellFormed
<1>2. Live(t) = 1..t.last
  BY SameList DEF TableOK, CT!Dense
<1>3. ASSUME NEW p \in Live(t)
      PROVE  /\ t.peers[p] \in PeerInfo /\ t.peers[p].peer = p
             /\ p \in PeerId /\ t.peers[p] # Null
  BY <1>1 DEF Table, Live, Consistent, NoDangling
<1>4. ASSUME NEW s \in AnySocket, t.socket2peer[s] # Null
      PROVE  \E p \in Live(t) : t.socket2peer[s] = t.peers[p] /\ t.peers[p].socket = s
  <2> DEFINE r == t.socket2peer[s]
  <2>1. r \in PeerInfo /\ r.socket = s /\ t.peers[r.peer] = r
    BY <1>1, <1>4 DEF Table, Consistent, NoDangling
  <2>2. r.peer \in Live(t)
    BY <1>4, <2>1 DEF Live, PeerInfo
  <2> QED BY <2>1, <2>2
<1> QED BY <1>1, <1>2, <1>3, <1>4

(* The list of a new SBus.                                                 *)
LEMMA TableStart == TableOK(EmptyTable) /\ Live(EmptyTable) = {} /\ EmptyTable \in Table
<1>1. CT!WellFormed(EmptyTable)
  BY BoundsOfList, NullIsNoContact, SameList, CT!EmptyTableWellFormed
<1>2. Live(EmptyTable) = {} /\ EmptyTable.last = 0 /\ EmptyTable.cleaned = -1
  BY DEF EmptyTable, Live
<1>3. TableOK(EmptyTable)
  BY <1>1, <1>2, SameList DEF TableOK, CT!Dense
<1> QED BY <1>2, <1>3, TableOKType

(* updateSocket() gives one contact another descriptor and keeps the rest. *)
LEMMA TableUpdateSocket ==
  ASSUME NEW t, TableOK(t), NEW p \in Live(t), NEW s \in AnySocket,
         NEW v \in UpdateSockets(t, t.peers[p], s, Now)
  PROVE  /\ TableOK(v) /\ Live(v) = Live(t)
         /\ v.peers[p].socket = s /\ v.peers[p].addr = t.peers[p].addr
         /\ \A q \in Live(t) \ {p} : v.peers[q] = t.peers[q]
<1>1. p \in CT!Live(t) /\ s \in CT!AnySocket /\ Now \in Nat
      /\ v \in CT!UpdateSockets(t, t.peers[p], s, Now)
  BY SameList, SameUpdates DEF Now
<1>2. /\ CT!WellFormed(v) /\ CT!Live(v) = CT!Live(t) /\ v.last = t.last
      /\ v.cleaned = t.cleaned
      /\ v.peers[p].socket = s /\ v.peers[p].addr = t.peers[p].addr
      /\ \A q \in CT!Live(t) \ {p} : v.peers[q] = t.peers[q]
  <2>1. CT!WellFormed(t)
    BY DEF TableOK
  <2> QED BY <1>1, <2>1, BoundsOfList, NullIsNoContact, CT!UpdateSocketsShape
<1> QED BY <1>2, SameList DEF TableOK, CT!Dense

(* updateName() keeps all addresses and descriptors.                       *)
LEMMA TableRename ==
  ASSUME NEW t, TableOK(t), NEW p \in Live(t), NEW n \in AnyName,
         NEW v, v = UpdateName(t, t.peers[p], n, Now)
  PROVE  /\ TableOK(v) /\ Live(v) = Live(t)
         /\ \A q \in Live(t) : /\ v.peers[q].socket = t.peers[q].socket
                               /\ v.peers[q].addr = t.peers[q].addr
<1>1. p \in CT!Live(t) /\ n \in CT!AnyName /\ Now \in Nat
      /\ v = CT!UpdateName(t, t.peers[p], n, Now)
  BY SameList, SameUpdates DEF Now
<1>2. CT!WellFormed(t)
  BY DEF TableOK
<1>3. /\ CT!WellFormed(v) /\ CT!Live(v) = CT!Live(t) /\ v.last = t.last
      /\ v.cleaned = t.cleaned
      /\ v.peers[p].socket = t.peers[p].socket /\ v.peers[p].addr = t.peers[p].addr
      /\ \A q \in CT!Live(t) \ {p} : v.peers[q] = t.peers[q]
  BY <1>1, <1>2, BoundsOfList, NullIsNoContact, CT!UpdateNameShape
<1>4. TableOK(v) /\ Live(v) = Live(t)
  BY <1>3, SameList DEF TableOK, CT!Dense
<1> QED BY <1>3, <1>4, SameList

(* Looking up the sender of a datagram enters at most one contact, with    *)
(* the address the datagram names and no descriptor.                       *)
LEMMA TableDatagram ==
  ASSUME NEW t, TableOK(t), NEW a \in Addr, NEW own \in AnyName,
         NEW x \in Senders(t, Mc, Mc, a, own, Now)
  PROVE  /\ TableOK(x.table) /\ x.peer \in Live(x.table)
         /\ \A p \in Live(x.table) :
              \/ p \in Live(t) /\ x.table.peers[p] = t.peers[p]
              \/ x.table.peers[p].addr = a /\ x.table.peers[p].socket = NoFd
<1>1. /\ x \in CT!Senders(t, Mc, Mc, a, own, Now) /\ Now \in Nat
      /\ CT!NoCleanUpDue(t, Now) /\ own \in CT!AnyName /\ Mc \in Descriptors
  BY SameSenders, SameList DEF TableOK, CT!NoCleanUpDue, Now, Descriptors
<1>2. CT!WellFormed(t) /\ CT!Dense(t)
  BY DEF TableOK
<1>3. TableOK(x.table) /\ x.peer \in Live(x.table)
  <2>1. /\ CT!WellFormed(x.table) /\ CT!Dense(x.table) /\ x.table.cleaned = t.cleaned
        /\ x.peer \in CT!Live(x.table)
    <3>1. ASSUME NEW d \in Descriptors, NEW mcs, NEW n \in CT!AnyName, NEW time \in Nat,
                 CT!NoCleanUpDue(t, time), NEW y \in CT!Senders(t, d, mcs, a, n, time)
          PROVE  /\ CT!WellFormed(y.table) /\ y.table.cleaned = t.cleaned
                 /\ CT!Dense(y.table) /\ y.peer \in CT!Live(y.table)
      BY <1>2, <3>1, BoundsOfList, NullIsNoContact, EnoughIdsForAll, CT!SendersShape
    <3> QED BY <1>1, <3>1
  <2> QED BY <2>1, SameList DEF TableOK
<1>4. CASE t.socket2peer[Mc] = Null /\ t.addr2peer[a] = Null /\ ~ Known(t, a, own)
  <2>1. x.table \in Adds(t, NoFd, a, own, Now)
    BY <1>4 DEF Senders, SocketOf
  <2>2. x.table \in CT!Adds(t, NoFd, a, own, Now) /\ ~ CT!Known(t, a, own)
    BY <1>4, <2>1, SameSenders
  <2>3. t.last < 2 * Cardinality(Node)
    BY <1>2, <1>4, BoundsOfList, NullIsNoContact, EnoughIdsForAll, CT!RoomForNewAddress
  <2>4. NoFd \in CT!AnySocket
    BY DEF CT!AnySocket
  <2>5. /\ CT!Live(x.table) = CT!Live(t) \cup {t.last + 1}
        /\ \A q \in CT!Live(t) : x.table.peers[q] = t.peers[q]
        /\ x.table.peers[t.last + 1] = CT!NewContact(t, NoFd, a, own)
    BY <1>1, <1>2, <2>2, <2>3, <2>4, BoundsOfList, NullIsNoContact, CT!AddsShape
  <2>6. x.table.peers[t.last + 1].addr = a /\ x.table.peers[t.last + 1].socket = NoFd
    BY <2>5 DEF CT!NewContact
  <2> QED BY <1>3, <2>5, <2>6, SameList
<1>5. CASE ~ (t.socket2peer[Mc] = Null /\ t.addr2peer[a] = Null /\ ~ Known(t, a, own))
  <2>1. x.table = t
    <3>1. CASE t.socket2peer[Mc] # Null
      BY <3>1 DEF Senders
    <3>2. CASE t.socket2peer[Mc] = Null /\ t.addr2peer[a] # Null
      BY <3>2 DEF Senders
    <3>3. CASE t.socket2peer[Mc] = Null /\ t.addr2peer[a] = Null /\ Known(t, a, own)
      BY <3>3 DEF Senders, Adds
    <3> QED BY <1>5, <3>1, <3>2, <3>3
  <2> QED BY <1>3, <2>1
<1> QED BY <1>4, <1>5

-----------------------------------------------------------------------------
(* The inductive invariant for any number of SBuses. *)

(* An SBus that has claimed its name and said so; it never claims another. *)
Spoke(i) == phase[i] \in {"active", "aborted"}

(* The contacts of i are others that spoke, at their server port, and the  *)
(* connection to one, if there is, is one that i opened.                   *)
ContactsOK(i, t) ==
  \A p \in Live(t) :
    LET r == t.peers[p]
    IN /\ r.addr.host # i /\ r.addr.port = "server" /\ Spoke(r.addr.host)
       /\ r.socket \in {NoFd, <<i, r.addr.host>>}

ListsOK ==
  /\ contacts \in [Node -> Table]
  /\ \A i \in Node : TableOK(contacts[i]) /\ ContactsOK(i, contacts[i])

(* Datagrams are from others that spoke, and none of them is a NAMETAKEN.  *)
AirOK ==
  \A d \in air : /\ d.msg.tag \in {"user", "manameis"}
                 /\ d.msg.addr.host # d.to /\ d.msg.addr.port = "server"
                 /\ Spoke(d.msg.addr.host)

(* Nothing but NAMETAKEN travels on connections.                           *)
OnlyNameTaken(w) ==
  \A l \in Link, i \in Node : \A k \in 1..Len(w[l][i]) : w[l][i][k].tag = "nametaken"

WireOK == wire \in [Link -> [Node -> Seq(Msg)]] /\ OnlyNameTaken(wire)

(* Whoever was on the bus when a name was claimed has been started.        *)
AudienceOK == \A i \in Node : \A j \in audience[i] : j # i /\ phase[j] # "off"

IInv == TypeOK /\ ListsOK /\ AirOK /\ WireOK /\ AudienceOK

(* It holds when nothing has been started.                                 *)
LEMMA InitIInv == Init => IInv
<1> SUFFICES ASSUME Init PROVE IInv
  OBVIOUS
<1>1. TypeOK
  BY TableStart, NodesAssumption DEF Init, TypeOK
<1>2. ListsOK
  BY TableStart DEF Init, ListsOK, ContactsOK
<1>3. AirOK /\ WireOK /\ AudienceOK
  BY DEF Init, AirOK, WireOK, OnlyNameTaken, AudienceOK
<1> QED BY <1>1, <1>2, <1>3 DEF IInv

(* An SBus that spoke goes on with the same name and audience.             *)
LEMMA SpokeStays ==
  ASSUME TypeOK, Next, NEW i \in Node, Spoke(i)
  PROVE  Spoke(i)' /\ name'[i] = name[i] /\ audience'[i] = audience[i]
<1>1. ASSUME NEW j \in Node, Start(j) PROVE Spoke(i)' /\ UNCHANGED <<name, audience>>
  BY <1>1 DEF Start, Spoke, TypeOK
<1>2. ASSUME NEW j \in Node, NEW n \in Claim, SetName(j, n) \/ SetNameFails(j, n)
      PROVE  Spoke(i)' /\ name'[i] = name[i] /\ audience'[i] = audience[i]
  BY <1>2, SMTT(30) DEF SetName, SetNameFails, Spoke, TypeOK
<1>3. ASSUME NEW j \in Node, Hear(j) PROVE Spoke(i)' /\ UNCHANGED <<name, audience>>
  BY <1>3 DEF Hear, HearDatagram, HearLink, HearEnd, Carry, Abort, Spoke, TypeOK
<1>4. ASSUME NEW d \in air, Lose(d) PROVE Spoke(i)' /\ UNCHANGED <<name, audience>>
  BY <1>4 DEF Lose, Spoke
<1> QED BY <1>1, <1>2, <1>3, <1>4 DEF Next
-----------------------------------------------------------------------------
(* What an answer does. *)

Wires == [Link -> [Node -> Seq(Msg)]]

(* A NAMETAKEN written to a connection that i opened to h.                 *)
LEMMA PutShape ==
  ASSUME NEW w \in Wires, OnlyNameTaken(w), NEW i \in Node, NEW h \in Node \ {i},
         name[i] \in AnyName, NEW v, v = Put(w, <<i, h>>, i)
  PROVE  /\ v \in Wires /\ OnlyNameTaken(v)
         /\ v[<<i, h>>][h] # <<>>
         /\ \A l \in Link, k \in Node : ~ (l = <<i, h>> /\ k = h) => v[l][k] = w[l][k]
<1> DEFINE L == <<i, h>>
           m == [tag |-> "nametaken", name |-> name[i], addr |-> [host |-> i, port |-> "client"]]
           q == Append(w[L][h], m)
<1>1. L \in Link /\ Other(L, i) = h
  BY DEF Link, Other
<1>2. m \in Msg /\ m.tag = "nametaken"
  BY DEF Msg, Addr
<1>3. v = [w EXCEPT ![L][h] = q]
  BY <1>1 DEF Put
<1> HIDE DEF L, m
<1>4. w[L][h] \in Seq(Msg)
  BY <1>1 DEF Wires
<1>5. /\ q \in Seq(Msg) /\ q # <<>> /\ Len(q) = Len(w[L][h]) + 1
      /\ q[Len(q)] = m /\ \A k \in 1..Len(w[L][h]) : q[k] = w[L][h][k]
  BY <1>2, <1>4
<1>6. \A k \in 1..Len(q) : q[k].tag = "nametaken"
  BY <1>1, <1>2, <1>4, <1>5 DEF OnlyNameTaken
<1> HIDE DEF q
<1>7. /\ v \in Wires /\ v[L][h] = q
      /\ \A l \in Link, k \in Node : ~ (l = L /\ k = h) => v[l][k] = w[l][k]
  <2>1. w[L] \in [Node -> Seq(Msg)] /\ h \in Node
    BY <1>1 DEF Wires
  <2>2. v = [w EXCEPT ![L] = [w[L] EXCEPT ![h] = q]]
    BY <1>1, <1>3 DEF Wires
  <2> HIDE DEF Wires
  <2>3. v[L] = [w[L] EXCEPT ![h] = q] /\ \A l \in Link \ {L} : v[l] = w[l]
    BY <1>1, <2>2 DEF Wires
  <2>4. v \in Wires
    <3> DEFINE g == [w[L] EXCEPT ![h] = q]
               S == [Node -> Seq(Msg)]
    <3>1. g \in S
      BY <1>5, <2>1
    <3> HIDE DEF g, S
    <3>2. w \in [Link -> S] /\ v = [w EXCEPT ![L] = g]
      BY <2>2 DEF Wires, S, g
    <3>3. v \in [Link -> S]
      BY <1>1, <3>1, <3>2
    <3> QED BY <3>3 DEF Wires, S
  <2> QED BY <2>1, <2>3, <2>4
<1>8. OnlyNameTaken(v)
  BY <1>6, <1>7 DEF OnlyNameTaken
<1> QED BY <1>5, <1>7, <1>8 DEF L

(* The connections of the contacts in t are open.                          *)
AllOpen(t, k) ==
  \A p \in Live(t) : t.peers[p].socket # NoFd => k[t.peers[p].socket] = "open"

(* An answer goes to the contact it is meant for, on the connection that i *)
(* opened to it; it is lost only if the other end is gone.                 *)
LEMMA ReplyShape ==
  ASSUME TypeOK, NEW i \in Node, NEW t, TableOK(t), ContactsOK(i, t),
         NEW p \in Live(t), NEW w, NEW o \in Replies(i, p, t, w)
  PROVE  LET h == t.peers[p].addr.host
         IN /\ h \in Node \ {i} /\ Spoke(h)
            /\ TableOK(o.contacts) /\ ContactsOK(i, o.contacts)
            /\ \/ o.link = link
               \/ o.link = [link EXCEPT ![<<i, h>>] = IF OnBus(h) THEN "open" ELSE "ended"]
            /\ o.wire = w \/ o.wire = Put(w, <<i, h>>, i)
            /\ OnBus(h) /\ AllOpen(t, link) =>
                 o.wire = Put(w, <<i, h>>, i) /\ AllOpen(o.contacts, o.link)
<1> DEFINE r == t.peers[p]
           h == r.addr.host
           L == <<i, h>>
<1>1. /\ r \in PeerInfo /\ h \in Node \ {i} /\ r.addr.port = "server" /\ Spoke(h)
      /\ r.socket \in {NoFd, L}
  BY TableOKType DEF ContactsOK, PeerInfo, Addr
<1>2. L \in Link /\ L \in AnySocket
  BY <1>1 DEF Link, AnySocket
<1>3. L # NoFd
  BY <1>2, DescriptorsAssumption
<1>4. CASE r.socket # NoFd
  <2>1. /\ o.contacts = t /\ o.link = link
        /\ o.wire = IF link[L] = "open" THEN Put(w, L, i) ELSE w
    BY <1>1, <1>4 DEF Replies
  <2>2. AllOpen(t, link) => link[L] = "open"
    BY <1>1, <1>4 DEF AllOpen
  <2> QED BY <1>1, <2>1, <2>2
<1>5. CASE r.socket = NoFd
  <2> DEFINE k == [link EXCEPT ![L] = IF OnBus(h) THEN "open" ELSE "ended"]
  <2>1. PICK u \in UpdateSockets(t, r, L, Now) :
          /\ o.contacts = u /\ o.link = k
          /\ o.wire = IF OnBus(h) THEN Put(w, L, i) ELSE w
    BY <1>1, <1>5 DEF Replies
  <2>2. /\ TableOK(u) /\ Live(u) = Live(t)
        /\ u.peers[p].socket = L /\ u.peers[p].addr = r.addr
        /\ \A q \in Live(t) \ {p} : u.peers[q] = t.peers[q]
    BY <1>2, <2>1, TableUpdateSocket
  <2> HIDE DEF r
  <2>3. ContactsOK(i, u)
    <3> SUFFICES ASSUME NEW q \in Live(t)
                 PROVE  /\ u.peers[q].addr.host # i /\ u.peers[q].addr.port = "server"
                        /\ Spoke(u.peers[q].addr.host)
                        /\ u.peers[q].socket \in {NoFd, <<i, u.peers[q].addr.host>>}
      BY <2>2 DEF ContactsOK
    <3>1. CASE q = p
      BY <1>1, <2>2, <3>1
    <3>2. CASE q # p
      BY <2>2, <3>2 DEF ContactsOK
    <3> QED BY <3>1, <3>2
  <2>4. ASSUME OnBus(h), AllOpen(t, link) PROVE AllOpen(u, k)
    <3>1. \A l \in Link : link[l] = "open" => k[l] = "open"
      BY <1>2, <2>4 DEF TypeOK
    <3>2. k[L] = "open"
      BY <1>2, <2>4 DEF TypeOK
    <3> SUFFICES ASSUME NEW q \in Live(t), u.peers[q].socket # NoFd
                 PROVE  k[u.peers[q].socket] = "open"
      BY <2>2 DEF AllOpen
    <3>3. CASE q = p
      BY <2>2, <3>2, <3>3
    <3>4. CASE q # p
      <4>1. u.peers[q] = t.peers[q]
        BY <2>2, <3>4
      <4>2. t.peers[q].addr.host \in Node \ {i}
        BY TableOKType DEF ContactsOK, PeerInfo, Addr
      <4>3. t.peers[q].socket = <<i, t.peers[q].addr.host>>
        BY <4>1 DEF ContactsOK
      <4>4. t.peers[q].socket \in Link
        BY <4>2, <4>3 DEF Link
      <4>5. link[t.peers[q].socket] = "open"
        BY <2>4, <4>1 DEF AllOpen
      <4> QED BY <3>1, <4>1, <4>4, <4>5
    <3> QED BY <3>3, <3>4
  <2>5. /\ TableOK(o.contacts) /\ ContactsOK(i, o.contacts)
        /\ o.link = k /\ o.wire \in {w, Put(w, L, i)}
    BY <2>1, <2>2, <2>3
  <2>6. OnBus(h) /\ AllOpen(t, link) =>
          o.wire = Put(w, L, i) /\ AllOpen(o.contacts, o.link)
    BY <2>1, <2>4
  <2> HIDE DEF h
  <2> QED BY <1>1, <2>5, <2>6 DEF r, h
<1> QED BY <1>4, <1>5
-----------------------------------------------------------------------------
(* What a step of the receiver does. *)

(* A datagram is handled: its sender may become a contact, and a claim to  *)
(* the receiver's name is answered to the contact found for its sender.    *)
LEMMA DatagramShape ==
  ASSUME IInv, NEW i \in Node, HearDatagram(i)
  PROVE  \E d \in air, h \in Node \ {i}, t \in Table :
           /\ phase[i] = "active" /\ d.to = i /\ Spoke(h)
           /\ contacts' = [contacts EXCEPT ![i] = t] /\ TableOK(t) /\ ContactsOK(i, t)
           /\ air' = (air \ {d}) \cup Hi(i)
           /\ greeted' = [greeted EXCEPT ![i] = TRUE]
           /\ UNCHANGED <<phase, name, lost, audience>>
           /\ \/ link' = link
              \/ link' = [link EXCEPT ![<<i, h>>] = IF OnBus(h) THEN "open" ELSE "ended"]
           /\ wire' = wire \/ (Taken(i, d.msg) /\ wire' = Put(wire, <<i, h>>, i))
           /\ OnBus(h) /\ AllOpen(contacts[i], link) =>
                AllOpen(t, link') /\ (Taken(i, d.msg) => wire' = Put(wire, <<i, h>>, i))
<1>1. PICK d \in air : d.to = i /\ Carry(i, Mc, d.msg, air \ {d}, wire)
  BY DEF HearDatagram
<1> DEFINE m == d.msg
<1>2. /\ m \in Msg /\ m.addr \in Addr /\ m.addr.host \in Node \ {i} /\ m.name \in AnyName
      /\ m.addr.port = "server" /\ Spoke(m.addr.host)
  BY <1>1 DEF IInv, TypeOK, AirOK, Msg, Addr
<1>3. TableOK(contacts[i]) /\ ContactsOK(i, contacts[i]) /\ name[i] \in AnyName
  BY DEF IInv, ListsOK, TypeOK, AnyName
<1> DEFINE Renamed(s) == IF m.tag = "user" THEN s.table
                         ELSE UpdateName(s.table, s.table.peers[s.peer], m.name, Now)
           Answers(s) == IF Taken(i, m) THEN Replies(i, s.peer, Renamed(s), wire)
                         ELSE NoReply(Renamed(s), wire)
<1>4. PICK s \in Senders(contacts[i], Mc, Mc, m.addr, name[i], Now) :
        \E o \in Answers(s) : /\ contacts' = [contacts EXCEPT ![i] = o.contacts]
                              /\ link' = o.link /\ wire' = o.wire
  BY <1>1 DEF Carry
<1>5. PICK o \in Answers(s) : /\ contacts' = [contacts EXCEPT ![i] = o.contacts]
                              /\ link' = o.link /\ wire' = o.wire
  BY <1>4
<1> DEFINE t == Renamed(s)
<1>6. /\ TableOK(s.table) /\ s.peer \in Live(s.table)
      /\ ContactsOK(i, s.table)
      /\ AllOpen(contacts[i], link) => AllOpen(s.table, link)
  <2>1. /\ TableOK(s.table) /\ s.peer \in Live(s.table)
        /\ \A p \in Live(s.table) :
              \/ p \in Live(contacts[i]) /\ s.table.peers[p] = contacts[i].peers[p]
              \/ s.table.peers[p].addr = m.addr /\ s.table.peers[p].socket = NoFd
    <3> HIDE DEF m
    <3> QED BY <1>2, <1>3, TableDatagram
  <2>2. ContactsOK(i, s.table)
    BY <1>2, <1>3, <2>1 DEF ContactsOK
  <2>3. AllOpen(contacts[i], link) => AllOpen(s.table, link)
    BY <2>1 DEF AllOpen
  <2> QED BY <2>1, <2>2, <2>3
<1>7. /\ TableOK(t) /\ s.peer \in Live(t) /\ ContactsOK(i, t)
      /\ AllOpen(contacts[i], link) => AllOpen(t, link)
  <2>1. CASE m.tag = "user"
    BY <1>6, <2>1
  <2>2. CASE m.tag # "user"
    <3>1. t = UpdateName(s.table, s.table.peers[s.peer], m.name, Now)
      BY <2>2
    <3> HIDE DEF t, m
    <3>2. /\ TableOK(t) /\ Live(t) = Live(s.table)
          /\ \A q \in Live(t) : /\ t.peers[q].socket = s.table.peers[q].socket
                                /\ t.peers[q].addr = s.table.peers[q].addr
      <4>1. TableOK(s.table) /\ s.peer \in Live(s.table) /\ m.name \in AnyName
        BY <1>2, <1>6
      <4> QED BY <3>1, <4>1, TableRename
    <3>3. ContactsOK(i, t)
      BY <1>6, <3>2 DEF ContactsOK
    <3>4. AllOpen(s.table, link) => AllOpen(t, link)
      BY <3>2 DEF AllOpen
    <3> QED BY <1>6, <3>2, <3>3, <3>4
  <2> QED BY <2>1, <2>2
<1>8. /\ phase[i] = "active" /\ air' = (air \ {d}) \cup Hi(i)
      /\ greeted' = [greeted EXCEPT ![i] = TRUE]
      /\ UNCHANGED <<phase, name, lost, audience>>
  BY <1>1 DEF HearDatagram, Carry
<1>9. CASE ~ Taken(i, m)
  <2>1. o.contacts = t /\ o.link = link /\ o.wire = wire
    BY <1>9 DEF NoReply
  <2>2. AllOpen(contacts[i], link) => AllOpen(o.contacts, link')
    BY <1>5, <1>7, <2>1
  <2>3. o.contacts \in Table
    BY <1>7, <2>1, TableOKType
  <2> HIDE DEF t, m
  <2> QED BY <1>1, <1>2, <1>5, <1>7, <1>8, <1>9, <2>1, <2>2, <2>3 DEF m
<1>10. CASE Taken(i, m)
  <2> DEFINE h == t.peers[s.peer].addr.host
  <2>1. o \in Replies(i, s.peer, t, wire)
    BY <1>10
  <2> HIDE DEF t, m
  <2>2. /\ h \in Node \ {i} /\ Spoke(h)
        /\ TableOK(o.contacts) /\ ContactsOK(i, o.contacts)
        /\ \/ o.link = link
           \/ o.link = [link EXCEPT ![<<i, h>>] = IF OnBus(h) THEN "open" ELSE "ended"]
        /\ o.wire = wire \/ o.wire = Put(wire, <<i, h>>, i)
        /\ OnBus(h) /\ AllOpen(t, link) =>
             o.wire = Put(wire, <<i, h>>, i) /\ AllOpen(o.contacts, o.link)
    BY <1>7, <2>1, ReplyShape DEF IInv
  <2>3. o.contacts \in Table
    BY <2>2, TableOKType
  <2> HIDE DEF h
  <2> QED BY <1>1, <1>5, <1>7, <1>8, <1>10, <2>2, <2>3 DEF m
<1> QED BY <1>9, <1>10
(* A NAMETAKEN is the only thing heard on a connection; the program ends,  *)
(* and of what is on its way to others nothing changes but that some of it *)
(* may be lost.                                                            *)
LEMMA LinkShape ==
  ASSUME IInv, NEW i \in Node, NEW l \in Link, HearLink(i, l)
  PROVE  /\ phase[i] = "active" /\ wire[l][i] # <<>>
         /\ phase' = [phase EXCEPT ![i] = "aborted"]
         /\ contacts' = [contacts EXCEPT ![i] = EmptyTable]
         /\ wire' \in Wires
         /\ \A k \in Link, j \in Node :
              wire'[k][j] = <<>> \/ (j # i /\ wire'[k][j] = wire[k][j])
         /\ air' \subseteq air \cup Hi(i) /\ \A d \in air : d.to # i => d \in air'
         /\ link' \in [Link -> {"none", "open", "ended"}]
         /\ UNCHANGED <<name, greeted, lost, audience>>
<1> DEFINE m == Head(wire[l][i])
           w == [wire EXCEPT ![l][i] = Tail(@)]
<1>1. phase[i] = "active" /\ wire[l][i] # <<>>
  BY DEF HearLink
<1>2. wire \in Wires /\ wire[l][i] \in Seq(Msg)
  BY DEF IInv, WireOK, Wires
<1>3. m.tag = "nametaken"
  <2>1. Len(wire[l][i]) \in Nat \ {0} /\ m = wire[l][i][1]
    BY <1>1, <1>2
  <2>2. wire[l][i][1].tag = "nametaken"
    BY <2>1 DEF IInv, WireOK, OnlyNameTaken
  <2> QED BY <2>1, <2>2
<1>4. /\ Abort(i, m, w)
      /\ air' \in {{d \in air : d.to # i}, {d \in air : d.to # i} \cup Hi(i)}
  BY <1>3 DEF HearLink, Carry
<1>5. \A k \in Link, j \in Node \ {i} : w[k][j] = wire[k][j] /\ wire[k][j] \in Seq(Msg)
  BY <1>2 DEF Wires
<1> HIDE DEF w, m
<1>6. PICK reset \in SUBSET {k \in Link : w[k][i] # <<>>} :
        wire' = [k \in Link |-> [j \in Node |->
                   IF j = i \/ k \in reset THEN <<>> ELSE w[k][j]]]
  BY <1>4 DEF Abort
<1>7. \A k \in Link, j \in Node :
        wire'[k][j] = <<>> \/ (j # i /\ wire'[k][j] = wire[k][j])
  BY <1>5, <1>6
<1>8. wire' \in Wires
  <2>1. \A k \in Link, j \in Node :
          (IF j = i \/ k \in reset THEN <<>> ELSE w[k][j]) \in Seq(Msg)
    BY <1>5
  <2> QED BY <1>6, <2>1 DEF Wires
<1>9. link' \in [Link -> {"none", "open", "ended"}]
  BY <1>4 DEF Abort, IInv, TypeOK
<1> QED BY <1>1, <1>4, <1>7, <1>8, <1>9 DEF Abort

(* The end of a connection: its contact, if it has one, loses it.          *)
LEMMA EndShape ==
  ASSUME IInv, NEW i \in Node, NEW l \in Link, HearEnd(i, l)
  PROVE  /\ link[l] = "ended" /\ link' = [link EXCEPT ![l] = "none"]
         /\ \E t : contacts' = [contacts EXCEPT ![i] = t] /\ TableOK(t) /\ ContactsOK(i, t)
         /\ UNCHANGED <<phase, name, greeted, air, lost, wire, audience>>
<1> DEFINE r == contacts[i].socket2peer[l]
<1>1. /\ link[l] = "ended" /\ link' = [link EXCEPT ![l] = "none"]
      /\ UNCHANGED <<phase, name, greeted, air, lost, wire, audience>>
      /\ IF r = Null
         THEN UNCHANGED contacts
         ELSE \E t \in UpdateSockets(contacts[i], r, NoFd, Now) :
                contacts' = [contacts EXCEPT ![i] = t]
  BY DEF HearEnd
<1>2. /\ TableOK(contacts[i]) /\ ContactsOK(i, contacts[i])
      /\ contacts \in [Node -> Table]
  BY DEF IInv, ListsOK
<1>3. CASE r = Null
  <2>1. contacts' = [contacts EXCEPT ![i] = contacts[i]]
    BY <1>1, <1>2, <1>3
  <2> QED BY <1>1, <1>2, <2>1
<1>4. CASE r # Null
  <2>1. l \in AnySocket /\ NoFd \in AnySocket
    BY DEF AnySocket
  <2>2. PICK p \in Live(contacts[i]) : r = contacts[i].peers[p]
    BY <1>2, <1>4, <2>1, TableOKType
  <2>3. PICK t \in UpdateSockets(contacts[i], contacts[i].peers[p], NoFd, Now) :
          contacts' = [contacts EXCEPT ![i] = t]
    BY <1>1, <1>4, <2>2
  <2>4. /\ TableOK(t) /\ Live(t) = Live(contacts[i])
        /\ t.peers[p].socket = NoFd /\ t.peers[p].addr = contacts[i].peers[p].addr
        /\ \A q \in Live(contacts[i]) \ {p} : t.peers[q] = contacts[i].peers[q]
    BY <1>2, <2>1, <2>3, TableUpdateSocket
  <2>5. ContactsOK(i, t)
    <3> SUFFICES ASSUME NEW q \in Live(t)
                 PROVE  /\ t.peers[q].addr.host # i /\ t.peers[q].addr.port = "server"
                        /\ Spoke(t.peers[q].addr.host)
                        /\ t.peers[q].socket \in {NoFd, <<i, t.peers[q].addr.host>>}
      BY DEF ContactsOK
    <3>1. CASE q = p
      BY <1>2, <2>4, <3>1 DEF ContactsOK
    <3>2. CASE q # p
      BY <1>2, <2>4, <3>2 DEF ContactsOK
    <3> QED BY <3>1, <3>2
  <2> HIDE DEF r
  <2> QED BY <1>1, <2>3, <2>4, <2>5
<1> QED BY <1>3, <1>4

(* What a multicast puts on the air.                                       *)
LEMMA DatagramsShape ==
  ASSUME NEW i \in Node, NEW tag \in {"user", "manameis"}, NEW n \in AnyName,
         NEW d \in Datagrams(i, tag, n)
  PROVE  /\ d \in [to : Node, msg : Msg] /\ d.to \in Node \ {i} /\ OnBus(d.to)
         /\ d.msg.tag = tag /\ d.msg.name = n
         /\ d.msg.addr.host = i /\ d.msg.addr.port = "server"
BY DEF Datagrams, Msg, Addr
-----------------------------------------------------------------------------
(* The invariant is inductive. *)

(* The greeting: like any multicast.                                       *)
LEMMA HiShape ==
  ASSUME NEW i \in Node, NEW d \in Hi(i)
  PROVE  /\ d \in [to : Node, msg : Msg] /\ d.to \in Node \ {i} /\ OnBus(d.to)
         /\ d.msg.tag = "user"
         /\ d.msg.addr.host = i /\ d.msg.addr.port = "server"
<1>1. d \in Datagrams(i, "user", EmptyName)
  BY DEF Hi
<1>2. EmptyName \in AnyName
  BY DEF AnyName
<1> QED BY <1>1, <1>2, DatagramsShape

(* Contacts stay in order if only the list of one node changes, to one in  *)
(* order.                                                                  *)
LEMMA ListsKept ==
  ASSUME IInv, Next, NEW i \in Node, NEW t,
         contacts' = [contacts EXCEPT ![i] = t], TableOK(t), ContactsOK(i, t)
  PROVE  ListsOK' /\ \A j \in Node : contacts'[j] \in Table
<1>1. ASSUME NEW j \in Node, NEW u, TableOK(u), ContactsOK(j, u) PROVE ContactsOK(j, u)'
  <2> SUFFICES ASSUME NEW p \in Live(u)
               PROVE  /\ u.peers[p].addr.host # j /\ u.peers[p].addr.port = "server"
                      /\ Spoke(u.peers[p].addr.host)'
                      /\ u.peers[p].socket \in {NoFd, <<j, u.peers[p].addr.host>>}
    BY DEF ContactsOK
  <2>1. u.peers[p].addr.host \in Node
    BY <1>1, TableOKType DEF PeerInfo, Addr
  <2> QED BY <1>1, <2>1, SpokeStays DEF IInv, ContactsOK
<1>2. t \in Table
  BY TableOKType
<1>3. /\ contacts' \in [Node -> Table]
      /\ \A j \in Node : TableOK(contacts'[j]) /\ ContactsOK(j, contacts'[j])
  BY <1>2 DEF IInv, ListsOK
<1>4. \A j \in Node : ContactsOK(j, contacts[j])'
  <2> SUFFICES ASSUME NEW j \in Node PROVE ContactsOK(j, contacts[j])'
    OBVIOUS
  <2>1. PICK u : u = contacts'[j] /\ TableOK(u) /\ ContactsOK(j, u)
    BY <1>3
  <2>2. ContactsOK(j, u)'
    BY <1>1, <2>1
  <2> QED BY <2>1, <2>2 DEF ContactsOK
<1> QED BY <1>3, <1>4 DEF ListsOK, TableOK
(* The air stays in order if what is put there is from one that spoke.     *)
LEMMA AirKept ==
  ASSUME IInv, Next,
         NEW i \in Node, Spoke(i)',
         \A d \in air' \ air : /\ d \in [to : Node, msg : Msg] /\ d.to # i
                               /\ d.msg.tag \in {"user", "manameis"}
                               /\ d.msg.addr.host = i /\ d.msg.addr.port = "server"
  PROVE  AirOK' /\ air' \subseteq [to : Node, msg : Msg]
<1>1. \A d \in air : d \in [to : Node, msg : Msg] /\ d.msg.addr.host \in Node
  BY DEF IInv, TypeOK, Msg, Addr
<1>2. ASSUME NEW d \in air
      PROVE  /\ d.msg.tag \in {"user", "manameis"}
             /\ d.msg.addr.host # d.to /\ d.msg.addr.port = "server"
             /\ Spoke(d.msg.addr.host)'
  BY <1>1, SpokeStays DEF IInv, AirOK
<1>3. \A d \in air' : /\ d.msg.tag \in {"user", "manameis"}
                      /\ d.msg.addr.host # d.to /\ d.msg.addr.port = "server"
                      /\ Spoke(d.msg.addr.host)'
  BY <1>2
<1>4. AirOK'
  BY <1>3 DEF AirOK
<1> QED BY <1>1, <1>4

(* Whoever was started has been started.                                   *)
LEMMA StartedStays ==
  ASSUME TypeOK, Next, NEW j \in Node, phase[j] # "off" PROVE phase'[j] # "off"
<1>1. ASSUME NEW i \in Node, Start(i) PROVE phase'[j] # "off"
  BY <1>1 DEF Start, TypeOK
<1>2. ASSUME NEW i \in Node, NEW n \in Claim, SetName(i, n) \/ SetNameFails(i, n)
      PROVE  phase'[j] # "off"
  BY <1>2, SMTT(30) DEF SetName, SetNameFails, TypeOK
<1>3. ASSUME NEW i \in Node, Hear(i) PROVE phase'[j] # "off"
  BY <1>3 DEF Hear, HearDatagram, HearLink, HearEnd, Carry, Abort, TypeOK
<1>4. ASSUME NEW d \in air, Lose(d) PROVE phase'[j] # "off"
  BY <1>4 DEF Lose
<1> QED BY <1>1, <1>2, <1>3, <1>4 DEF Next

(* If no list changes, or only phases of nodes that say nothing.           *)
LEMMA ListsUnchanged ==
  ASSUME IInv, Next, UNCHANGED contacts, NEW i \in Node
  PROVE  ListsOK' /\ \A j \in Node : contacts'[j] \in Table
<1>1. /\ TableOK(contacts[i]) /\ ContactsOK(i, contacts[i])
      /\ contacts' = [contacts EXCEPT ![i] = contacts[i]]
  BY DEF IInv, ListsOK
<1> QED BY <1>1, ListsKept

(* Claiming a name.                                                        *)
LEMMA SetNameKeepsIInv ==
  ASSUME IInv, Next, NEW i \in Node, NEW n \in Claim, SetName(i, n)
  PROVE  IInv'
<1>1. /\ phase' = [phase EXCEPT ![i] = "active"] /\ name' = [name EXCEPT ![i] = n]
      /\ air' = air \cup Datagrams(i, "manameis", n)
      /\ audience' = [audience EXCEPT ![i] = {j \in Node \ {i} : OnBus(j)}]
      /\ UNCHANGED <<contacts, greeted, lost, link, wire>>
  BY DEF SetName
<1>2. Spoke(i)' /\ n \in AnyName
  BY <1>1 DEF Spoke, IInv, TypeOK, AnyName
<1>3. ListsOK' /\ \A j \in Node : contacts'[j] \in Table
  BY <1>1, ListsUnchanged
<1>4. AirOK' /\ air' \subseteq [to : Node, msg : Msg]
  BY <1>1, <1>2, DatagramsShape, AirKept
<1>5. TypeOK'
  BY <1>1, <1>3, <1>4 DEF IInv, TypeOK
<1>6. WireOK'
  BY <1>1 DEF IInv, WireOK, OnlyNameTaken
<1>7. AudienceOK'
  <2> SUFFICES ASSUME NEW j \in Node, NEW k \in audience'[j]
               PROVE  k # j /\ phase'[k] # "off"
    BY DEF AudienceOK
  <2>1. CASE j = i
    <3>1. k \in Node \ {i} /\ OnBus(k)
      BY <1>1, <2>1 DEF IInv, TypeOK
    <3> QED BY <2>1, <3>1, StartedStays DEF OnBus, IInv
  <2>2. CASE j # i
    <3>1. k \in audience[j] /\ k \in Node
      BY <1>1, <2>2 DEF IInv, TypeOK
    <3> QED BY <3>1, StartedStays DEF IInv, AudienceOK
  <2> QED BY <2>1, <2>2
<1> QED BY <1>3, <1>4, <1>5, <1>6, <1>7 DEF IInv

(* The audience of a claim is settled when it is made.                     *)
LEMMA AudienceKept ==
  ASSUME IInv, Next, UNCHANGED audience PROVE AudienceOK'
<1> SUFFICES ASSUME NEW j \in Node, NEW k \in audience[j]
             PROVE  k # j /\ phase'[k] # "off"
  BY DEF AudienceOK
<1>1. k \in Node
  BY DEF IInv, TypeOK
<1> QED BY <1>1, StartedStays DEF IInv, AudienceOK

(* Starting, failing to claim a name, and a datagram that is lost.         *)
LEMMA QuietStepKeepsIInv ==
  ASSUME IInv, Next, NEW i \in Node,
         \/ Start(i)
         \/ \E n \in Claim : SetNameFails(i, n)
         \/ \E d \in air : Lose(d)
  PROVE  IInv'
<1>1. /\ UNCHANGED <<contacts, greeted, link, wire, audience>> /\ air' \subseteq air
      /\ phase' \in [Node -> {"off", "joined", "active", "failed", "aborted"}]
      /\ name' \in [Node -> Claim \cup Node] /\ lost' \in 0..MaxLost
  <2>1. CASE Start(i)
    BY <2>1 DEF Start, IInv, TypeOK
  <2>2. CASE \E n \in Claim : SetNameFails(i, n)
    BY <2>2 DEF SetNameFails, IInv, TypeOK
  <2>3. CASE \E d \in air : Lose(d)
    BY <2>3, NodesAssumption DEF Lose, IInv, TypeOK
  <2> QED BY <2>1, <2>2, <2>3
<1>2. ListsOK' /\ \A j \in Node : contacts'[j] \in Table
  BY <1>1, ListsUnchanged
<1>3. AirOK' /\ air' \subseteq [to : Node, msg : Msg]
  <2>1. \A d \in air : d.msg.addr.host \in Node /\ Spoke(d.msg.addr.host)'
    <3>1. \A d \in air : d.msg.addr.host \in Node /\ Spoke(d.msg.addr.host)
      BY DEF IInv, TypeOK, AirOK, Msg, Addr
    <3> QED BY <3>1, SpokeStays DEF IInv
  <2> QED BY <1>1, <2>1 DEF IInv, TypeOK, AirOK
<1>4. TypeOK'
  BY <1>1, <1>2, <1>3 DEF IInv, TypeOK
<1>5. WireOK'
  BY <1>1 DEF IInv, WireOK, OnlyNameTaken
<1> QED BY <1>1, <1>2, <1>3, <1>4, <1>5, AudienceKept DEF IInv

(* Hearing something.                                                      *)
LEMMA HearKeepsIInv ==
  ASSUME IInv, Next, NEW i \in Node, Hear(i)
  PROVE  IInv'
<1>1. CASE HearDatagram(i)
  <2>1. PICK d \in air, h \in Node \ {i}, t \in Table :
           /\ phase[i] = "active" /\ d.to = i /\ Spoke(h)
           /\ contacts' = [contacts EXCEPT ![i] = t] /\ TableOK(t) /\ ContactsOK(i, t)
           /\ air' = (air \ {d}) \cup Hi(i)
           /\ greeted' = [greeted EXCEPT ![i] = TRUE]
           /\ UNCHANGED <<phase, name, lost, audience>>
           /\ \/ link' = link
              \/ link' = [link EXCEPT ![<<i, h>>] = IF OnBus(h) THEN "open" ELSE "ended"]
           /\ wire' = wire \/ (Taken(i, d.msg) /\ wire' = Put(wire, <<i, h>>, i))
    BY <1>1, DatagramShape
  <2>2. ListsOK' /\ \A j \in Node : contacts'[j] \in Table
    BY <2>1, ListsKept
  <2>3. AirOK' /\ air' \subseteq [to : Node, msg : Msg]
    <3>1. Spoke(i)'
      BY <2>1 DEF Spoke
    <3> QED BY <2>1, <3>1, HiShape, AirKept
  <2>4. wire' \in Wires /\ OnlyNameTaken(wire')
    <3>1. wire \in Wires /\ OnlyNameTaken(wire) /\ name[i] \in AnyName
      BY DEF IInv, WireOK, Wires, TypeOK, AnyName
    <3> QED BY <2>1, <3>1, PutShape
  <2>5. WireOK'
    BY <2>4 DEF WireOK, OnlyNameTaken, Wires
  <2>6. TypeOK'
    <3>1. greeted' \in [Node -> BOOLEAN] /\ link' \in [Link -> {"none", "open", "ended"}]
      BY <2>1 DEF IInv, TypeOK
    <3> QED BY <2>1, <2>2, <2>3, <2>4, <3>1 DEF IInv, TypeOK, Wires
  <2> QED BY <2>1, <2>2, <2>3, <2>5, <2>6, AudienceKept DEF IInv
<1>2. ASSUME NEW l \in Link, HearLink(i, l) PROVE IInv'
  <2>1. /\ phase[i] = "active"
        /\ phase' = [phase EXCEPT ![i] = "aborted"]
        /\ contacts' = [contacts EXCEPT ![i] = EmptyTable]
        /\ wire' \in Wires
        /\ \A k \in Link, j \in Node :
             wire'[k][j] = <<>> \/ (j # i /\ wire'[k][j] = wire[k][j])
        /\ air' \subseteq air \cup Hi(i)
        /\ link' \in [Link -> {"none", "open", "ended"}]
        /\ UNCHANGED <<name, greeted, lost, audience>>
    BY <1>2, LinkShape
  <2>2. ListsOK' /\ \A j \in Node : contacts'[j] \in Table
    BY <2>1, TableStart, ListsKept DEF ContactsOK
  <2>3. AirOK' /\ air' \subseteq [to : Node, msg : Msg]
    <3>1. Spoke(i)'
      BY <2>1 DEF Spoke, IInv, TypeOK
    <3> QED BY <2>1, <3>1, HiShape, AirKept
  <2>4. WireOK'
    BY <2>1 DEF IInv, WireOK, OnlyNameTaken, Wires
  <2>5. TypeOK'
    BY <2>1, <2>2, <2>3 DEF IInv, TypeOK, Wires
  <2> QED BY <2>1, <2>2, <2>3, <2>4, <2>5, AudienceKept DEF IInv
<1>3. ASSUME NEW l \in Link, HearEnd(i, l) PROVE IInv'
  <2>1. PICK t : contacts' = [contacts EXCEPT ![i] = t] /\ TableOK(t) /\ ContactsOK(i, t)
    BY <1>3, EndShape
  <2>2. /\ link' = [link EXCEPT ![l] = "none"]
        /\ UNCHANGED <<phase, name, greeted, air, lost, wire, audience>>
    BY <1>3, EndShape
  <2>3. ListsOK' /\ \A j \in Node : contacts'[j] \in Table
    BY <2>1, ListsKept
  <2>4. TypeOK' /\ AirOK' /\ WireOK'
    BY <2>2, <2>3 DEF IInv, TypeOK, AirOK, WireOK, OnlyNameTaken, Spoke
  <2> QED BY <2>2, <2>3, <2>4, AudienceKept DEF IInv
<1> QED BY <1>1, <1>2, <1>3 DEF Hear

(* Every step keeps the invariant.                                         *)
LEMMA NextKeepsIInv == IInv /\ [Next]_vars => IInv'
<1> SUFFICES ASSUME IInv, [Next]_vars PROVE IInv'
  OBVIOUS
<1>1. CASE UNCHANGED vars
  <2>1. UNCHANGED <<phase, name, contacts, greeted, air, lost, link, wire, audience>>
    BY <1>1 DEF vars
  <2>2. TypeOK'
    BY <2>1 DEF IInv, TypeOK
  <2>3. ListsOK'
    BY <2>1 DEF IInv, ListsOK, ContactsOK, Spoke
  <2>4. AirOK' /\ AudienceOK'
    BY <2>1 DEF IInv, AirOK, AudienceOK, Spoke
  <2>5. WireOK'
    BY <2>1 DEF IInv, WireOK, OnlyNameTaken
  <2> QED BY <2>2, <2>3, <2>4, <2>5 DEF IInv
<1>2. CASE Next
  <2>1. ASSUME NEW i \in Node, NEW n \in Claim, SetName(i, n) PROVE IInv'
    BY <1>2, <2>1, SetNameKeepsIInv
  <2>2. ASSUME NEW i \in Node, Start(i) \/ \E n \in Claim : SetNameFails(i, n) PROVE IInv'
    BY <1>2, <2>2, QuietStepKeepsIInv
  <2>3. ASSUME NEW d \in air, Lose(d) PROVE IInv'
    <3>1. d.to \in Node
      BY DEF IInv, TypeOK
    <3> QED BY <1>2, <2>3, <3>1, QuietStepKeepsIInv
  <2>4. ASSUME NEW i \in Node, Hear(i) PROVE IInv'
    BY <1>2, <2>4, HearKeepsIInv
  <2> QED BY <1>2, <2>1, <2>2, <2>3, <2>4 DEF Next
<1> QED BY <1>1, <1>2

(* The invariant holds for ever.                                           *)
LEMMA IInvIsInvariant == Spec => []IInv
BY InitIInv, NextKeepsIInv, PTL DEF Spec

(* Whatever the number of SBuses and whatever is lost or reordered, the    *)
(* contact lists, the connections and the messages are what they should    *)
(* be.                                                                     *)
THEOREM TypeCorrect == Spec => []TypeOK
<1>1. IInv => TypeOK
  BY DEF IInv
<1> QED BY <1>1, IInvIsInvariant, PTL
-----------------------------------------------------------------------------
(* Nobody gives up unless two SBuses have claimed the same name. *)

(* A claim on its way is its sender's, to one that was on the bus.         *)
ClaimsOK ==
  \A d \in air : d.msg.tag = "manameis" =>
    /\ name[d.msg.addr.host] = d.msg.name
    /\ d.to \in audience[d.msg.addr.host]

Rival(i) == \E j \in audience[i] : Spoke(j) /\ name[j] = name[i]

Warned(i) == \E l \in Link : wire[l][i] # <<>>
NobodyGone == \A i \in Node : phase[i] # "aborted"

(* Two SBuses have claimed the same name, one when the other was there.    *)
SomeClash == \E i \in Node : Spoke(i) /\ Rival(i)

(* A NAMETAKEN is sent, and a program gives up, only if there is a clash   *)
(* on the bus, though not always the one between the two that are talking. *)
NoFalseAlarm == ~ NobodyGone => SomeClash

AlarmInv == ClaimsOK /\ NoFalseAlarm /\ ((\E i \in Node : Warned(i)) => SomeClash)

(* A rival remains one.                                                    *)
LEMMA RivalStays ==
  ASSUME TypeOK, Next, NEW i \in Node, Spoke(i), Rival(i) PROVE Rival(i)'
<1>1. PICK j \in audience[i] : Spoke(j) /\ name[j] = name[i]
  BY DEF Rival
<1>2. j \in Node
  BY DEF TypeOK
<1>3. /\ Spoke(j)' /\ name'[j] = name[j]
      /\ name'[i] = name[i] /\ audience'[i] = audience[i]
  BY <1>1, <1>2, SpokeStays
<1> QED BY <1>1, <1>3 DEF Rival

(* A datagram is from another SBus, one that spoke.                        *)
LEMMA AirHosts ==
  ASSUME IInv, NEW d \in air
  PROVE  /\ d.to \in Node /\ d.msg.addr.host \in Node /\ d.msg.addr.host # d.to
         /\ Spoke(d.msg.addr.host)
BY DEF IInv, TypeOK, AirOK, Msg, Addr

(* A claim stays true of its sender while it is on its way.                *)
LEMMA ClaimsKept ==
  ASSUME IInv, ClaimsOK, Next PROVE ClaimsOK'
<1>1. ASSUME NEW d \in air, d.msg.tag = "manameis"
      PROVE  /\ name'[d.msg.addr.host] = d.msg.name
             /\ d.to \in audience'[d.msg.addr.host]
  <2>1. d.msg.addr.host \in Node /\ Spoke(d.msg.addr.host)
    BY AirHosts
  <2> QED BY <1>1, <2>1, SpokeStays DEF IInv, ClaimsOK
<1> SUFFICES ASSUME NEW d \in air', d \notin air, d.msg.tag = "manameis"
             PROVE  /\ name'[d.msg.addr.host] = d.msg.name
                    /\ d.to \in audience'[d.msg.addr.host]
  BY <1>1 DEF ClaimsOK
<1>2. ASSUME NEW i \in Node, NEW n \in Claim, SetName(i, n)
      PROVE  /\ name'[d.msg.addr.host] = d.msg.name
             /\ d.to \in audience'[d.msg.addr.host]
  <2>1. d \in Datagrams(i, "manameis", n) /\ n \in AnyName
    BY <1>2 DEF SetName, AnyName
  <2>2. d.to \in Node \ {i} /\ OnBus(d.to) /\ d.msg.name = n /\ d.msg.addr.host = i
    BY <2>1, DatagramsShape
  <2>3. name'[i] = n /\ audience'[i] = {j \in Node \ {i} : OnBus(j)}
    BY <1>2 DEF SetName, IInv, TypeOK
  <2> QED BY <2>2, <2>3
<1>3. ASSUME NEW i \in Node, Hear(i) PROVE FALSE
  <2>1. d \in Hi(i)
    <3>1. CASE HearDatagram(i)
      <4>1. PICK e \in air : Carry(i, Mc, e.msg, air \ {e}, wire)
        BY <3>1 DEF HearDatagram
      <4>2. air' = (air \ {e}) \cup Hi(i)
        BY <4>1 DEF Carry
      <4> QED BY <4>2
    <3>2. ASSUME NEW l \in Link, HearLink(i, l) PROVE d \in Hi(i)
      BY <3>2, LinkShape
    <3>3. ASSUME NEW l \in Link, HearEnd(i, l) PROVE FALSE
      BY <3>3 DEF HearEnd
    <3> QED BY <1>3, <3>1, <3>2, <3>3 DEF Hear
  <2> QED BY <2>1, HiShape
<1>4. ASSUME NEW i \in Node, Start(i) \/ \E n \in Claim : SetNameFails(i, n) PROVE FALSE
  BY <1>4 DEF Start, SetNameFails
<1>5. ASSUME NEW e \in air, Lose(e) PROVE FALSE
  BY <1>5 DEF Lose
<1> QED BY <1>2, <1>3, <1>4, <1>5 DEF Next

(* Nothing is put on a connection but an answer to a claim.                *)
LEMMA NewWarnings ==
  ASSUME IInv, Next, NEW l \in Link, NEW k \in Node,
         wire'[l][k] # <<>>, wire[l][k] = <<>>
  PROVE  \E i \in Node \ {k} : \E d \in air :
           d.to = i /\ phase[i] = "active" /\ Taken(i, d.msg) /\ Spoke(k)
<1>1. PICK i \in Node : Hear(i)
  BY DEF Next, Start, SetName, SetNameFails, Lose
<1>2. CASE HearDatagram(i)
  <2>1. PICK d \in air, h \in Node \ {i} :
          /\ phase[i] = "active" /\ d.to = i /\ Spoke(h)
          /\ wire' = wire \/ (Taken(i, d.msg) /\ wire' = Put(wire, <<i, h>>, i))
    BY <1>2, DatagramShape
  <2>2. Taken(i, d.msg) /\ wire' = Put(wire, <<i, h>>, i)
    BY <2>1
  <2>3. wire \in Wires /\ OnlyNameTaken(wire) /\ name[i] \in AnyName
    BY DEF IInv, WireOK, Wires, TypeOK, AnyName
  <2>4. k = h
    BY <2>2, <2>3, PutShape
  <2> QED BY <2>1, <2>2, <2>4
<1>3. ASSUME NEW m \in Link, HearLink(i, m) PROVE FALSE
  BY <1>3, LinkShape
<1>4. ASSUME NEW m \in Link, HearEnd(i, m) PROVE FALSE
  BY <1>4 DEF HearEnd
<1> QED BY <1>1, <1>2, <1>3, <1>4 DEF Hear

(* Whoever gives up had been told to.                                      *)
LEMMA NewlyGone ==
  ASSUME IInv, Next, NEW k \in Node, phase[k] # "aborted", phase'[k] = "aborted"
  PROVE  Warned(k)
<1>1. PICK i \in Node : Hear(i)
  BY DEF Next, Start, SetName, SetNameFails, Lose, IInv, TypeOK
<1>2. ~ HearDatagram(i) /\ \A l \in Link : ~ HearEnd(i, l)
  BY DEF HearDatagram, HearEnd, Carry
<1>3. PICK l \in Link : HearLink(i, l)
  BY <1>1, <1>2 DEF Hear
<1>4. k = i
  BY <1>3, LinkShape DEF IInv, TypeOK
<1> QED BY <1>3, <1>4, LinkShape DEF Warned

(* A clash remains one.                                                    *)
LEMMA SomeClashStays ==
  ASSUME TypeOK, Next, SomeClash PROVE SomeClash'
BY SpokeStays, RivalStays DEF SomeClash

(* An answer is written to a claim of the writer's own name, by one that   *)
(* was there when it was made: the claimant and the writer clash.          *)
LEMMA AnswerMeansClash ==
  ASSUME IInv, ClaimsOK, NEW i \in Node, NEW d \in air,
         d.to = i, phase[i] = "active", Taken(i, d.msg)
  PROVE  /\ Spoke(d.msg.addr.host) /\ Rival(d.msg.addr.host)
         /\ SomeClash
<1>1. d.msg.addr.host \in Node /\ Spoke(d.msg.addr.host)
  BY AirHosts
<1>2. name[d.msg.addr.host] = name[i] /\ i \in audience[d.msg.addr.host]
  BY DEF ClaimsOK, Taken
<1>3. Rival(d.msg.addr.host)
  BY <1>2 DEF Rival, Spoke
<1> QED BY <1>1, <1>3 DEF SomeClash

(* The first warning is an answer, and the first to give up was warned.    *)
LEMMA NextKeepsAlarmInv == IInv /\ AlarmInv /\ [Next]_vars => AlarmInv'
<1> SUFFICES ASSUME IInv, AlarmInv, [Next]_vars PROVE AlarmInv'
  OBVIOUS
<1>1. CASE UNCHANGED vars
  BY <1>1 DEF vars, AlarmInv, ClaimsOK, NoFalseAlarm, NobodyGone, Warned, SomeClash, Rival,
     Spoke
<1>2. CASE Next
  <2>1. ClaimsOK'
    BY <1>2, ClaimsKept DEF AlarmInv
  <2>2. CASE SomeClash
    <3>1. SomeClash'
      BY <1>2, <2>2, SomeClashStays DEF IInv
    <3> QED BY <2>1, <3>1 DEF AlarmInv, NoFalseAlarm
  <2>3. CASE ~ SomeClash
    <3>1. NobodyGone /\ \A k \in Node : ~ Warned(k)
      BY <2>3 DEF AlarmInv, NoFalseAlarm
    <3>2. NobodyGone'
      BY <1>2, <3>1, NewlyGone DEF NobodyGone
    <3>3. ASSUME NEW l \in Link, NEW k \in Node, wire'[l][k] # <<>> PROVE FALSE
      <4>1. wire[l][k] = <<>>
        BY <3>1 DEF Warned
      <4>2. PICK i \in Node \ {k}, d \in air :
              d.to = i /\ phase[i] = "active" /\ Taken(i, d.msg)
        BY <1>2, <3>3, <4>1, NewWarnings
      <4> QED BY <2>3, <4>2, AnswerMeansClash DEF AlarmInv
    <3>4. \A k \in Node : ~ Warned(k)'
      BY <3>3 DEF Warned
    <3> QED BY <2>1, <3>2, <3>4 DEF AlarmInv, NoFalseAlarm
  <2> QED BY <2>2, <2>3
<1> QED BY <1>1, <1>2

(* It holds when nothing has been started.                                 *)
LEMMA InitAlarmInv == Init => AlarmInv
BY DEF Init, AlarmInv, ClaimsOK, NoFalseAlarm, NobodyGone, Warned

(* It holds for ever.                                                      *)
LEMMA AlarmInvIsInvariant == Spec => []AlarmInv
<1>1. IInv /\ AlarmInv /\ [Next]_vars => AlarmInv'
  BY NextKeepsAlarmInv
<1> QED BY <1>1, InitAlarmInv, IInvIsInvariant, PTL DEF Spec

(* However many SBuses there are, as long as all names claimed on the bus  *)
(* are different no program gives its name up.                             *)
THEOREM GivesUpOnlyIfClash == Spec => []NoFalseAlarm
<1>1. AlarmInv => NoFalseAlarm
  BY DEF AlarmInv
<1> QED BY <1>1, AlarmInvIsInvariant, PTL
-----------------------------------------------------------------------------
(* Two SBuses: whoever gives up has a rival that was there before. *)

(* With a third one this fails: an unknown sender is looked up under the   *)
(* receiver's own name, and the answer may go to somebody else.            *)
TwoNodes == \A i, j, k \in Node : i = j \/ j = k \/ i = k

(* NAMETAKEN is on its way to, and has stopped, only those with a rival.   *)
ToldOK == \A l \in Link, i \in Node : wire[l][i] # <<>> => Spoke(i) /\ Rival(i)
GoneOK == \A i \in Node : phase[i] = "aborted" => Rival(i)

RivalInv == ToldOK /\ GoneOK

(* A new answer goes to a claimant of the name who found us on the bus.    *)
LEMMA ToldKept ==
  ASSUME TwoNodes, IInv, ClaimsOK, RivalInv, Next PROVE ToldOK'
<1> SUFFICES ASSUME NEW l \in Link, NEW k \in Node, wire'[l][k] # <<>>
             PROVE  Spoke(k)' /\ Rival(k)'
  BY DEF ToldOK
<1>1. Spoke(k) /\ Rival(k)
  <2>1. CASE wire[l][k] # <<>>
    BY <2>1 DEF RivalInv, ToldOK
  <2>2. CASE wire[l][k] = <<>>
    <3>1. PICK i \in Node \ {k}, d \in air :
            d.to = i /\ phase[i] = "active" /\ Taken(i, d.msg) /\ Spoke(k)
      BY <2>2, NewWarnings
    <3>2. d.msg.addr.host = k
      BY <3>1, AirHosts DEF TwoNodes
    <3> QED BY <3>1, <3>2, AnswerMeansClash
  <2> QED BY <2>1, <2>2
<1> QED BY <1>1, SpokeStays, RivalStays DEF IInv

(* Whoever gives up had been told to.                                      *)
LEMMA GoneKept ==
  ASSUME IInv, RivalInv, Next PROVE GoneOK'
<1> SUFFICES ASSUME NEW k \in Node, phase'[k] = "aborted" PROVE Rival(k)'
  BY DEF GoneOK
<1>1. Spoke(k) /\ Rival(k)
  <2>1. CASE phase[k] = "aborted"
    BY <2>1 DEF RivalInv, GoneOK, Spoke
  <2>2. CASE phase[k] # "aborted"
    BY <2>2, NewlyGone DEF Warned, RivalInv, ToldOK
  <2> QED BY <2>1, <2>2
<1> QED BY <1>1, RivalStays DEF IInv

(* Every step keeps this part of the invariant.                            *)
LEMMA NextKeepsRivalInv ==
  TwoNodes /\ IInv /\ ClaimsOK /\ RivalInv /\ [Next]_vars => RivalInv'
<1> SUFFICES ASSUME TwoNodes, IInv, ClaimsOK, RivalInv, [Next]_vars PROVE RivalInv'
  OBVIOUS
<1>1. CASE UNCHANGED vars
  BY <1>1 DEF vars, RivalInv, ToldOK, GoneOK, Rival, Spoke
<1>2. CASE Next
  BY <1>2, ToldKept, GoneKept DEF RivalInv
<1> QED BY <1>1, <1>2

(* It holds when nothing has been started.                                 *)
LEMMA InitRivalInv == Init => RivalInv
BY DEF Init, RivalInv, ToldOK, GoneOK

(* It holds for ever, for two SBuses.                                      *)
LEMMA RivalInvIsInvariant == TwoNodes /\ Spec => []RivalInv
<1> SUFFICES ASSUME TwoNodes PROVE Spec => []RivalInv
  OBVIOUS
<1>1. IInv /\ AlarmInv /\ RivalInv /\ [Next]_vars => RivalInv'
  BY NextKeepsRivalInv DEF AlarmInv
<1> QED BY <1>1, InitRivalInv, IInvIsInvariant, AlarmInvIsInvariant, PTL DEF Spec

(* Of two SBuses, one gives up only to the other, and only if that one has *)
(* claimed the same name and was on the bus before.                        *)
THEOREM GivesUpOnlyToRival == TwoNodes /\ Spec => []GivesUpToRival
<1>1. RivalInv => GivesUpToRival
  BY DEF RivalInv, GoneOK, Rival, GivesUpToRival
<1> QED BY <1>1, RivalInvIsInvariant, PTL
-----------------------------------------------------------------------------
(* A clash of names is noticed. *)

(* Before anybody has given up, connections are open or were never made.   *)
LinksUp ==
  /\ \A l \in Link : link[l] # "ended"
  /\ \A i \in Node : AllOpen(contacts[i], link)

(* The claim of i is on its way to j.                                      *)
Pending(i, j) ==
  \E d \in air : d.to = j /\ d.msg.tag = "manameis" /\ d.msg.addr.host = i

(* No claim is forgotten: as long as it has not reached an SBus that was   *)
(* on the bus it is on its way, and if that one had the same name then     *)
(* somebody is being told.                                                 *)
SomebodyWarned == \E i \in Node : Warned(i)

ClaimsArrive ==
  \A i \in Node : \A j \in audience[i] :
    lost = 0 /\ phase[i] = "active" /\ OnBus(j) =>
      Pending(i, j) \/ (phase[j] = "active" /\ (name[j] = name[i] => SomebodyWarned))

(* Of two that hold a name, one was there when the other claimed it.       *)
Met ==
  \A i, j \in Node : i # j /\ phase[i] = "active" /\ phase[j] = "active" =>
    j \in audience[i] \/ i \in audience[j]

ClashInv == (NobodyGone => LinksUp /\ ClaimsArrive) /\ Met

(* As long as nobody is gone, all that spoke are on the bus.               *)
LEMMA SpokeIsOnBus ==
  ASSUME NobodyGone, NEW h \in Node, Spoke(h) PROVE OnBus(h)
BY DEF NobodyGone, Spoke, OnBus

(* Nobody comes back.                                                      *)
LEMMA GoneStays ==
  ASSUME IInv, Next, NobodyGone' PROVE NobodyGone
<1> SUFFICES ASSUME NEW i \in Node, phase[i] = "aborted" PROVE phase'[i] = "aborted"
  BY DEF NobodyGone
<1>1. ASSUME NEW j \in Node, Start(j) PROVE phase'[i] = "aborted"
  BY <1>1 DEF Start, IInv, TypeOK
<1>2. ASSUME NEW j \in Node, NEW n \in Claim, SetName(j, n) \/ SetNameFails(j, n)
      PROVE  phase'[i] = "aborted"
  BY <1>2, SMTT(30) DEF SetName, SetNameFails, IInv, TypeOK
<1>3. ASSUME NEW j \in Node, Hear(j) PROVE phase'[i] = "aborted"
  BY <1>3 DEF Hear, HearDatagram, HearLink, HearEnd, Carry, Abort, IInv, TypeOK
<1>4. ASSUME NEW d \in air, Lose(d) PROVE phase'[i] = "aborted"
  BY <1>4 DEF Lose
<1> QED BY <1>1, <1>2, <1>3, <1>4 DEF Next

(* The sockets of contacts are connections that their owner opened.        *)
LEMMA SocketIsOwn ==
  ASSUME IInv, NEW i \in Node, NEW p \in Live(contacts[i]),
         contacts[i].peers[p].socket # NoFd
  PROVE  \E h \in Node \ {i} : contacts[i].peers[p].socket = <<i, h>>
<1>1. TableOK(contacts[i]) /\ ContactsOK(i, contacts[i])
  BY DEF IInv, ListsOK
<1>2. contacts[i].peers[p].addr.host \in Node
  BY <1>1, TableOKType DEF PeerInfo, Addr
<1> QED BY <1>1, <1>2 DEF ContactsOK

(* A connection ends only when somebody has given up.                      *)
LEMMA LinksKept ==
  ASSUME IInv, ClashInv, Next, NobodyGone' PROVE LinksUp'
<1>1. NobodyGone /\ LinksUp
  BY GoneStays DEF ClashInv
<1>2. CASE UNCHANGED <<contacts, link>>
  BY <1>1, <1>2 DEF LinksUp, AllOpen
<1>3. ASSUME NEW i \in Node, HearDatagram(i) PROVE LinksUp'
  <2>1. PICK d \in air, h \in Node \ {i}, t \in Table :
           /\ Spoke(h)
           /\ contacts' = [contacts EXCEPT ![i] = t]
           /\ \/ link' = link
              \/ link' = [link EXCEPT ![<<i, h>>] = IF OnBus(h) THEN "open" ELSE "ended"]
           /\ OnBus(h) /\ AllOpen(contacts[i], link) => AllOpen(t, link')
    BY <1>3, DatagramShape
  <2>2. OnBus(h)
    BY <1>1, <2>1, SpokeIsOnBus
  <2>3. <<i, h>> \in Link /\ link \in [Link -> {"none", "open", "ended"}]
    BY DEF Link, IInv, TypeOK
  <2>4. \A l \in Link : /\ link'[l] # "ended"
                        /\ link[l] = "open" => link'[l] = "open"
    BY <1>1, <2>1, <2>2, <2>3 DEF LinksUp
  <2>5. ASSUME NEW k \in Node PROVE AllOpen(contacts[k], link)'
    <3>1. CASE k = i
      <4>1. contacts'[k] = t
        BY <2>1, <3>1 DEF IInv, ListsOK
      <4>2. AllOpen(t, link')
        BY <1>1, <2>1, <2>2 DEF LinksUp
      <4> QED BY <4>1, <4>2 DEF AllOpen
    <3>2. CASE k # i
      <4>1. contacts'[k] = contacts[k]
        BY <2>1, <3>2 DEF IInv, ListsOK
      <4>2. ASSUME NEW p \in Live(contacts[k]), contacts[k].peers[p].socket # NoFd
            PROVE  link'[contacts[k].peers[p].socket] = "open"
        <5>1. contacts[k].peers[p].socket \in Link
          <6>1. PICK g \in Node \ {k} : contacts[k].peers[p].socket = <<k, g>>
            BY <4>2, SocketIsOwn
          <6>2. <<k, g>> \in Link
            BY DEF Link
          <6> QED BY <6>1, <6>2
        <5>2. link[contacts[k].peers[p].socket] = "open"
          BY <1>1, <4>2 DEF LinksUp, AllOpen
        <5> QED BY <2>4, <5>1, <5>2
      <4> QED BY <4>1, <4>2 DEF AllOpen
    <3> QED BY <3>1, <3>2
  <2> QED BY <2>4, <2>5 DEF LinksUp
<1>4. ASSUME NEW i \in Node, NEW l \in Link, HearLink(i, l) PROVE FALSE
  BY <1>4, LinkShape DEF IInv, TypeOK, NobodyGone
<1>5. ASSUME NEW i \in Node, NEW l \in Link, HearEnd(i, l) PROVE FALSE
  BY <1>1, <1>5 DEF HearEnd, LinksUp
<1>6. (\E i \in Node : Hear(i)) \/ UNCHANGED <<contacts, link>>
  BY DEF Next, Start, SetName, SetNameFails, Lose
<1> QED BY <1>2, <1>3, <1>4, <1>5, <1>6 DEF Hear

(* The later of two claims finds the other SBus on the bus.                *)
LEMMA MetKept ==
  ASSUME IInv, ClashInv, Next PROVE Met'
<1> SUFFICES ASSUME NEW i \in Node, NEW j \in Node, i # j,
                    phase'[i] = "active", phase'[j] = "active"
             PROVE  j \in audience'[i] \/ i \in audience'[j]
  BY DEF Met
<1>1. CASE phase[i] = "active" /\ phase[j] = "active"
  <2>1. audience'[i] = audience[i] /\ audience'[j] = audience[j]
    BY <1>1, SpokeStays DEF IInv, Spoke
  <2> QED BY <1>1, <2>1 DEF ClashInv, Met
<1>2. CASE phase[i] # "active" \/ phase[j] # "active"
  <2>1. PICK k \in Node, n \in Claim : SetName(k, n)
    <3>1. ASSUME NEW k \in Node, Start(k) \/ \E n \in Claim : SetNameFails(k, n)
          PROVE  FALSE
      BY <1>2, <3>1, SMTT(30) DEF Start, SetNameFails, IInv, TypeOK
    <3>2. ASSUME NEW k \in Node, Hear(k) PROVE FALSE
      BY <1>2, <3>2 DEF Hear, HearDatagram, HearLink, HearEnd, Carry, Abort, IInv, TypeOK
    <3>3. ASSUME NEW d \in air, Lose(d) PROVE FALSE
      BY <1>2, <3>3 DEF Lose
    <3> QED BY <3>1, <3>2, <3>3 DEF Next
  <2>2. /\ phase' = [phase EXCEPT ![k] = "active"]
        /\ audience' = [audience EXCEPT ![k] = {m \in Node \ {k} : OnBus(m)}]
    BY <2>1 DEF SetName
  <2>3. k = i \/ k = j
    BY <1>2, <2>2 DEF IInv, TypeOK
  <2>4. CASE k = i
    BY <2>2, <2>4 DEF IInv, TypeOK, OnBus
  <2>5. CASE k = j
    BY <2>2, <2>5 DEF IInv, TypeOK, OnBus
  <2> QED BY <2>3, <2>4, <2>5
<1> QED BY <1>1, <1>2
(* A claim is heard by j: if j has the name, it is answered.               *)
LEMMA ClaimIsAnswered ==
  ASSUME IInv, ClaimsOK, ClashInv, NobodyGone, Next,
         NEW k \in Node, HearDatagram(k),
         NEW i \in Node, NEW j \in audience[i],
         lost = 0, phase[i] = "active", OnBus(j)
  PROVE  Pending(i, j)' \/ (phase[j] = "active" /\ (name[j] = name[i] => SomebodyWarned'))
<1>1. j \in Node /\ j # i
  BY DEF IInv, TypeOK, AudienceOK
<1>2. PICK d \in air, h \in Node \ {k}, t \in Table :
         /\ phase[k] = "active" /\ d.to = k /\ Spoke(h)
         /\ air' = (air \ {d}) \cup Hi(k)
         /\ wire' = wire \/ (Taken(k, d.msg) /\ wire' = Put(wire, <<k, h>>, k))
         /\ OnBus(h) /\ AllOpen(contacts[k], link) =>
              AllOpen(t, link') /\ (Taken(k, d.msg) => wire' = Put(wire, <<k, h>>, k))
  BY DatagramShape
<1>3. /\ wire \in Wires /\ OnlyNameTaken(wire) /\ name[k] \in AnyName
      /\ <<k, h>> \in Link
  BY DEF IInv, WireOK, Wires, TypeOK, AnyName, Link
<1>4. ASSUME SomebodyWarned PROVE SomebodyWarned'
  <2>1. PICK n \in Node, l \in Link : wire[l][n] # <<>>
    BY <1>4 DEF SomebodyWarned, Warned
  <2>2. wire'[l][n] # <<>>
    <3>1. CASE wire' = wire
      BY <2>1, <3>1
    <3>2. CASE wire' = Put(wire, <<k, h>>, k)
      <4>1. /\ wire'[<<k, h>>][h] # <<>>
            /\ ~ (l = <<k, h>> /\ n = h) => wire'[l][n] = wire[l][n]
        BY <1>3, <3>2, PutShape
      <4> QED BY <2>1, <4>1
    <3> QED BY <1>2, <3>1, <3>2
  <2> QED BY <2>2 DEF SomebodyWarned, Warned
<1>5. CASE phase[j] = "active" /\ (name[j] = name[i] => SomebodyWarned)
  BY <1>4, <1>5
<1>6. ASSUME NEW e \in air, e.to = j, e.msg.tag = "manameis", e.msg.addr.host = i, e # d
      PROVE  Pending(i, j)'
  BY <1>2, <1>6 DEF Pending
<1>7. ASSUME d.to = j, d.msg.tag = "manameis", d.msg.addr.host = i, name[j] = name[i]
      PROVE  SomebodyWarned'
  <2>1. Taken(k, d.msg)
    BY <1>2, <1>7 DEF ClaimsOK, Taken
  <2>2. OnBus(h) /\ AllOpen(contacts[k], link)
    BY <1>2, SpokeIsOnBus DEF ClashInv, LinksUp
  <2>3. wire' = Put(wire, <<k, h>>, k)
    BY <1>2, <2>1, <2>2
  <2>4. wire'[<<k, h>>][h] # <<>>
    BY <1>3, <2>3, PutShape
  <2> QED BY <1>3, <2>4 DEF SomebodyWarned, Warned
<1>8. CASE Pending(i, j)
  <2>1. PICK e \in air : e.to = j /\ e.msg.tag = "manameis" /\ e.msg.addr.host = i
    BY <1>8 DEF Pending
  <2>2. CASE e = d
    BY <1>2, <1>7, <2>1, <2>2
  <2> QED BY <1>6, <2>1, <2>2
<1> QED BY <1>5, <1>8 DEF ClashInv, ClaimsArrive

(* Whatever happens meanwhile, a claim that is not lost arrives.           *)
LEMMA ClaimsArriveKept ==
  ASSUME IInv, ClaimsOK, ClashInv, Next, NobodyGone' PROVE ClaimsArrive'
<1> SUFFICES ASSUME NEW i \in Node, NEW j \in audience'[i],
                    lost' = 0, phase'[i] = "active", OnBus(j)'
             PROVE  Pending(i, j)' \/ (phase'[j] = "active" /\
                                       (name'[j] = name'[i] => SomebodyWarned'))
  BY DEF ClaimsArrive
<1> NobodyGone
  BY GoneStays
<1>1. CASE \E k \in Node, n \in Claim : SetName(k, n)
  <2>1. PICK k \in Node, n \in Claim : SetName(k, n)
    BY <1>1
  <2>2. /\ phase[k] = "joined" /\ phase' = [phase EXCEPT ![k] = "active"]
        /\ name' = [name EXCEPT ![k] = n]
        /\ air' = air \cup Datagrams(k, "manameis", n)
        /\ audience' = [audience EXCEPT ![k] = {m \in Node \ {k} : OnBus(m)}]
        /\ lost' = lost /\ wire' = wire
    BY <2>1 DEF SetName
  <2>3. CASE i = k
    <3>1. j \in Node \ {i} /\ OnBus(j)
      BY <2>2, <2>3 DEF IInv, TypeOK
    <3> DEFINE d == [to |-> j, msg |-> [tag |-> "manameis", name |-> n,
                                        addr |-> [host |-> i, port |-> "server"]]]
    <3>2. d \in air'
      BY <2>2, <2>3, <3>1 DEF Datagrams
    <3> QED BY <3>2 DEF Pending
  <2>4. CASE i # k
    <3>1. /\ j \in audience[i] /\ j \in Node /\ phase[i] = "active" /\ lost = 0
          /\ name'[i] = name[i]
      BY <2>2, <2>4 DEF IInv, TypeOK
    <3>2. OnBus(j)
      BY <2>2, <3>1 DEF IInv, TypeOK, OnBus
    <3>3. CASE Pending(i, j)
      BY <2>2, <3>3 DEF Pending
    <3>4. CASE phase[j] = "active" /\ (name[j] = name[i] => SomebodyWarned)
      <4>1. j # k
        BY <2>2, <3>4
      <4>2. phase'[j] = "active" /\ name'[j] = name[j]
        BY <2>2, <3>1, <3>4, <4>1 DEF IInv, TypeOK
      <4> QED BY <2>2, <3>1, <3>4, <4>2 DEF SomebodyWarned, Warned
    <3> QED BY <3>1, <3>2, <3>3, <3>4 DEF ClashInv, ClaimsArrive
  <2> QED BY <2>3, <2>4
<1>2. CASE \E k \in Node : Start(k) \/ \E n \in Claim : SetNameFails(k, n)
  <2>1. PICK k \in Node : Start(k) \/ \E n \in Claim : SetNameFails(k, n)
    BY <1>2
  <2>2. /\ \/ phase[k] = "off" /\ phase' = [phase EXCEPT ![k] = "joined"]
              /\ name' = name /\ air' = air
           \/ phase' = [phase EXCEPT ![k] = "failed"]
              /\ \E n \in Claim : name' = [name EXCEPT ![k] = n]
              /\ air' = {d \in air : d.to # k}
        /\ audience' = audience /\ lost' = lost /\ wire' = wire
    BY <2>1 DEF Start, SetNameFails
  <2>3. j \in Node /\ j \in audience[i] /\ phase[j] # "off"
    BY <2>2 DEF IInv, TypeOK, AudienceOK
  <2>4. i # k /\ j # k
    BY <2>2, <2>3 DEF IInv, TypeOK, OnBus
  <2>5. /\ phase[i] = "active" /\ OnBus(j) /\ lost = 0
        /\ phase'[j] = phase[j] /\ name'[i] = name[i] /\ name'[j] = name[j]
    BY <2>2, <2>3, <2>4 DEF IInv, TypeOK, OnBus
  <2>6. Pending(i, j) => Pending(i, j)'
    BY <2>2, <2>4 DEF Pending
  <2>7. SomebodyWarned => SomebodyWarned'
    BY <2>2 DEF SomebodyWarned, Warned
  <2> QED BY <2>3, <2>5, <2>6, <2>7 DEF ClashInv, ClaimsArrive
<1>3. CASE \E d \in air : Lose(d)
  BY <1>3, NodesAssumption DEF Lose, IInv, TypeOK
<1>4. CASE \E k \in Node : HearDatagram(k)
  <2>1. UNCHANGED <<phase, name, lost, audience>>
    BY <1>4 DEF HearDatagram, Carry
  <2>2. j \in audience[i] /\ lost = 0 /\ phase[i] = "active" /\ OnBus(j)
    BY <2>1 DEF OnBus
  <2>3. Pending(i, j)' \/ (phase[j] = "active" /\ (name[j] = name[i] => SomebodyWarned'))
    BY <1>4, <2>2, ClaimIsAnswered
  <2> QED BY <2>1, <2>3
<1>5. CASE \E k \in Node, l \in Link : HearLink(k, l)
  <2>1. PICK k \in Node, l \in Link : HearLink(k, l)
    BY <1>5
  <2>2. phase' = [phase EXCEPT ![k] = "aborted"]
    BY <2>1, LinkShape
  <2> QED BY <2>2 DEF NobodyGone, IInv, TypeOK
<1>6. CASE \E k \in Node, l \in Link : HearEnd(k, l)
  <2>1. UNCHANGED <<phase, name, air, lost, wire, audience>>
    BY <1>6 DEF HearEnd
  <2>2. j \in audience[i] /\ lost = 0 /\ phase[i] = "active" /\ OnBus(j)
    BY <2>1 DEF OnBus
  <2> QED BY <2>1, <2>2 DEF ClashInv, ClaimsArrive, Pending, SomebodyWarned, Warned
<1> QED BY <1>1, <1>2, <1>3, <1>4, <1>5, <1>6 DEF Next, Hear

(* Every step keeps this part of the invariant.                            *)
LEMMA NextKeepsClashInv == IInv /\ ClaimsOK /\ ClashInv /\ [Next]_vars => ClashInv'
<1> SUFFICES ASSUME IInv, ClaimsOK, ClashInv, [Next]_vars PROVE ClashInv'
  OBVIOUS
<1>1. CASE UNCHANGED vars
  BY <1>1 DEF vars, ClashInv, NobodyGone, LinksUp, AllOpen, ClaimsArrive, Met,
     Pending, SomebodyWarned, Warned, OnBus
<1>2. CASE Next
  BY <1>2, LinksKept, ClaimsArriveKept, MetKept DEF ClashInv
<1> QED BY <1>1, <1>2

(* It holds when nothing has been started.                                 *)
LEMMA InitClashInv == Init => ClashInv
BY TableStart DEF Init, ClashInv, LinksUp, AllOpen, ClaimsArrive, Met

(* When no datagram was lost and everything sent has been processed, the   *)
(* active SBuses have different names, or somebody has given up.           *)
ClashIsNoticed ==
  Settled /\ lost = 0 /\ NobodyGone => \A i, j \in Node : ~ Clash(i, j)

(* However many SBuses there are, a clash does not stay unnoticed.         *)
THEOREM ClashesNoticed == Spec => []ClashIsNoticed
<1>1. IInv /\ AlarmInv /\ ClashInv /\ [Next]_vars => ClashInv'
  BY NextKeepsClashInv DEF AlarmInv
<1>2. ClashInv => ClashIsNoticed
  <2> SUFFICES ASSUME ClashInv, Settled, lost = 0, NobodyGone,
                      NEW i \in Node, NEW j \in Node, Clash(i, j)
               PROVE  FALSE
    BY DEF ClashIsNoticed
  <2>1. ASSUME NEW k \in Node, NEW m \in audience[k], Clash(k, m) PROVE FALSE
    <3>1. Pending(k, m) \/ SomebodyWarned
      BY <2>1 DEF ClashInv, ClaimsArrive, Clash, OnBus
    <3> QED BY <3>1 DEF Settled, Pending, SomebodyWarned, Warned
  <2>2. j \in audience[i] \/ i \in audience[j]
    BY DEF ClashInv, Met, Clash
  <2>3. Clash(j, i)
    BY DEF Clash
  <2> QED BY <2>1, <2>2, <2>3
<1> QED BY <1>1, <1>2, InitClashInv, IInvIsInvariant, AlarmInvIsInvariant, PTL DEF Spec

(* Of two SBuses of one name, when no datagram was lost and everything     *)
(* sent has been processed, at most one is still active.                   *)
THEOREM NamesUniqueWhenSettled == TwoNodes /\ Spec => []UniqueWhenSettled
<1> SUFFICES ASSUME TwoNodes PROVE Spec => []UniqueWhenSettled
  OBVIOUS
<1>1. ClashIsNoticed => UniqueWhenSettled
  <2>1. ASSUME NEW i \in Node, NEW j \in Node, Clash(i, j) PROVE NobodyGone
    BY <2>1 DEF TwoNodes, NobodyGone, Clash
  <2> QED BY <2>1 DEF ClashIsNoticed, UniqueWhenSettled
<1> QED BY <1>1, ClashesNoticed, PTL
=============================================================================
