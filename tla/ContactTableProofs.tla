------------------------- MODULE ContactTableProofs -------------------------
(***************************************************************************)
(* Lemmas about the methods of the contact list, for every set of          *)
(* addresses, names and sockets and every bound: each of them keeps a      *)
(* well-formed table well-formed, and changes no more than it says.        *)
(***************************************************************************)
EXTENDS ContactTable, FiniteSets, FiniteSetTheorems, TLAPS

(* A table whose fields have their types and that is consistent. *)
WellFormed(t) == t \in Table /\ Consistent(t)

(* A new list is well formed.                                              *)
LEMMA EmptyTableWellFormed == WellFormed(EmptyTable)
BY BoundsAssumption DEF WellFormed, Table, EmptyTable, Consistent, NoDangling,
   AddrComplete, IdsGivenOut, Live, PeerId

(* Refreshing activity times does not disturb the maps. *)
LEMMA ShowWellFormed ==
  ASSUME NEW t, WellFormed(t), NEW time \in Nat
  PROVE  WellFormed(Show(t, time))
<1>1. Show(t, time) \in Table
  BY DEF WellFormed, Table, Show
<1>2. /\ Show(t, time).peers = t.peers
      /\ Show(t, time).addr2peer = t.addr2peer
      /\ Show(t, time).name2peer = t.name2peer
      /\ Show(t, time).socket2peer = t.socket2peer
      /\ Show(t, time).last = t.last
  BY DEF WellFormed, Table, Show
<1>3. Consistent(Show(t, time))
  BY <1>2 DEF WellFormed, Consistent, NoDangling, AddrComplete, IdsGivenOut, Live
<1> QED BY <1>1, <1>3 DEF WellFormed

(* Refreshing the activity of a contact changes nothing else.              *)
LEMMA TouchWellFormed ==
  ASSUME NEW t, WellFormed(t), NEW p \in PeerId, NEW time \in Nat
  PROVE  WellFormed(Touch(t, p, time))
<1>1. Touch(t, p, time) \in Table
  BY DEF WellFormed, Table, Touch
<1>2. /\ Touch(t, p, time).peers = t.peers
      /\ Touch(t, p, time).addr2peer = t.addr2peer
      /\ Touch(t, p, time).name2peer = t.name2peer
      /\ Touch(t, p, time).socket2peer = t.socket2peer
      /\ Touch(t, p, time).last = t.last
  BY DEF WellFormed, Table, Touch
<1>3. Consistent(Touch(t, p, time))
  BY <1>2 DEF WellFormed, Consistent, NoDangling, AddrComplete, IdsGivenOut, Live
<1> QED BY <1>1, <1>3 DEF WellFormed

(* erase() of a contact leaves nothing that points to it. *)
LEMMA EraseWellFormed ==
  ASSUME NEW t, WellFormed(t), NEW p \in Live(t)
  PROVE  WellFormed(Erase(t, t.peers[p]))
<1> DEFINE r == t.peers[p]
           u == Erase(t, r)
<1> USE NullAssumption
<1>1. p \in PeerId /\ r \in PeerInfo /\ r # Null /\ r.peer = p
  BY DEF WellFormed, Table, Live, Consistent, NoDangling
<1>2. /\ r.addr \in Addr /\ r.name \in AnyName /\ r.socket \in AnySocket
      /\ r.peer \in PeerId
  BY <1>1 DEF PeerInfo
<1> HIDE DEF r
<1>3. u \in Table
  BY <1>1, <1>2 DEF WellFormed, Table, Erase
<1>4. /\ u.peers = [t.peers EXCEPT ![r.peer] = Null]
      /\ u.addr2peer = [t.addr2peer EXCEPT ![r.addr] = Null]
      /\ u.name2peer = [t.name2peer EXCEPT ![r.name] = Null]
      /\ u.socket2peer = [t.socket2peer EXCEPT ![r.socket] = Null]
      /\ u.last = t.last
  BY DEF WellFormed, Table, Erase
<1> HIDE DEF u
<1>5. \A q \in PeerId : u.peers[q] = IF q = p THEN Null ELSE t.peers[q]
  BY <1>1, <1>4 DEF WellFormed, Table
<1>6. \A a \in Addr : u.addr2peer[a] = IF a = r.addr THEN Null ELSE t.addr2peer[a]
  BY <1>4 DEF WellFormed, Table
<1>7. \A n \in AnyName : u.name2peer[n] = IF n = r.name THEN Null ELSE t.name2peer[n]
  BY <1>4 DEF WellFormed, Table
<1>8. \A s \in AnySocket :
        u.socket2peer[s] = IF s = r.socket THEN Null ELSE t.socket2peer[s]
  BY <1>4 DEF WellFormed, Table
<1>9. \A q \in Live(u) : q \in Live(t) /\ q # p /\ u.peers[q] = t.peers[q]
  BY <1>5 DEF Live
<1>a. \A x \in PeerInfo : t.peers[x.peer] = x /\ x # r => x.peer # p
  BY DEF r
<1>10. NoDangling(u)
  <2>1. \A q \in Live(u) : u.peers[q].peer = q
    BY <1>9 DEF WellFormed, Consistent, NoDangling
  <2>2. ASSUME NEW a \in Addr, u.addr2peer[a] # Null
        PROVE  u.addr2peer[a].addr = a
               /\ u.peers[u.addr2peer[a].peer] = u.addr2peer[a]
    <3>1. a # r.addr /\ u.addr2peer[a] = t.addr2peer[a]
      BY <1>6, <2>2
    <3>2. t.addr2peer[a] \in PeerInfo /\ t.addr2peer[a].addr = a
          /\ t.peers[t.addr2peer[a].peer] = t.addr2peer[a]
      BY <2>2, <3>1 DEF WellFormed, Table, Consistent, NoDangling
    <3> QED BY <1>5, <1>a, <3>1, <3>2 DEF PeerInfo
  <2>3. ASSUME NEW n \in AnyName, u.name2peer[n] # Null
        PROVE  u.name2peer[n].name = n
               /\ u.peers[u.name2peer[n].peer] = u.name2peer[n]
    <3>1. n # r.name /\ u.name2peer[n] = t.name2peer[n]
      BY <1>7, <2>3
    <3>2. t.name2peer[n] \in PeerInfo /\ t.name2peer[n].name = n
          /\ t.peers[t.name2peer[n].peer] = t.name2peer[n]
      BY <2>3, <3>1 DEF WellFormed, Table, Consistent, NoDangling
    <3> QED BY <1>5, <1>a, <3>1, <3>2 DEF PeerInfo
  <2>4. ASSUME NEW s \in AnySocket, u.socket2peer[s] # Null
        PROVE  u.socket2peer[s].socket = s
               /\ u.peers[u.socket2peer[s].peer] = u.socket2peer[s]
    <3>1. s # r.socket /\ u.socket2peer[s] = t.socket2peer[s]
      BY <1>8, <2>4
    <3>2. t.socket2peer[s] \in PeerInfo /\ t.socket2peer[s].socket = s
          /\ t.peers[t.socket2peer[s].peer] = t.socket2peer[s]
      BY <2>4, <3>1 DEF WellFormed, Table, Consistent, NoDangling
    <3> QED BY <1>5, <1>a, <3>1, <3>2 DEF PeerInfo
  <2> QED BY <2>1, <2>2, <2>3, <2>4 DEF NoDangling
<1>11. AddrComplete(u)
  <2> SUFFICES ASSUME NEW q \in Live(u)
               PROVE  u.addr2peer[u.peers[q].addr] = u.peers[q]
    BY DEF AddrComplete
  <2>1. q \in Live(t) /\ q # p /\ u.peers[q] = t.peers[q]
    BY <1>9
  <2>2. t.addr2peer[t.peers[q].addr] = t.peers[q] /\ t.addr2peer[r.addr] = r
    BY <2>1 DEF WellFormed, Consistent, AddrComplete, r
  <2>3. t.peers[q].peer = q /\ t.peers[q] \in PeerInfo
    BY <2>1 DEF WellFormed, Table, Live, Consistent, NoDangling
  <2>4. t.peers[q].addr # r.addr
    BY <1>1, <2>1, <2>2, <2>3
  <2> QED BY <1>6, <2>1, <2>2, <2>3, <2>4 DEF PeerInfo
<1>12. IdsGivenOut(u)
  BY <1>4, <1>9 DEF WellFormed, Consistent, IdsGivenOut
<1> QED BY <1>3, <1>10, <1>11, <1>12 DEF WellFormed, Consistent, u, r

(* Inserting a record whose id and address are free. *)
LEMMA InsertWellFormed ==
  ASSUME NEW t, WellFormed(t), NEW r \in PeerInfo,
         t.peers[r.peer] = Null, t.addr2peer[r.addr] = Null, r.peer \in 1..t.last
  PROVE  WellFormed(Insert(t, r))
<1> DEFINE u == Insert(t, r)
<1> USE NullAssumption
<1>1. /\ r.peer \in PeerId /\ r.addr \in Addr /\ r.name \in AnyName
      /\ r.socket \in AnySocket /\ r # Null
  BY DEF PeerInfo
<1>2. u \in Table
  BY <1>1 DEF WellFormed, Table, Insert
<1>3. /\ u.peers = [t.peers EXCEPT ![r.peer] = r]
      /\ u.addr2peer = [t.addr2peer EXCEPT ![r.addr] = r]
      /\ u.name2peer = [t.name2peer EXCEPT ![r.name] = r]
      /\ u.socket2peer = [t.socket2peer EXCEPT ![r.socket] = r]
      /\ u.last = t.last
  BY DEF WellFormed, Table, Insert
<1> HIDE DEF u
<1>4. \A q \in PeerId : u.peers[q] = IF q = r.peer THEN r ELSE t.peers[q]
  BY <1>3 DEF WellFormed, Table
<1>5. \A a \in Addr : u.addr2peer[a] = IF a = r.addr THEN r ELSE t.addr2peer[a]
  BY <1>3 DEF WellFormed, Table
<1>6. \A n \in AnyName : u.name2peer[n] = IF n = r.name THEN r ELSE t.name2peer[n]
  BY <1>3 DEF WellFormed, Table
<1>7. \A s \in AnySocket :
        u.socket2peer[s] = IF s = r.socket THEN r ELSE t.socket2peer[s]
  BY <1>3 DEF WellFormed, Table
<1>8. \A x \in PeerInfo : t.peers[x.peer] = x => u.peers[x.peer] = x
  BY <1>4 DEF PeerInfo
<1>9. u.peers[r.peer] = r
  BY <1>1, <1>4
<1>10. NoDangling(u)
  <2>1. \A q \in Live(u) : u.peers[q].peer = q
    BY <1>4 DEF Live, WellFormed, Consistent, NoDangling
  <2>2. ASSUME NEW a \in Addr, u.addr2peer[a] # Null
        PROVE  u.addr2peer[a].addr = a
               /\ u.peers[u.addr2peer[a].peer] = u.addr2peer[a]
    <3>1. CASE a = r.addr
      BY <1>5, <1>9, <3>1
    <3>2. CASE a # r.addr
      BY <1>5, <1>8, <2>2, <3>2 DEF WellFormed, Table, Consistent, NoDangling
    <3> QED BY <3>1, <3>2
  <2>3. ASSUME NEW n \in AnyName, u.name2peer[n] # Null
        PROVE  u.name2peer[n].name = n
               /\ u.peers[u.name2peer[n].peer] = u.name2peer[n]
    <3>1. CASE n = r.name
      BY <1>6, <1>9, <3>1
    <3>2. CASE n # r.name
      BY <1>6, <1>8, <2>3, <3>2 DEF WellFormed, Table, Consistent, NoDangling
    <3> QED BY <3>1, <3>2
  <2>4. ASSUME NEW s \in AnySocket, u.socket2peer[s] # Null
        PROVE  u.socket2peer[s].socket = s
               /\ u.peers[u.socket2peer[s].peer] = u.socket2peer[s]
    <3>1. CASE s = r.socket
      BY <1>7, <1>9, <3>1
    <3>2. CASE s # r.socket
      BY <1>7, <1>8, <2>4, <3>2 DEF WellFormed, Table, Consistent, NoDangling
    <3> QED BY <3>1, <3>2
  <2> QED BY <2>1, <2>2, <2>3, <2>4 DEF NoDangling
<1>11. AddrComplete(u)
  <2> SUFFICES ASSUME NEW q \in Live(u)
               PROVE  u.addr2peer[u.peers[q].addr] = u.peers[q]
    BY DEF AddrComplete
  <2>1. CASE q = r.peer
    BY <1>1, <1>5, <1>9, <2>1
  <2>2. CASE q # r.peer
    <3>1. q \in Live(t) /\ u.peers[q] = t.peers[q] /\ t.peers[q] \in PeerInfo
      BY <1>4, <2>2 DEF Live, WellFormed, Table
    <3>2. t.addr2peer[t.peers[q].addr] = t.peers[q] /\ t.peers[q] # Null
      BY <3>1 DEF WellFormed, Consistent, AddrComplete
    <3> QED BY <1>5, <3>1, <3>2 DEF PeerInfo
  <2> QED BY <2>1, <2>2
<1>12. IdsGivenOut(u)
  BY <1>3, <1>4 DEF WellFormed, Consistent, IdsGivenOut, Live
<1> QED BY <1>2, <1>10, <1>11, <1>12 DEF WellFormed, Consistent, u

(* The sweep of doCleanUp(), whatever part of the table it removes. *)
LEMMA UnlinkWellFormed ==
  ASSUME NEW t, WellFormed(t), NEW gone \in SUBSET Live(t), NEW time \in Int
  PROVE  /\ WellFormed([Unlink(t, gone) EXCEPT !.cleaned = time])
         /\ Live(Unlink(t, gone)) = Live(t) \ gone
         /\ \A p \in PeerId \ gone : Unlink(t, gone).peers[p] = t.peers[p]
         /\ \A a \in Addr : t.addr2peer[a] = Null => Unlink(t, gone).addr2peer[a] = Null
         /\ Unlink(t, gone).last = t.last
<1> DEFINE dropped == {t.peers[p] : p \in gone}
           u == [Unlink(t, gone) EXCEPT !.cleaned = time]
<1> USE NullAssumption
<1>1. u \in Table /\ Unlink(t, gone) \in Table
  BY DEF WellFormed, Table, Unlink
<1>2. /\ u.peers = Unlink(t, gone).peers
      /\ u.addr2peer = Unlink(t, gone).addr2peer
      /\ u.name2peer = Unlink(t, gone).name2peer
      /\ u.socket2peer = Unlink(t, gone).socket2peer
      /\ u.last = t.last /\ Unlink(t, gone).last = t.last
  BY DEF WellFormed, Table, Unlink
<1>3. \A q \in PeerId : u.peers[q] = IF q \in gone THEN Null ELSE t.peers[q]
  BY DEF WellFormed, Table, Unlink
<1>4. \A a \in Addr : u.addr2peer[a] =
        IF \E x \in dropped : x.addr = a THEN Null ELSE t.addr2peer[a]
  BY DEF WellFormed, Table, Unlink
<1>5. \A n \in AnyName : u.name2peer[n] =
        IF \E x \in dropped : x.name = n THEN Null ELSE t.name2peer[n]
  BY DEF WellFormed, Table, Unlink
<1>6. \A s \in AnySocket : u.socket2peer[s] =
        IF \E x \in dropped : x.socket = s THEN Null ELSE t.socket2peer[s]
  BY DEF WellFormed, Table, Unlink
<1>7. \A x \in dropped : x.peer \in gone /\ x = t.peers[x.peer] /\ x \in PeerInfo
  BY DEF WellFormed, Table, Live, Consistent, NoDangling
<1> HIDE DEF u
<1>8. Live(u) = Live(t) \ gone
  BY <1>3 DEF Live
(* an index entry that points into gone is one of the dropped records *)
<1>9. \A x \in PeerInfo : t.peers[x.peer] = x /\ x.peer \in gone => x \in dropped
  OBVIOUS
<1> HIDE DEF dropped
<1>10. NoDangling(u)
  <2>1. \A q \in Live(u) : u.peers[q].peer = q
    BY <1>3, <1>8 DEF Live, WellFormed, Consistent, NoDangling
  <2>2. ASSUME NEW a \in Addr, u.addr2peer[a] # Null
        PROVE  u.addr2peer[a].addr = a
               /\ u.peers[u.addr2peer[a].peer] = u.addr2peer[a]
    <3>1. u.addr2peer[a] = t.addr2peer[a] /\ ~ \E x \in dropped : x.addr = a
      BY <1>4, <2>2
    <3>2. t.addr2peer[a] \in PeerInfo /\ t.addr2peer[a].addr = a
          /\ t.peers[t.addr2peer[a].peer] = t.addr2peer[a]
      BY <2>2, <3>1 DEF WellFormed, Table, Consistent, NoDangling
    <3> QED BY <1>3, <1>9, <3>1, <3>2 DEF PeerInfo
  <2>3. ASSUME NEW n \in AnyName, u.name2peer[n] # Null
        PROVE  u.name2peer[n].name = n
               /\ u.peers[u.name2peer[n].peer] = u.name2peer[n]
    <3>1. u.name2peer[n] = t.name2peer[n] /\ ~ \E x \in dropped : x.name = n
      BY <1>5, <2>3
    <3>2. t.name2peer[n] \in PeerInfo /\ t.name2peer[n].name = n
          /\ t.peers[t.name2peer[n].peer] = t.name2peer[n]
      BY <2>3, <3>1 DEF WellFormed, Table, Consistent, NoDangling
    <3> QED BY <1>3, <1>9, <3>1, <3>2 DEF PeerInfo
  <2>4. ASSUME NEW s \in AnySocket, u.socket2peer[s] # Null
        PROVE  u.socket2peer[s].socket = s
               /\ u.peers[u.socket2peer[s].peer] = u.socket2peer[s]
    <3>1. u.socket2peer[s] = t.socket2peer[s] /\ ~ \E x \in dropped : x.socket = s
      BY <1>6, <2>4
    <3>2. t.socket2peer[s] \in PeerInfo /\ t.socket2peer[s].socket = s
          /\ t.peers[t.socket2peer[s].peer] = t.socket2peer[s]
      BY <2>4, <3>1 DEF WellFormed, Table, Consistent, NoDangling
    <3> QED BY <1>3, <1>9, <3>1, <3>2 DEF PeerInfo
  <2> QED BY <2>1, <2>2, <2>3, <2>4 DEF NoDangling
<1>11. AddrComplete(u)
  <2> SUFFICES ASSUME NEW q \in Live(u)
               PROVE  u.addr2peer[u.peers[q].addr] = u.peers[q]
    BY DEF AddrComplete
  <2>1. q \in Live(t) /\ q \notin gone /\ u.peers[q] = t.peers[q]
        /\ t.peers[q] \in PeerInfo /\ t.peers[q].peer = q
    BY <1>3, <1>8 DEF Live, WellFormed, Table, Consistent, NoDangling
  <2>2. t.addr2peer[t.peers[q].addr] = t.peers[q]
    BY <2>1 DEF WellFormed, Consistent, AddrComplete
  <2>3. ASSUME NEW x \in dropped, x.addr = t.peers[q].addr PROVE FALSE
    <3>1. x.peer \in gone /\ x = t.peers[x.peer]
      BY <1>7
    <3>2. t.addr2peer[x.addr] = x
      BY <3>1 DEF WellFormed, Consistent, AddrComplete
    <3> QED BY <2>1, <2>2, <2>3, <3>1, <3>2
  <2> QED BY <1>4, <2>1, <2>2, <2>3 DEF PeerInfo
<1>12. IdsGivenOut(u)
  BY <1>2, <1>8 DEF WellFormed, Consistent, IdsGivenOut
<1>13. Live(Unlink(t, gone)) = Live(t) \ gone
  BY <1>2, <1>8 DEF Live
<1> QED BY <1>1, <1>2, <1>3, <1>4, <1>10, <1>11, <1>12, <1>13
        DEF WellFormed, Consistent, u

(* What one call of add() does to the table. *)
LEMMA AddsWellFormed ==
  ASSUME NEW t, WellFormed(t), NEW s \in AnySocket, NEW a \in Addr,
         NEW n \in AnyName, NEW time \in Nat,
         Known(t, a, n) \/ t.last < MaxPeers,
         NEW v \in Adds(t, s, a, n, time)
  PROVE  /\ WellFormed(v)
         /\ ~ Known(t, a, n) =>
              \E gone \in SUBSET Expired(t, time) :
                 /\ Live(v) = (Live(t) \ gone) \cup {t.last + 1}
                 /\ \A p \in Live(t) \ gone : v.peers[p] = t.peers[p]
                 /\ v.peers[t.last + 1] = NewContact(t, s, a, n)
                 /\ v.last = t.last + 1
         /\ Known(t, a, n) => v = t
<1> USE NullAssumption, BoundsAssumption
<1>1. CASE Known(t, a, n)
  BY <1>1 DEF Adds
<1>2. CASE ~ Known(t, a, n)
  <2> DEFINE r == NewContact(t, s, a, n)
  <2>1. PICK u \in CleanUps(t, time) :
          v = Show(Insert([u EXCEPT !.last = @ + 1], r), time)
    BY <1>2 DEF Adds
  <2>2. t.last \in 0..MaxPeers /\ t.last < MaxPeers /\ t.last + 1 \in PeerId
    BY <1>2 DEF WellFormed, Table, PeerId
  <2>3. t.addr2peer[a] = Null
    BY <1>2 DEF Known
  <2>4. PICK gone \in SUBSET Expired(t, time) :
          /\ WellFormed(u)
          /\ Live(u) = Live(t) \ gone
          /\ \A p \in PeerId \ gone : u.peers[p] = t.peers[p]
          /\ u.addr2peer[a] = Null
          /\ u.last = t.last
    <3>1. CASE time - t.cleaned > CleanPeriod
      <4>1. PICK g \in Unlinked(t, time) :
              u = [Unlink(t, g) EXCEPT !.cleaned = time]
        BY <2>1, <3>1 DEF CleanUps
      <4>2. g \in SUBSET Live(t) /\ g \in SUBSET Expired(t, time)
        BY <4>1 DEF Unlinked, Expired
      <4>3. u.peers = Unlink(t, g).peers /\ u.addr2peer = Unlink(t, g).addr2peer
            /\ u.last = Unlink(t, g).last
        BY <4>1 DEF Unlink, WellFormed, Table
      <4>4. Live(u) = Live(Unlink(t, g))
        BY <4>3 DEF Live
      <4> QED BY <2>3, <4>1, <4>2, <4>3, <4>4, UnlinkWellFormed, SMTT(30)
    <3>2. CASE ~ (time - t.cleaned > CleanPeriod)
      <4>1. u = t
        BY <2>1, <3>2 DEF CleanUps
      <4>2. {} \in SUBSET Expired(t, time) /\ Live(t) = Live(t) \ {}
        OBVIOUS
      <4>3. \A p \in PeerId \ {} : u.peers[p] = t.peers[p]
        BY <4>1
      <4> QED BY <2>3, <4>1, <4>2, <4>3
    <3> QED BY <3>1, <3>2
  <2> DEFINE w == [u EXCEPT !.last = @ + 1]
  <2>5. /\ w.peers = u.peers /\ w.addr2peer = u.addr2peer
        /\ w.name2peer = u.name2peer /\ w.socket2peer = u.socket2peer
        /\ w.last = t.last + 1
    BY <2>4 DEF WellFormed, Table
  <2>6. w \in Table
    <3>1. u \in Table /\ u.last + 1 \in 0..MaxPeers
      BY <2>2, <2>4 DEF WellFormed, PeerId
    <3> QED BY <3>1 DEF Table
  <2> HIDE DEF w
  <2>7. WellFormed(w)
    <3>1. Live(w) = Live(u)
      BY <2>5 DEF Live
    <3>2. NoDangling(w) /\ AddrComplete(w)
      BY <2>4, <2>5, <3>1 DEF WellFormed, Consistent, NoDangling, AddrComplete
    <3>3. IdsGivenOut(w)
      BY <2>2, <2>4, <2>5, <3>1 DEF WellFormed, Consistent, IdsGivenOut
    <3> QED BY <2>6, <3>2, <3>3 DEF WellFormed, Consistent
  <2>8. r \in PeerInfo /\ r.peer = t.last + 1 /\ r.addr = a
    BY <2>2 DEF NewContact, PeerInfo
  <2>9. t.last + 1 \notin Live(u) /\ t.last + 1 \notin Live(t)
    BY <2>2, <2>4 DEF WellFormed, Consistent, IdsGivenOut
  <2>10. w.peers[r.peer] = Null /\ w.addr2peer[r.addr] = Null /\ r.peer \in 1..w.last
    BY <2>2, <2>4, <2>5, <2>8, <2>9 DEF Live
  <2> HIDE DEF r
  <2>11. WellFormed(Insert(w, r))
    BY <2>7, <2>8, <2>10, InsertWellFormed
  <2>12. WellFormed(v)
    BY <2>1, <2>11, ShowWellFormed DEF w
  <2>13. v.peers = [w.peers EXCEPT ![r.peer] = r] /\ v.last = w.last
    BY <2>1, <2>6, <2>11 DEF w, Show, Insert, WellFormed, Table
  <2>14. \A p \in PeerId : v.peers[p] = IF p = t.last + 1 THEN r ELSE u.peers[p]
    BY <2>4, <2>5, <2>8, <2>13 DEF WellFormed, Table
  <2>15. Live(v) = (Live(t) \ gone) \cup {t.last + 1}
    BY <2>2, <2>4, <2>8, <2>14 DEF Live
  <2>16. \A p \in Live(t) \ gone : v.peers[p] = t.peers[p]
    BY <2>4, <2>9, <2>14 DEF Live
  <2>17. v.peers[t.last + 1] = r /\ v.last = t.last + 1
    BY <2>2, <2>5, <2>13, <2>14
  <2> QED BY <1>2, <2>12, <2>15, <2>16, <2>17 DEF r
<1> QED BY <1>1, <1>2

(* What replacing a contact by a record of the same id and address does:   *)
(* the common part of updateSocket() and updateName().                     *)
LEMMA ReplaceWellFormed ==
  ASSUME NEW t, WellFormed(t), NEW p \in Live(t), NEW r \in PeerInfo,
         r.peer = p, r.addr = t.peers[p].addr, NEW time \in Nat,
         NEW v, v = Show(Insert(Erase(t, t.peers[p]), r), time)
  PROVE  /\ WellFormed(v)
         /\ Live(v) = Live(t)
         /\ v.peers[p] = r
         /\ \A q \in Live(t) \ {p} : v.peers[q] = t.peers[q]
         /\ v.last = t.last
<1> USE NullAssumption
<1> DEFINE u == Erase(t, t.peers[p])
<1>1. WellFormed(u)
  BY EraseWellFormed
<1>2. t.peers[p] \in PeerInfo /\ t.peers[p].peer = p /\ p \in PeerId
  BY DEF WellFormed, Table, Live, Consistent, NoDangling
<1>3. /\ u.peers = [t.peers EXCEPT ![p] = Null]
      /\ u.addr2peer = [t.addr2peer EXCEPT ![r.addr] = Null]
      /\ u.last = t.last
  BY <1>2 DEF Erase, WellFormed, Table
<1>4. p \in 1..u.last
  BY <1>3 DEF WellFormed, Consistent, IdsGivenOut
<1> HIDE DEF u
<1>5. u.peers[r.peer] = Null /\ u.addr2peer[r.addr] = Null
  BY <1>2, <1>3 DEF WellFormed, Table, PeerInfo
<1>6. WellFormed(Insert(u, r))
  BY <1>1, <1>4, <1>5, InsertWellFormed
<1>7. WellFormed(v)
  BY <1>6, ShowWellFormed DEF u
<1>8. v.peers = [u.peers EXCEPT ![p] = r] /\ v.last = t.last
  BY <1>1, <1>3 DEF u, Show, Insert, WellFormed, Table
<1>9. \A q \in PeerId : v.peers[q] = IF q = p THEN r ELSE t.peers[q]
  BY <1>3, <1>8, <1>2 DEF WellFormed, Table
<1>10. Live(v) = Live(t)
  BY <1>2, <1>9 DEF Live
<1> QED BY <1>2, <1>7, <1>8, <1>9, <1>10 DEF Live

-----------------------------------------------------------------------------
(* What becomes of the index of sockets when a contact is replaced.        *)
LEMMA ReplaceFields ==
  ASSUME NEW t, WellFormed(t), NEW r, NEW n, NEW time,
         NEW v, v = Show(Insert(Erase(t, r), n), time)
  PROVE  /\ v.cleaned = t.cleaned
         /\ v.socket2peer = [[t.socket2peer EXCEPT ![r.socket] = Null] EXCEPT ![n.socket] = n]
<1> DEFINE e == Erase(t, r)
           u == Insert(e, n)
           Fields == {"peers", "addr2peer", "name2peer", "socket2peer", "seen", "last", "cleaned"}
<1>1. DOMAIN t = Fields
  BY DEF WellFormed, Table
<1>2. DOMAIN e = Fields /\ e.cleaned = t.cleaned
      /\ e.socket2peer = [t.socket2peer EXCEPT ![r.socket] = Null]
  BY <1>1 DEF Erase
<1> HIDE DEF e
<1>3. DOMAIN u = Fields /\ u.cleaned = e.cleaned
      /\ u.socket2peer = [e.socket2peer EXCEPT ![n.socket] = n]
  BY <1>2 DEF Insert
<1>4. v = Show(u, time)
  BY DEF e
<1> HIDE DEF u
<1>5. v.cleaned = u.cleaned /\ v.socket2peer = u.socket2peer
  BY <1>3, <1>4 DEF Show
<1> QED BY <1>2, <1>3, <1>5

(* updateSocket(): the contact keeps its id and its address; in the index  *)
(* of sockets it moves from its old socket to the new one.                 *)
LEMMA UpdateSocketsShape ==
  ASSUME NEW t, WellFormed(t), NEW p \in Live(t), NEW s \in AnySocket,
         NEW time \in Nat, NEW v \in UpdateSockets(t, t.peers[p], s, time)
  PROVE  /\ WellFormed(v)
         /\ Live(v) = Live(t) /\ v.last = t.last /\ v.cleaned = t.cleaned
         /\ v.peers[p] \in PeerInfo /\ v.peers[p].socket = s
         /\ v.peers[p].addr = t.peers[p].addr
         /\ \A q \in Live(t) \ {p} : v.peers[q] = t.peers[q]
         /\ \A k \in AnySocket :
              v.socket2peer[k] = CASE k = s -> v.peers[p]
                                   [] k # s /\ k = t.peers[p].socket -> Null
                                   [] OTHER -> t.socket2peer[k]
<1>1. t.peers[p] \in PeerInfo /\ t.peers[p].peer = p
  BY NullAssumption DEF WellFormed, Table, Live, Consistent, NoDangling
<1>2. PICK n \in KeptNames(t.peers[p]) :
        v = Show(Insert(Erase(t, t.peers[p]),
                        [t.peers[p] EXCEPT !.socket = s, !.name = n]), time)
  BY DEF UpdateSockets
<1> DEFINE r == [t.peers[p] EXCEPT !.socket = s, !.name = n]
<1>3. r \in PeerInfo /\ r.peer = p /\ r.addr = t.peers[p].addr /\ r.socket = s
  BY <1>1, <1>2 DEF PeerInfo, KeptNames, AnyName
<1> HIDE DEF r
<1>4. v = Show(Insert(Erase(t, t.peers[p]), r), time)
  BY <1>2 DEF r
<1>5. /\ WellFormed(v) /\ Live(v) = Live(t) /\ v.last = t.last /\ v.peers[p] = r
      /\ \A q \in Live(t) \ {p} : v.peers[q] = t.peers[q]
  BY <1>3, <1>4, ReplaceWellFormed
<1>6. v.cleaned = t.cleaned
      /\ v.socket2peer = [[t.socket2peer EXCEPT ![t.peers[p].socket] = Null] EXCEPT ![s] = r]
  BY <1>3, <1>4, ReplaceFields
<1>7. t.socket2peer \in [AnySocket -> PeerInfo \cup {Null}] /\ t.peers[p].socket \in AnySocket
  BY <1>1 DEF WellFormed, Table, PeerInfo
<1> QED BY <1>3, <1>5, <1>6, <1>7

(* updateName(): only the name changes.                                    *)
LEMMA UpdateNameShape ==
  ASSUME NEW t, WellFormed(t), NEW p \in Live(t), NEW n \in AnyName,
         NEW time \in Nat, NEW v, v = UpdateName(t, t.peers[p], n, time)
  PROVE  /\ WellFormed(v)
         /\ Live(v) = Live(t) /\ v.last = t.last /\ v.cleaned = t.cleaned
         /\ v.peers[p] \in PeerInfo /\ v.peers[p].socket = t.peers[p].socket
         /\ v.peers[p].addr = t.peers[p].addr
         /\ \A q \in Live(t) \ {p} : v.peers[q] = t.peers[q]
         /\ \A k \in AnySocket :
              v.socket2peer[k] = IF k = t.peers[p].socket THEN v.peers[p]
                                                           ELSE t.socket2peer[k]
<1>1. t.peers[p] \in PeerInfo /\ t.peers[p].peer = p
  BY NullAssumption DEF WellFormed, Table, Live, Consistent, NoDangling
<1> DEFINE r == [t.peers[p] EXCEPT !.name = n]
<1>2. /\ r \in PeerInfo /\ r.peer = p /\ r.addr = t.peers[p].addr
      /\ r.socket = t.peers[p].socket
  BY <1>1 DEF PeerInfo
<1>3. v = Show(Insert(Erase(t, t.peers[p]), r), time)
  BY DEF UpdateName
<1> HIDE DEF r
<1>4. /\ WellFormed(v) /\ Live(v) = Live(t) /\ v.last = t.last /\ v.peers[p] = r
      /\ \A q \in Live(t) \ {p} : v.peers[q] = t.peers[q]
  BY <1>2, <1>3, ReplaceWellFormed
<1>5. v.cleaned = t.cleaned
      /\ v.socket2peer = [[t.socket2peer EXCEPT ![t.peers[p].socket] = Null]
                            EXCEPT ![r.socket] = r]
  BY <1>3, ReplaceFields
<1>6. t.socket2peer \in [AnySocket -> PeerInfo \cup {Null}] /\ t.peers[p].socket \in AnySocket
  BY <1>1 DEF WellFormed, Table, PeerInfo
<1> QED BY <1>2, <1>4, <1>5, <1>6

(* The list was cleaned up within the last period.                         *)
NoCleanUpDue(t, time) == ~ (time - t.cleaned > CleanPeriod)

(* add() of an unknown contact while no cleanup is due.                    *)
LEMMA AddsShape ==
  ASSUME NEW t, WellFormed(t), NEW s \in AnySocket, NEW a \in Addr,
         NEW n \in AnyName, NEW time \in Nat,
         ~ Known(t, a, n), t.last < MaxPeers, NoCleanUpDue(t, time),
         NEW v \in Adds(t, s, a, n, time)
  PROVE  /\ WellFormed(v)
         /\ t.last + 1 \in PeerId /\ t.last + 1 \notin Live(t)
         /\ Live(v) = Live(t) \cup {t.last + 1} /\ v.last = t.last + 1
         /\ v.cleaned = t.cleaned
         /\ \A q \in Live(t) : v.peers[q] = t.peers[q]
         /\ v.peers[t.last + 1] = NewContact(t, s, a, n)
         /\ \A k \in AnySocket :
              v.socket2peer[k] = IF k = s THEN v.peers[t.last + 1] ELSE t.socket2peer[k]
<1> DEFINE r == NewContact(t, s, a, n)
           w == [t EXCEPT !.last = @ + 1]
<1>1. v = Show(Insert(w, r), time)
  BY DEF Adds, CleanUps, NoCleanUpDue
<1>2. t.last + 1 \in PeerId /\ t.last + 1 \notin Live(t)
  BY BoundsAssumption DEF WellFormed, Table, Consistent, IdsGivenOut, PeerId
<1>3. r \in PeerInfo /\ r.peer = t.last + 1 /\ r.socket = s
  BY <1>2 DEF NewContact, PeerInfo
<1>4. w \in Table
  BY BoundsAssumption DEF WellFormed, Table
<1>5. /\ v.peers = [t.peers EXCEPT ![t.last + 1] = r] /\ v.last = t.last + 1
      /\ v.socket2peer = [t.socket2peer EXCEPT ![s] = r] /\ v.cleaned = t.cleaned
  BY <1>1, <1>3, <1>4 DEF Show, Insert, WellFormed, Table
<1>6. WellFormed(v)
  BY AddsWellFormed
<1> HIDE DEF r, w
<1>7. \A p \in PeerId : v.peers[p] = IF p = t.last + 1 THEN r ELSE t.peers[p]
  BY <1>5 DEF WellFormed, Table
<1>8. Live(v) = Live(t) \cup {t.last + 1}
  BY <1>2, <1>3, <1>7, NullAssumption DEF Live
<1> QED BY <1>2, <1>5, <1>6, <1>7, <1>8 DEF r, Live, WellFormed, Table

(* Without cleanups the ids in use have no gap. *)
Dense(t) == Live(t) = 1..t.last

(* As many ids as addresses. *)
EnoughIds == IsFiniteSet(Addr) /\ Cardinality(Addr) <= MaxPeers

(* No two contacts have one address, so an address that is not in the      *)
(* table leaves an id for it.                                              *)
LEMMA RoomForNewAddress ==
  ASSUME EnoughIds,
         NEW t, WellFormed(t), Dense(t),
         NEW a \in Addr, t.addr2peer[a] = Null
  PROVE  t.last < MaxPeers
<1> DEFINE S == 1..t.last
           T == Addr \ {a}
           f == [p \in S |-> t.peers[p].addr]
<1>1. t.last \in Nat /\ MaxPeers \in Nat
  BY BoundsAssumption DEF WellFormed, Table
<1>2. IsFiniteSet(S) /\ Cardinality(S) = t.last
  <2>1. \A m \in Nat : IsFiniteSet(1..m) /\ Cardinality(1..m) = m
    <3> TAKE m \in Nat
    <3>1. 1 \in Int /\ m \in Int
      OBVIOUS
    <3>2. IsFiniteSet(1..m) /\ Cardinality(1..m) = IF 1 > m THEN 0 ELSE m - 1 + 1
      BY <3>1, FS_Interval
    <3> QED BY <3>2
  <2> QED BY <1>1, <2>1
<1>3. IsFiniteSet(T) /\ Cardinality(T) = Cardinality(Addr) - 1
  BY FS_RemoveElement DEF EnoughIds
<1>4. f \in [S -> T]
  BY NullAssumption DEF Dense, Live, WellFormed, Table, PeerInfo, Consistent, AddrComplete
<1>5. ASSUME NEW p \in S, NEW q \in S, f[p] = f[q] PROVE p = q
  <2>1. t.peers[p] = t.peers[q]
    BY <1>5 DEF Dense, WellFormed, Consistent, AddrComplete
  <2> QED BY <2>1 DEF Dense, WellFormed, Consistent, NoDangling
<1>6. f \in Injection(S, T)
  BY <1>4, <1>5 DEF Injection, IsInjective
<1>7. Cardinality(S) <= Cardinality(T)
  BY <1>3, <1>6, FS_Injection
<1>8. Cardinality(Addr) \in Nat
  BY FS_CardinalityType DEF EnoughIds
<1> QED BY <1>1, <1>2, <1>3, <1>7, <1>8 DEF EnoughIds
-----------------------------------------------------------------------------
(* What the index of sockets says.  A contact with a socket is found under *)
(* it; this is lost when a socket is recorded for a second contact, which  *)
(* processSMsg() never does.                                               *)
SocketComplete(t) ==
  \A p \in Live(t) :
    t.peers[p].socket # NoSocket => t.socket2peer[t.peers[p].socket] = t.peers[p]

(* The entries under sockets in v were there in t for the same address.    *)
NoNewSockets(t, v) ==
  \A k \in Socket : v.socket2peer[k] # Null =>
    t.socket2peer[k] # Null /\ t.socket2peer[k].addr = v.socket2peer[k].addr

(* ... or are under s, for address a.                                      *)
OnlyNewSocket(t, v, s, a) ==
  \A k \in Socket : v.socket2peer[k] # Null =>
    \/ t.socket2peer[k] # Null /\ t.socket2peer[k].addr = v.socket2peer[k].addr
    \/ k = s /\ v.socket2peer[k].addr = a

(* updateName() neither adds nor moves an entry under a socket.            *)
LEMMA RenameKeepsSockets ==
  ASSUME NEW t, WellFormed(t), SocketComplete(t), NoSocket \notin Socket,
         NEW p \in Live(t), NEW n \in AnyName,
         NEW time \in Nat, NEW v, v = UpdateName(t, t.peers[p], n, time)
  PROVE  SocketComplete(v) /\ NoNewSockets(t, v)
<1> USE NullAssumption
<1>1. t.peers[p] \in PeerInfo /\ t.peers[p].peer = p /\ t.peers[p] # Null
      /\ t.peers[p].socket \in AnySocket
  BY DEF WellFormed, Table, Live, Consistent, NoDangling, PeerInfo
<1>2. /\ Live(v) = Live(t)
      /\ v.peers[p].socket = t.peers[p].socket /\ v.peers[p].addr = t.peers[p].addr
      /\ \A q \in Live(t) \ {p} : v.peers[q] = t.peers[q]
      /\ \A k \in AnySocket :
           v.socket2peer[k] = IF k = t.peers[p].socket THEN v.peers[p]
                                                       ELSE t.socket2peer[k]
  BY UpdateNameShape
<1>3. SocketComplete(v)
  <2> SUFFICES ASSUME NEW q \in Live(t), v.peers[q].socket # NoSocket
               PROVE  v.socket2peer[v.peers[q].socket] = v.peers[q]
    BY <1>2 DEF SocketComplete
  <2>1. CASE q = p
    BY <1>1, <1>2, <2>1
  <2>2. CASE q # p
    <3>1. /\ v.peers[q] = t.peers[q] /\ t.peers[q].socket \in AnySocket
          /\ t.socket2peer[t.peers[q].socket] = t.peers[q] /\ t.peers[q].peer = q
      <4>1. v.peers[q] = t.peers[q] /\ t.peers[q].socket # NoSocket
        BY <1>2, <2>2
      <4>2. t.peers[q] \in PeerInfo /\ t.peers[q].peer = q
        BY DEF WellFormed, Table, Live, Consistent, NoDangling
      <4>3. t.socket2peer[t.peers[q].socket] = t.peers[q]
        BY <4>1 DEF SocketComplete
      <4> QED BY <4>1, <4>2, <4>3 DEF PeerInfo
    <3>2. t.peers[q].socket # t.peers[p].socket
      BY <1>1, <2>2, <3>1 DEF SocketComplete
    <3> QED BY <1>2, <3>1, <3>2
  <2> QED BY <2>1, <2>2
<1>4. NoNewSockets(t, v)
  <2> SUFFICES ASSUME NEW k \in Socket, v.socket2peer[k] # Null
               PROVE  t.socket2peer[k] # Null /\ t.socket2peer[k].addr = v.socket2peer[k].addr
    BY DEF NoNewSockets
  <2>1. CASE k = t.peers[p].socket
    BY <1>1, <1>2, <2>1 DEF SocketComplete
  <2>2. CASE k # t.peers[p].socket
    BY <1>2, <2>2 DEF AnySocket
  <2> QED BY <2>1, <2>2
<1> QED BY <1>3, <1>4

(* updateSocket() to INVALID_SOCKET takes one entry away.                  *)
LEMMA DisconnectKeepsSockets ==
  ASSUME NEW t, WellFormed(t), SocketComplete(t), NoSocket \notin Socket,
         NEW d \in Socket, t.socket2peer[d] # Null,
         NEW time \in Nat, NEW v \in UpdateSockets(t, t.socket2peer[d], NoSocket, time)
  PROVE  SocketComplete(v) /\ NoNewSockets(t, v) /\ v.socket2peer[d] = Null
<1> USE NullAssumption
<1> DEFINE p == t.socket2peer[d].peer
<1>1. /\ t.socket2peer[d] = t.peers[p] /\ p \in Live(t) /\ t.peers[p].peer = p
      /\ t.peers[p].socket = d /\ d \in AnySocket /\ NoSocket \in AnySocket
  BY DEF WellFormed, Table, Live, Consistent, NoDangling, PeerInfo, AnySocket
<1> HIDE DEF p
<1>2. /\ Live(v) = Live(t) /\ v.peers[p].socket = NoSocket
      /\ \A q \in Live(t) \ {p} : v.peers[q] = t.peers[q]
      /\ \A k \in AnySocket :
           v.socket2peer[k] = CASE k = NoSocket -> v.peers[p]
                                [] k # NoSocket /\ k = d -> Null
                                [] OTHER -> t.socket2peer[k]
  BY <1>1, UpdateSocketsShape
<1>3. \A k \in Socket : v.socket2peer[k] = IF k = d THEN Null ELSE t.socket2peer[k]
  BY <1>2 DEF AnySocket
<1>4. SocketComplete(v)
  <2> SUFFICES ASSUME NEW q \in Live(t), v.peers[q].socket # NoSocket
               PROVE  v.socket2peer[v.peers[q].socket] = v.peers[q]
    BY <1>2 DEF SocketComplete
  <2>1. q # p /\ v.peers[q] = t.peers[q]
    BY <1>2
  <2>2. /\ t.peers[q].socket \in Socket /\ t.peers[q].peer = q
        /\ t.socket2peer[t.peers[q].socket] = t.peers[q]
    BY <2>1 DEF SocketComplete, WellFormed, Table, PeerInfo, Live, Consistent, NoDangling, AnySocket
  <2>3. t.peers[q].socket # d
    BY <1>1, <2>1, <2>2
  <2> QED BY <1>3, <2>1, <2>2, <2>3
<1> QED BY <1>3, <1>4 DEF NoNewSockets
-----------------------------------------------------------------------------
(* What processSMsg() relies on when it looks a sender up while no cleanup *)
(* is due: the table stays well-formed, the peer it gets is in the table,  *)
(* and contacts keep their addresses.                                      *)
LEMMA SendersShape ==
  ASSUME EnoughIds,
         NEW t, WellFormed(t), Dense(t),
         NEW d \in Socket, NEW mcsock, NEW a \in Addr, NEW own \in AnyName,
         NEW time \in Nat, NoCleanUpDue(t, time),
         NEW x \in Senders(t, d, mcsock, a, own, time)
  PROVE  /\ WellFormed(x.table)
         /\ x.table.cleaned = t.cleaned
         /\ Dense(x.table) /\ Live(t) \subseteq Live(x.table)
         /\ x.peer \in Live(x.table)
<1> USE NullAssumption
<1>1. d \in AnySocket /\ SocketOf(d, mcsock) \in AnySocket
  BY DEF AnySocket, SocketOf
<1>2. CASE t.socket2peer[d] # Null
  <2>1. x = [table |-> t, peer |-> t.socket2peer[d].peer]
    BY <1>2 DEF Senders
  <2>2. t.socket2peer[d].peer \in Live(t)
    BY <1>1, <1>2 DEF WellFormed, Table, Live, Consistent, NoDangling, PeerInfo
  <2> QED BY <2>1, <2>2
<1>3. CASE t.socket2peer[d] = Null /\ t.addr2peer[a] = Null
  <2>1. PICK v \in Adds(t, SocketOf(d, mcsock), a, own, time) :
          x = [table |-> v, peer |-> AddResult(t, SocketOf(d, mcsock), a, own).peer]
    BY <1>3 DEF Senders
  <2>2. CASE t.name2peer[own] # Null
    <3>1. v = t /\ x.peer = t.name2peer[own].peer
      BY <1>3, <2>1, <2>2 DEF Adds, Known, AddResult
    <3>2. t.name2peer[own].peer \in Live(t)
      BY <2>2 DEF WellFormed, Table, Live, Consistent, NoDangling, PeerInfo
    <3> QED BY <2>1, <3>1, <3>2
  <2>3. CASE t.name2peer[own] = Null
    <3>1. t.last < MaxPeers
      BY <1>3, RoomForNewAddress
    <3>2. x.peer = t.last + 1
      BY <1>3, <2>1, <2>3 DEF AddResult, NewContact
    <3>3. ~ Known(t, a, own)
      BY <1>3, <2>3 DEF Known
    <3>4. /\ WellFormed(v) /\ v.cleaned = t.cleaned
          /\ Live(v) = Live(t) \cup {t.last + 1} /\ v.last = t.last + 1
      BY <1>1, <2>1, <3>1, <3>3, AddsShape
    <3>5. t.last \in Nat
      BY BoundsAssumption DEF WellFormed, Table
    <3>6. Dense(v) /\ Live(t) \subseteq Live(v) /\ x.peer \in Live(v)
      BY <3>2, <3>4, <3>5 DEF Dense
    <3> QED BY <2>1, <3>4, <3>6
  <2> QED BY <2>2, <2>3
<1>4. CASE t.socket2peer[d] = Null /\ t.addr2peer[a] # Null
  <2>1. /\ t.addr2peer[a].peer \in Live(t)
        /\ t.addr2peer[a] = t.peers[t.addr2peer[a].peer]
    BY <1>4 DEF WellFormed, Table, Live, Consistent, NoDangling, PeerInfo
  <2>2. CASE d # mcsock
    <3>1. PICK v \in UpdateSockets(t, t.addr2peer[a], d, time) :
            x = [table |-> v, peer |-> t.addr2peer[a].peer]
      BY <1>4, <2>2 DEF Senders
    <3>2. /\ WellFormed(v) /\ v.cleaned = t.cleaned
          /\ Live(v) = Live(t) /\ v.last = t.last
      BY <1>1, <2>1, <3>1, UpdateSocketsShape
    <3> QED BY <2>1, <3>1, <3>2 DEF Dense
  <2>3. CASE d = mcsock
    <3>1. x = [table |-> t, peer |-> t.addr2peer[a].peer]
      BY <1>4, <2>3 DEF Senders
    <3> QED BY <2>1, <3>1
  <2> QED BY <2>2, <2>3
<1> QED BY <1>2, <1>3, <1>4

(* In the index of sockets the lookup enters at most the descriptor the    *)
(* message was read from, unless that is the multicast socket's, and for   *)
(* the address the message names.                                          *)
LEMMA SendersSockets ==
  ASSUME NoSocket \notin Socket, EnoughIds,
         NEW t, WellFormed(t), Dense(t), SocketComplete(t),
         NEW d \in Socket, NEW mcsock, NEW a \in Addr, NEW own \in AnyName,
         NEW time \in Nat, NoCleanUpDue(t, time),
         NEW x \in Senders(t, d, mcsock, a, own, time)
  PROVE  SocketComplete(x.table) /\ OnlyNewSocket(t, x.table, SocketOf(d, mcsock), a)
<1> SUFFICES SocketComplete(x.table)
         /\ \A k \in Socket : x.table.socket2peer[k] # Null =>
              \/ t.socket2peer[k] # Null
                 /\ t.socket2peer[k].addr = x.table.socket2peer[k].addr
              \/ k = d /\ d # mcsock /\ x.table.socket2peer[k].addr = a
  BY DEF OnlyNewSocket, SocketOf
<1> USE NullAssumption
<1>1. d \in AnySocket /\ SocketOf(d, mcsock) \in AnySocket
  BY DEF AnySocket, SocketOf
<1>2. CASE x.table = t
  BY <1>2
<1>3. CASE t.socket2peer[d] = Null /\ t.addr2peer[a] = Null /\ t.name2peer[own] = Null
  <2> DEFINE s == SocketOf(d, mcsock)
  <2>1. PICK v \in Adds(t, s, a, own, time) :
          x = [table |-> v, peer |-> AddResult(t, s, a, own).peer]
    BY <1>3 DEF Senders
  <2>2. t.last < MaxPeers /\ ~ Known(t, a, own)
    BY <1>3, RoomForNewAddress DEF Known
  <2>3. /\ t.last + 1 \notin Live(t)
        /\ Live(v) = Live(t) \cup {t.last + 1}
        /\ \A q \in Live(t) : v.peers[q] = t.peers[q]
        /\ v.peers[t.last + 1] = NewContact(t, s, a, own)
        /\ \A k \in AnySocket :
             v.socket2peer[k] = IF k = s THEN v.peers[t.last + 1] ELSE t.socket2peer[k]
    BY <1>1, <2>1, <2>2, AddsShape
  <2>6. v.peers[t.last + 1].socket = s /\ v.peers[t.last + 1].addr = a
    BY <2>3 DEF NewContact
  <2>4. SocketComplete(v)
    <3> SUFFICES ASSUME NEW q \in Live(v), v.peers[q].socket # NoSocket
                 PROVE  v.socket2peer[v.peers[q].socket] = v.peers[q]
      BY DEF SocketComplete
    <3>1. CASE q = t.last + 1
      BY <1>1, <2>3, <2>6, <3>1
    <3>2. CASE q # t.last + 1
      <4>1. /\ q \in Live(t) /\ v.peers[q] = t.peers[q]
            /\ t.socket2peer[t.peers[q].socket] = t.peers[q]
            /\ t.peers[q].socket \in Socket /\ t.peers[q] # Null
        BY <2>3, <3>2 DEF SocketComplete, WellFormed, Table, PeerInfo, Live, AnySocket
      <4>2. t.peers[q].socket # s
        BY <1>3, <4>1 DEF SocketOf
      <4> QED BY <2>3, <4>1, <4>2 DEF AnySocket
    <3> QED BY <3>1, <3>2
  <2>5. ASSUME NEW k \in Socket, v.socket2peer[k] # Null
        PROVE  \/ t.socket2peer[k] # Null /\ t.socket2peer[k].addr = v.socket2peer[k].addr
               \/ k = d /\ d # mcsock /\ v.socket2peer[k].addr = a
    BY <2>3, <2>5, <2>6 DEF AnySocket, SocketOf
  <2> QED BY <2>1, <2>4, <2>5
<1>4. CASE t.socket2peer[d] = Null /\ t.addr2peer[a] # Null /\ d # mcsock
  <2> DEFINE p == t.addr2peer[a].peer
  <2>1. p \in Live(t) /\ t.addr2peer[a] = t.peers[p] /\ t.peers[p].addr = a
    BY <1>4 DEF WellFormed, Table, Live, Consistent, NoDangling, PeerInfo
  <2>2. PICK v \in UpdateSockets(t, t.peers[p], d, time) : x.table = v
    BY <1>4, <2>1 DEF Senders
  <2> HIDE DEF p
  <2>3. /\ Live(v) = Live(t)
        /\ v.peers[p].socket = d /\ v.peers[p].addr = a
        /\ \A q \in Live(t) \ {p} : v.peers[q] = t.peers[q]
        /\ \A k \in AnySocket :
             v.socket2peer[k] = CASE k = d -> v.peers[p]
                                  [] k # d /\ k = t.peers[p].socket -> Null
                                  [] OTHER -> t.socket2peer[k]
    BY <1>1, <2>1, <2>2, UpdateSocketsShape
  <2>4. SocketComplete(v)
    <3> SUFFICES ASSUME NEW q \in Live(t), v.peers[q].socket # NoSocket
                 PROVE  v.socket2peer[v.peers[q].socket] = v.peers[q]
      BY <2>3 DEF SocketComplete
    <3>1. CASE q = p
      BY <1>1, <2>3, <3>1
    <3>2. CASE q # p
      <4>1. /\ v.peers[q] = t.peers[q] /\ t.peers[q].peer = q /\ t.peers[q] # Null
            /\ t.socket2peer[t.peers[q].socket] = t.peers[q]
            /\ t.peers[q].socket \in Socket
        BY <2>3, <3>2 DEF SocketComplete, WellFormed, Table, PeerInfo, Live,
           Consistent, NoDangling, AnySocket
      <4>2. t.peers[q].socket # d
        BY <1>4, <4>1
      <4>3. t.peers[q].socket # t.peers[p].socket
        <5>1. t.peers[p].peer = p
          BY <2>1 DEF WellFormed, Consistent, NoDangling
        <5> QED BY <2>1, <3>2, <4>1, <5>1 DEF SocketComplete, AnySocket
      <4> QED BY <2>3, <4>1, <4>2, <4>3 DEF AnySocket
    <3> QED BY <3>1, <3>2
  <2>5. \A k \in Socket : v.socket2peer[k] # Null =>
          \/ t.socket2peer[k] # Null /\ t.socket2peer[k].addr = v.socket2peer[k].addr
          \/ k = d /\ d # mcsock /\ v.socket2peer[k].addr = a
    BY <1>4, <2>3 DEF AnySocket
  <2> QED BY <2>2, <2>4, <2>5
<1>5. \/ x.table = t
      \/ t.socket2peer[d] = Null /\ t.addr2peer[a] = Null /\ t.name2peer[own] = Null
      \/ t.socket2peer[d] = Null /\ t.addr2peer[a] # Null /\ d # mcsock
  <2>1. CASE t.socket2peer[d] # Null
    BY <2>1 DEF Senders
  <2>2. CASE t.socket2peer[d] = Null /\ t.addr2peer[a] = Null /\ t.name2peer[own] # Null
    BY <2>2 DEF Senders, Adds, Known
  <2>3. CASE t.socket2peer[d] = Null /\ t.addr2peer[a] # Null /\ d = mcsock
    BY <2>3 DEF Senders
  <2> QED BY <2>1, <2>2, <2>3
<1> QED BY <1>2, <1>3, <1>4, <1>5
=============================================================================
