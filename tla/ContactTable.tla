---------------------------- MODULE ContactTable ----------------------------
(***************************************************************************)
(* The contact list of one SBus (SContacts.h, SContacts.cpp, SPeerInfo.cpp) *)
(* as a value, with one operator per method.  A table holds the four hash  *)
(* maps of SContacts, the last-activity time of every contact, and the two *)
(* integer members of the object.                                          *)
(*                                                                         *)
(* The maps of the code hold pointers to SPeerInfo.  Every field of an     *)
(* SPeerInfo but lastActivity is written by the constructor only, so an    *)
(* index entry is modelled by the record it points to and lastActivity by  *)
(* the function "seen" over the live contacts.  An ip:port pair is a       *)
(* member of Addr.                                                         *)
(*                                                                         *)
(* A method whose outcome depends on undefined behaviour is an operator    *)
(* that gives the set of its possible results.                             *)
(***************************************************************************)
EXTENDS Integers

CONSTANTS
  Addr,         \* ip:port pairs
  Name,         \* non-empty SBus names
  EmptyName,    \* the empty string
  Socket,       \* TCP socket descriptors
  NoSocket,     \* INVALID_SOCKET
  Null,         \* the NULL pointer, or an absent map entry
  MaxPeers,     \* bound: how many peer ids one run may give out
  MaxIdle,      \* MAX_ALLOWED_PEERINFO_IDLE_S
  CleanPeriod   \* MIN_CLEANUP_PERIOD_S

PeerId    == 1..MaxPeers
AnyName   == Name \cup {EmptyName}
AnySocket == Socket \cup {NoSocket}
PeerInfo  == [peer : PeerId, socket : AnySocket, addr : Addr, name : AnyName]

ASSUME BoundsAssumption ==
  /\ MaxPeers \in Nat /\ MaxIdle \in Nat /\ CleanPeriod \in Nat
ASSUME NullAssumption == Null \notin PeerInfo \cup Addr

Table ==
  [ peers       : [PeerId    -> PeerInfo \cup {Null}],
    addr2peer   : [Addr      -> PeerInfo \cup {Null}],
    name2peer   : [AnyName   -> PeerInfo \cup {Null}],
    socket2peer : [AnySocket -> PeerInfo \cup {Null}],
    seen        : [PeerId -> Nat],
    last        : 0..MaxPeers,
    cleaned     : Int ]

(* Mutant: ids numbered from -1 as lastCleanUp is. *)
EmptyTable_NoFirstId ==
  [ peers       |-> [p \in PeerId    |-> Null],
    addr2peer   |-> [a \in Addr      |-> Null],
    name2peer   |-> [n \in AnyName   |-> Null],
    socket2peer |-> [s \in AnySocket |-> Null],
    seen        |-> [p \in PeerId |-> 0],
    last        |-> -1,
    cleaned     |-> -1 ]

EmptyTable ==
  [ peers       |-> [p \in PeerId    |-> Null],
    addr2peer   |-> [a \in Addr      |-> Null],
    name2peer   |-> [n \in AnyName   |-> Null],
    socket2peer |-> [s \in AnySocket |-> Null],
    seen        |-> [p \in PeerId |-> 0],
    last        |-> 0,
    cleaned     |-> -1 ]

Live(t) == {p \in PeerId : t.peers[p] # Null}

(***************************************************************************)
(* Every getter of SPeerInfo sets lastActivity.  show() calls them on      *)
(* every contact of the table (DEBUG evaluates its arguments in every      *)
(* build), so add and the two updates refresh the whole table.             *)
(***************************************************************************)
Touch(t, p, now) == [t EXCEPT !.seen[p] = now]

Show(t, now) ==
  [t EXCEPT !.seen = [p \in PeerId |-> IF p \in Live(t) THEN now ELSE 0]]

(***************************************************************************)
(* erase(): drops the entries under the four keys of r, whichever record   *)
(* they hold.  (Erasing end() does nothing in this hash_map.)              *)
(***************************************************************************)
(* Mutant: the socket index is forgotten. *)
Erase_KeepsSocketEntry(t, r) ==
  [t EXCEPT !.peers[r.peer] = Null, !.addr2peer[r.addr] = Null,
            !.name2peer[r.name] = Null, !.seen[r.peer] = 0]

Erase(t, r) ==
  [t EXCEPT !.peers[r.peer]         = Null,
            !.addr2peer[r.addr]     = Null,
            !.name2peer[r.name]     = Null,
            !.socket2peer[r.socket] = Null,
            !.seen[r.peer]          = 0]

Insert(t, r) ==
  [t EXCEPT !.peers[r.peer]         = r,
            !.addr2peer[r.addr]     = r,
            !.name2peer[r.name]     = r,
            !.socket2peer[r.socket] = r]

(***************************************************************************)
(* doCleanUp(): unlinks contacts idle for more than MaxIdle.  The loop     *)
(* advances an iterator it has just erased; where that lands is undefined, *)
(* so any non-empty part of the expired contacts may be unlinked.          *)
(***************************************************************************)
(* Mutant: a contact idle for exactly MaxIdle is dropped. *)
Expired_TooSoon(t, now) == {p \in Live(t) : now - t.seen[p] >= MaxIdle}

Expired(t, now) == {p \in Live(t) : now - t.seen[p] > MaxIdle}

Unlink(t, gone) ==
  LET dropped == {t.peers[p] : p \in gone} IN
  [t EXCEPT
     !.peers       = [p \in PeerId |-> IF p \in gone THEN Null ELSE @[p]],
     !.addr2peer   = [a \in Addr |->
                        IF \E r \in dropped : r.addr = a THEN Null ELSE @[a]],
     !.name2peer   = [n \in AnyName |->
                        IF \E r \in dropped : r.name = n THEN Null ELSE @[n]],
     !.socket2peer = [s \in AnySocket |->
                        IF \E r \in dropped : r.socket = s THEN Null ELSE @[s]],
     !.seen        = [p \in PeerId |-> IF p \in gone THEN 0 ELSE @[p]]]

Unlinked(t, now) ==
  {gone \in SUBSET Expired(t, now) : gone = {} => Expired(t, now) = {}}

CleanUps(t, now) ==
  IF now - t.cleaned > CleanPeriod
  THEN {[Unlink(t, gone) EXCEPT !.cleaned = now] : gone \in Unlinked(t, now)}
  ELSE {t}

(***************************************************************************)
(* add(): an address or a name already in the table gives back that        *)
(* contact and changes nothing.                                            *)
(***************************************************************************)
(* Mutant: add() only looks for the name. *)
Known_ByNameOnly(t, a, n) == t.name2peer[n] # Null

Known(t, a, n) == t.addr2peer[a] # Null \/ t.name2peer[n] # Null

NewContact(t, s, a, n) ==
  [peer |-> t.last + 1, socket |-> s, addr |-> a, name |-> n]

AddResult(t, s, a, n) ==
  CASE t.addr2peer[a] # Null -> t.addr2peer[a]
    [] t.addr2peer[a] = Null /\ t.name2peer[n] # Null -> t.name2peer[n]
    [] OTHER -> NewContact(t, s, a, n)

(* Mutant: lastPeerId is not advanced. *)
Adds_SameId(t, s, a, n, now) ==
  IF Known(t, a, n)
  THEN {t}
  ELSE {Show(Insert(u, NewContact(t, s, a, n)), now) : u \in CleanUps(t, now)}

Adds(t, s, a, n, now) ==
  IF Known(t, a, n)
  THEN {t}
  ELSE {Show(Insert([u EXCEPT !.last = @ + 1], NewContact(t, s, a, n)), now) :
          u \in CleanUps(t, now)}

(***************************************************************************)
(* updateSocket() and updateName() erase the contact and insert a fresh    *)
(* one with the same id and address.  updateSocket copies the name through *)
(* a reference into the deleted contact: the new object either occupies    *)
(* the same block, and copies its own empty name, or the freed block still *)
(* holds the old one.                                                      *)
(***************************************************************************)
KeptNames(r) == {r.name, EmptyName}

UpdateSockets(t, r, s, now) ==
  {Show(Insert(Erase(t, r), [r EXCEPT !.socket = s, !.name = n]), now) :
     n \in KeptNames(r)}

UpdateName(t, r, n, now) ==
  Show(Insert(Erase(t, r), [r EXCEPT !.name = n]), now)

(***************************************************************************)
(* SBus::processSMsg() looks up who sent a message that was read from      *)
(* descriptor d and names address a: the contact, with the table after the *)
(* lookup.  A sender found neither by descriptor nor by address is added   *)
(* under the SBus's own name.  After updateSocket the code goes on with    *)
(* its old pointer, where the new record lies.                             *)
(***************************************************************************)
SocketOf(d, mcsock) == IF d # mcsock THEN d ELSE NoSocket

Senders(t, d, mcsock, a, own, now) ==
  LET bySock == t.socket2peer[d]
      byAddr == t.addr2peer[a]
  IN CASE bySock # Null -> {[table |-> t, peer |-> bySock.peer]}
       [] bySock = Null /\ byAddr = Null ->
            {[table |-> u, peer |-> AddResult(t, SocketOf(d, mcsock), a, own).peer] :
               u \in Adds(t, SocketOf(d, mcsock), a, own, now)}
       [] bySock = Null /\ byAddr # Null /\ d # mcsock ->
            {[table |-> u, peer |-> byAddr.peer] : u \in UpdateSockets(t, byAddr, d, now)}
       [] OTHER -> {[table |-> t, peer |-> byAddr.peer]}

(***************************************************************************)
(* What every method relies on: an index entry is the current record of a  *)
(* live contact and sits under that record's own key, and every contact    *)
(* can be found by its address.                                            *)
(***************************************************************************)
NoDangling(t) ==
  /\ \A p \in Live(t) : t.peers[p].peer = p
  /\ \A a \in Addr :
       LET r == t.addr2peer[a]
       IN r # Null => r.addr = a /\ t.peers[r.peer] = r
  /\ \A n \in AnyName :
       LET r == t.name2peer[n]
       IN r # Null => r.name = n /\ t.peers[r.peer] = r
  /\ \A s \in AnySocket :
       LET r == t.socket2peer[s]
       IN r # Null => r.socket = s /\ t.peers[r.peer] = r

AddrComplete(t) == \A p \in Live(t) : t.addr2peer[t.peers[p].addr] = t.peers[p]

IdsGivenOut(t) == Live(t) \subseteq 1..t.last

Consistent(t) == NoDangling(t) /\ AddrComplete(t) /\ IdsGivenOut(t)
=============================================================================
