------------------------------ MODULE SContacts ------------------------------
(***************************************************************************)
(* The contact list as a component: any caller, any order of calls, and a  *)
(* clock in seconds that moves between them.                               *)
(***************************************************************************)
EXTENDS ContactTable

CONSTANT MaxTime      \* bound: the clock stops here

ASSUME TimeAssumption == MaxTime \in Nat

VARIABLES
  contacts,   \* the SContacts object
  now         \* timing_current_seconds()

vars == <<contacts, now>>

TypeOK == contacts \in Table /\ now \in Nat

(* The clock starts far enough from lastCleanUp = -1 for the first add to  *)
(* run a cleanup, as seconds since the epoch do.                           *)
Init == contacts = EmptyTable /\ now = CleanPeriod

Contact(p) == contacts.peers[p]

Add(s, a, n) ==
  /\ Known(contacts, a, n) \/ contacts.last < MaxPeers
  /\ contacts' \in Adds(contacts, s, a, n, now)
  /\ UNCHANGED now

UpdateSocket(p, s) ==
  /\ p \in Live(contacts)
  /\ contacts' \in UpdateSockets(contacts, Contact(p), s, now)
  /\ UNCHANGED now

Rename(p, n) ==
  /\ p \in Live(contacts)
  /\ contacts' = UpdateName(contacts, Contact(p), n, now)
  /\ UNCHANGED now

(* A caller that looks a contact up and reads one of its fields. *)
Read(p) ==
  /\ p \in Live(contacts)
  /\ contacts' = Touch(contacts, p, now)
  /\ UNCHANGED now

Tick ==
  /\ now < MaxTime
  /\ now' = now + 1
  /\ UNCHANGED contacts

Next ==
  \/ \E s \in AnySocket, a \in Addr, n \in AnyName : Add(s, a, n)
  \/ \E p \in PeerId, s \in AnySocket : UpdateSocket(p, s)
  \/ \E p \in PeerId, n \in AnyName : Rename(p, n)
  \/ \E p \in PeerId : Read(p)
  \/ Tick

Spec == Init /\ [][Next]_vars

-----------------------------------------------------------------------------
(* No lookup returns a deleted contact: after any calls, every entry of    *)
(* the three indices is the current record of a live contact under that    *)
(* record's own key, although erase() and doCleanUp() drop entries by key  *)
(* without looking at whose they are.                                      *)
EntriesAreLive == NoDangling(contacts)

(* A contact can always be found by its ip and port, so the sender of a    *)
(* message that carries its location is never entered twice.               *)
FoundByAddress == AddrComplete(contacts)

(* A contact some caller used within the last MaxIdle seconds survives     *)
(* every call, cleanups included.                                          *)
ActiveContactsKept ==
  [][\A p \in Live(contacts) :
       now - contacts.seen[p] <= MaxIdle => p \in Live(contacts')]_vars

(* "Indexed by name": a contact is found by the name it has.               *)
FoundByName ==
  \A p \in Live(contacts) : contacts.name2peer[Contact(p).name] = Contact(p)

(* "Updates a peer info's socket": the peer keeps its name when only its   *)
(* socket is updated.                                                      *)
SocketUpdateKeepsName ==
  [][\A p \in Live(contacts) \cap Live(contacts') :
       contacts'.peers[p].socket # Contact(p).socket
         => contacts'.peers[p].name = Contact(p).name]_vars

(* The table implements the directory of ids.                              *)
DirOf == [p \in PeerId |-> IF p \in Live(contacts) THEN Contact(p).addr ELSE Null]
D == INSTANCE Directory WITH dir <- DirOf, next <- contacts.last
IsDirectory == D!Spec
=============================================================================
