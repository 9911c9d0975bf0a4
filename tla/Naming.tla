------------------------------- MODULE Naming -------------------------------
(***************************************************************************)
(* The name protocol among several SBuses, each driven by the test program *)
(* (testcpp/sbustest.cpp, testc/sbustest.c): it creates an SBus, claims a  *)
(* name with setName(), which multicasts MANAMEIS, and then processes what *)
(* arrives.  An SBus that hears its own name claimed answers NAMETAKEN by  *)
(* a point to point message; a program that is told NAMETAKEN gives up.    *)
(*                                                                         *)
(* Datagrams reach whoever has joined the group by then; they may overtake *)
(* one another and be lost.  A TCP connection is known by the pair that    *)
(* opened and accepted it, and its messages stay in order.  Threads and    *)
(* reused descriptors are SBusNode's matter: here reading, queueing and    *)
(* processing a message is one step.                                       *)
(***************************************************************************)
EXTENDS Integers, Sequences, FiniteSets

CONSTANTS
  Node,        \* the SBuses; a node also stands for its safe name
  Claim,       \* names that are claimed
  EmptyName, NoFd, Null,
  Mc,          \* descriptor of the multicast socket
  MaxLost      \* bound: datagrams the network loses

Link == {l \in Node \X Node : l[1] # l[2]}   \* <<opener, acceptor>>
Addr == [host : Node, port : {"server", "client"}]

INSTANCE ContactTable WITH
  Name <- Claim \cup Node, Socket <- Link \cup {Mc}, NoSocket <- NoFd,
  MaxPeers <- 2 * Cardinality(Node), MaxIdle <- 1, CleanPeriod <- 1

ASSUME NodesAssumption == IsFiniteSet(Node) /\ MaxLost \in Nat
ASSUME DescriptorsAssumption == Mc \notin Link /\ NoFd \notin Link \cup {Mc}
ASSUME NoRecordAssumption == Null \notin PeerInfo \cup Addr

Now == 0

Msg == [tag : {"user", "manameis", "nametaken"}, name : AnyName, addr : Addr]

VARIABLES
  phase,      \* "off", "joined" the group, "active", "failed", "aborted"
  name,       \* SBus::name
  contacts,   \* SBus::scontacts
  greeted,    \* counter # 0
  air,        \* datagrams on their way
  lost,       \* how many the network has lost
  link,       \* connections: "none", "open", "ended" by the other end
  wire,       \* per connection and reader, the messages on their way
  audience    \* observed: who was on the bus when a name was claimed

vars == <<phase, name, contacts, greeted, air, lost, link, wire, audience>>

OnBus(i) == phase[i] \in {"joined", "active"}

Init ==
  /\ phase = [i \in Node |-> "off"]
  /\ name = [i \in Node |-> i]
  /\ contacts = [i \in Node |-> EmptyTable]
  /\ greeted = [i \in Node |-> FALSE]
  /\ air = {} /\ lost = 0
  /\ link = [l \in Link |-> "none"]
  /\ wire = [l \in Link |-> [i \in Node |-> <<>>]]
  /\ audience = [i \in Node |-> {}]

-----------------------------------------------------------------------------
(* SMessenger::send: one datagram to each member of the group.  (Its       *)
(* sender's own copy is recognised by its address and ignored.)            *)
Datagrams(i, tag, n) ==
  {[to |-> j, msg |-> [tag |-> tag, name |-> n, addr |-> [host |-> i, port |-> "server"]]] :
     j \in {j \in Node \ {i} : OnBus(j)}}

(* The program starts: SBus::SBus and its default safe name. *)
Start(i) ==
  /\ phase[i] = "off"
  /\ phase' = [phase EXCEPT ![i] = "joined"]
  /\ UNCHANGED <<name, contacts, greeted, air, lost, link, wire, audience>>

(* setName() *)
SetName(i, n) ==
  /\ phase[i] = "joined"
  /\ phase' = [phase EXCEPT ![i] = "active"]
  /\ name' = [name EXCEPT ![i] = n]
  /\ air' = air \cup Datagrams(i, "manameis", n)
  /\ audience' = [audience EXCEPT ![i] = {j \in Node \ {i} : OnBus(j)}]
  /\ UNCHANGED <<contacts, greeted, lost, link, wire>>

(* The multicast cannot be sent: the program ends. *)
SetNameFails(i, n) ==
  /\ phase[i] = "joined"
  /\ phase' = [phase EXCEPT ![i] = "failed"]
  /\ name' = [name EXCEPT ![i] = n]
  /\ air' = {d \in air : d.to # i}
  /\ UNCHANGED <<contacts, greeted, lost, link, wire, audience>>

Lose(d) ==
  /\ lost < MaxLost
  /\ air' = air \ {d} /\ lost' = lost + 1
  /\ UNCHANGED <<phase, name, contacts, greeted, link, wire, audience>>

-----------------------------------------------------------------------------
Other(l, i) == IF l[1] = i THEN l[2] ELSE l[1]

(* A NAMETAKEN on connection l; its port is that of the sender's end.      *)
Put(w, l, i) ==
  [w EXCEPT ![l][Other(l, i)] = Append(@,
     [tag |-> "nametaken", name |-> name[i],
      addr |-> [host |-> i, port |-> IF l[1] = i THEN "client" ELSE "server"]])]

(* send(SBUS_NAMETAKEN, peer, name): on the descriptor on record, or on a  *)
(* new connection to the address on record.  A connection nobody accepts   *)
(* counts as connected and its end is noticed later.                       *)
(* Mutant: only a peer that is connected already is answered. *)
Replies_OnlyConnected(i, p, t, w) ==
  LET r == t.peers[p] IN
  IF r.socket # NoFd
  THEN {[contacts |-> t, link |-> link,
         wire |-> IF link[r.socket] = "open" THEN Put(w, r.socket, i) ELSE w]}
  ELSE {[contacts |-> t, link |-> link, wire |-> w]}

Replies(i, p, t, w) ==
  LET r  == t.peers[p]
      l  == <<i, r.addr.host>>
      up == r.addr.port = "server" /\ OnBus(r.addr.host)
  IN IF r.socket # NoFd
     THEN {[contacts |-> t, link |-> link,
            wire |-> IF link[r.socket] = "open" THEN Put(w, r.socket, i) ELSE w]}
     ELSE {[contacts |-> u, link |-> [link EXCEPT ![l] = IF up THEN "open" ELSE "ended"],
            wire |-> IF up THEN Put(w, l, i) ELSE w] :
             u \in UpdateSockets(t, r, l, Now)}

NoReply(t, w) == {[contacts |-> t, link |-> link, wire |-> w]}

(* The program says hi after the first message it is given. *)
Hi(i) == IF greeted[i] THEN {} ELSE Datagrams(i, "user", EmptyName)

(* Whether a message claims the name of i.  Mutant: any claim does. *)
Taken_AnyClaim(i, m) == m.tag = "manameis"
Taken(i, m) == m.tag = "manameis" /\ m.name = name[i]

(* processSMsg() and the program's reaction to a message that leaves it    *)
(* running.                                                                *)
Carry(i, d, m, sky, w) ==
  /\ m.tag \in {"user", "manameis"}
  /\ \E s \in Senders(contacts[i], d, Mc, m.addr, name[i], Now) :
       LET t == IF m.tag = "user" THEN s.table
                ELSE UpdateName(s.table, s.table.peers[s.peer], m.name, Now)
       IN \E o \in IF Taken(i, m) THEN Replies(i, s.peer, t, w) ELSE NoReply(t, w) :
            /\ contacts' = [contacts EXCEPT ![i] = o.contacts]
            /\ link' = o.link /\ wire' = o.wire
  /\ greeted' = [greeted EXCEPT ![i] = TRUE]
  /\ air' = sky \cup Hi(i)
  /\ UNCHANGED <<phase, name, lost, audience>>

(* NAMETAKEN: the C++ program throws, the C program may still say hi; then *)
(* the process ends.  Its connections end at the other side, with what was *)
(* sent unless data it had not read makes the kernel reset them.           *)
(* Mutant: the program goes on. *)
Abort_GoesOn(i, m, w) ==
  /\ m.tag = "nametaken"
  /\ wire' = w
  /\ UNCHANGED <<phase, link, contacts, name, greeted, lost, audience>>

Abort(i, m, w) ==
  /\ m.tag = "nametaken"
  /\ phase' = [phase EXCEPT ![i] = "aborted"]
  /\ \E reset \in SUBSET {l \in Link : w[l][i] # <<>>} :
       wire' = [l \in Link |-> [j \in Node |->
                  IF j = i \/ l \in reset THEN <<>> ELSE w[l][j]]]
  /\ link' = [l \in Link |->
                IF i \in {l[1], l[2]} /\ link[l] = "open" THEN "ended" ELSE link[l]]
  /\ contacts' = [contacts EXCEPT ![i] = EmptyTable]
  /\ UNCHANGED <<name, greeted, lost, audience>>

HearDatagram(i) ==
  /\ phase[i] = "active"
  /\ \E d \in {d \in air : d.to = i} :
       Carry(i, Mc, d.msg, air \ {d}, wire)

HearLink(i, l) ==
  /\ phase[i] = "active" /\ wire[l][i] # <<>>
  /\ LET m == Head(wire[l][i])
         w == [wire EXCEPT ![l][i] = Tail(@)]
     IN \/ Carry(i, l, m, air, w)
        \/ /\ Abort(i, m, w)
           /\ air' \in {{d \in air : d.to # i}, {d \in air : d.to # i} \cup Hi(i)}

(* The end of a connection: its contact has no descriptor any more.  One   *)
(* that nobody accepted ends for the opener only.                          *)
HearEnd(i, l) ==
  /\ phase[i] = "active"
  /\ i = l[1] \/ (i = l[2] /\ phase[l[1]] = "aborted")
  /\ link[l] = "ended" /\ wire[l][i] = <<>>
  /\ link' = [link EXCEPT ![l] = "none"]
  /\ LET r == contacts[i].socket2peer[l] IN
     IF r = Null
     THEN UNCHANGED contacts
     ELSE \E t \in UpdateSockets(contacts[i], r, NoFd, Now) :
            contacts' = [contacts EXCEPT ![i] = t]
  /\ UNCHANGED <<phase, name, greeted, air, lost, wire, audience>>

Hear(i) == HearDatagram(i) \/ \E l \in Link : HearLink(i, l) \/ HearEnd(i, l)

Next ==
  \/ \E i \in Node :
       \/ Start(i)
       \/ \E n \in Claim : SetName(i, n) \/ SetNameFails(i, n)
       \/ Hear(i)
  \/ \E d \in air : Lose(d)

(* A program that has claimed a name calls recv() for ever. *)
Spec == Init /\ [][Next]_vars /\ \A i \in Node : WF_vars(Hear(i))

-----------------------------------------------------------------------------
TypeOK ==
  /\ phase \in [Node -> {"off", "joined", "active", "failed", "aborted"}]
  /\ name \in [Node -> Claim \cup Node]
  /\ \A i \in Node : contacts[i] \in Table
  /\ greeted \in [Node -> BOOLEAN]
  /\ air \subseteq [to : Node, msg : Msg]
  /\ lost \in 0..MaxLost
  /\ link \in [Link -> {"none", "open", "ended"}]
  /\ \A l \in Link, i \in Node : wire[l][i] \in Seq(Msg)
  /\ audience \in [Node -> SUBSET Node]

(* A program gives up only to an SBus that has claimed the same name and   *)
(* was on the bus before: whoever holds a name is not driven out by a      *)
(* newcomer, and NAMETAKEN is told to no one else.                         *)
GivesUpToRival ==
  \A i \in Node : phase[i] = "aborted" => \E j \in audience[i] : name[j] = name[i]

(* When everything sent has been processed and no datagram was lost, no    *)
(* two active SBuses have the same name.                                   *)
Clash(i, j) == i # j /\ phase[i] = "active" /\ phase[j] = "active" /\ name[i] = name[j]

Settled == air = {} /\ \A l \in Link, i \in Node : wire[l][i] = <<>>

UniqueWhenSettled == Settled /\ lost = 0 => \A i, j \in Node : ~ Clash(i, j)

(* A clash does not last: one of the two learns of it and gives up, unless *)
(* the network loses a datagram.                                           *)
ClashesEnd == \A i, j \in Node : Clash(i, j) ~> ~ Clash(i, j) \/ lost > 0

(* "it allows user applications to know their name was already taken by    *)
(* some other": whoever is told NAMETAKEN has a rival.                     *)
ToldOnlyIfTaken ==
  \A i \in Node : phase[i] = "aborted" => \E j \in Node \ {i} : name[j] = name[i]
=============================================================================
