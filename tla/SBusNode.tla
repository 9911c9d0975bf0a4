------------------------------ MODULE SBusNode ------------------------------
(***************************************************************************)
(* One SBus: the application thread, the receiving thread started by       *)
(* SBus::init, the kernel's descriptors underneath, and the other SBuses   *)
(* as its environment.                                                     *)
(*                                                                         *)
(* The receiving thread loops over SMessenger::recv (accept at most one    *)
(* connection, poll, handle the first ready descriptor) and pushes what it *)
(* got on inq under inMutex.  The application thread pops inq, identifies  *)
(* the sender in the contact list and answers system messages, or sends.   *)
(* The two share inq, the poll list and the kernel's descriptor numbers,   *)
(* which are reused as soon as they are closed.                            *)
(*                                                                         *)
(* Frames arrive whole; the poll list is the WatchList that SPoll          *)
(* implements, whose add() may refuse a connection; no contact is ever     *)
(* idle long enough for a cleanup.                                         *)
(***************************************************************************)
EXTENDS Integers, Sequences, FiniteSets

CONSTANTS
  Remote,     \* the other SBuses, one per ip
  Self,       \* this SBus's own ip
  Name, EmptyName, OwnName,
  Tag,        \* message tags in use, of AllTags
  MaxFd,      \* bound: descriptors 1..MaxFd
  MaxConns,   \* bound: TCP connections in one run
  Heard,      \* whose multicast datagrams arrive, of Remote and Self
  Endless,    \* do the other SBuses go on sending for ever?
  MaxMsgs,    \* bound: their messages, in one run or, if Endless, under way
  MaxErrors,  \* bound: errors of the multicast socket and failing calls
  MaxSends,   \* bound: unicast sends of the application
  Null

AllTags == {"user", "find", "manameis", "nametaken"}

Fd       == 1..MaxFd
NoFd     == -1
ConnId   == 1..MaxConns
McSource == 0

(* A multicast message carries the port of its sender's TCP server; a TCP  *)
(* message carries the local port of the sender's end of the connection:   *)
(* the server port if we connected, an ephemeral one if the sender did.    *)
Addr    == [host : Remote, port : {"server", "client"}]
OwnAddr == [host |-> Self, port |-> "server"]
AnyAddr == Addr \cup {OwnAddr}

INSTANCE ContactTable WITH
  Socket <- Fd, NoSocket <- NoFd, MaxPeers <- 2 * Cardinality(Remote),
  MaxIdle <- 1, CleanPeriod <- 1

(* Time stands still: activity times never matter without cleanups.        *)
Now == 0

(* Only system messages carry a text that matters here: a name.            *)
Msg == [tag : Tag, addr : AnyAddr, name : AnyName]
Texts(t) == IF t = "user" THEN {EmptyName} ELSE Name

(* An SMsg: what was read, the descriptor it was read from and, for the    *)
(* properties only, the connection that was and the host at its other end. *)
SMsg == [what : Msg \cup {Null}, sock : Fd, src : ConnId \cup {McSource},
         host : Remote \cup {Self}]
IsError(q) == q.what = Null

Conn == [host : Remote, port : {"server", "client"},
         state : {"open", "eof", "reset", "gone"}, data : Seq(Msg)]

ASSUME NodeAssumption ==
  /\ IsFiniteSet(Remote) /\ Self \notin Remote /\ Heard \subseteq Remote \cup {Self}
  /\ OwnName \in Name /\ Tag \subseteq AllTags
  /\ MaxFd \in Nat \ {0}
  /\ Endless \in BOOLEAN
  /\ MaxConns \in Nat /\ MaxMsgs \in Nat /\ MaxErrors \in Nat /\ MaxSends \in Nat
  /\ Null \notin PeerInfo \cup Addr \cup Conn \cup Msg \cup SMsg

VARIABLES
  fdt,       \* kernel: what a descriptor is: 0 closed, a connection, or "mc"
  conns,     \* kernel and network: the TCP connections by creation
  backlog,   \* connections not accepted yet
  mcin,      \* datagrams not read yet
  mcerr,     \* the multicast socket has a pending error
  mcsock,    \* SMessenger::mcsock
  poll,      \* SMessenger::spoll
  inPc, inMsg,            \* receiving thread: where it is, the SMsg it holds
  moved,     \* observed: mcsock was made again under another number
  lost,      \* observed: connections left open and out of the poll list
  inq,                    \* SBus::inq
  appPc, appMsg, job,     \* application thread: where, its SMsg, its send
  contacts,  \* SBus::scontacts
  received,  \* what recv() told the application, until it takes the next
  wrote,     \* the last unicast written: for whom, and who got it
  used       \* counts what the environment did, for the bounds

kernel == <<fdt, conns, backlog, mcin, mcerr>>
inThread == <<inPc, inMsg, moved, lost>>
appThread == <<appPc, appMsg, job, contacts, received, wrote>>
vars == <<kernel, mcsock, poll, inThread, inq, appThread, used>>

Closed == 0
Mc == MaxConns + 1      \* fdt value of the multicast socket

OpenFds  == {f \in Fd : fdt[f] # Closed}
FreeFds  == Fd \ OpenFds
NewFd    == CHOOSE f \in FreeFds : \A g \in FreeFds : f <= g
NewConns == {c \in ConnId : conns[c] = Null}
NewConn  == CHOOSE c \in NewConns : \A d \in NewConns : c <= d

(* Mutant: spoll.remove() is forgotten. *)
Without_Nothing(s, f) == s

(* SPoll::remove: the first occurrence. *)
Without(s, f) ==
  IF \E i \in 1..Len(s) : s[i] = f
  THEN LET k == CHOOSE i \in 1..Len(s) : s[i] = f /\ \A j \in 1..(i-1) : s[j] # f
       IN SubSeq(s, 1, k - 1) \o SubSeq(s, k + 1, Len(s))
  ELSE s

(* What the application thread sends: to whom, the descriptor, what, where *)
(* it goes on, and the connection it waits for (0: none).                  *)
NoJob == [peer |-> 0, fd |-> NoFd, tag |-> "user", back |-> "app", conn |-> 0]
Used0 == [msgs |-> 0, errors |-> 0, sends |-> 0]

Init ==
  /\ fdt = [f \in Fd |-> IF f = 1 THEN Mc ELSE Closed]
  /\ conns = [c \in ConnId |-> Null]
  /\ backlog = <<>> /\ mcin = <<>> /\ mcerr = FALSE
  /\ mcsock = 1 /\ poll = <<1>>
  /\ inPc = "listen" /\ inMsg = Null /\ moved = FALSE /\ lost = {}
  /\ inq = <<>>
  /\ appPc = "app" /\ appMsg = Null /\ job = NoJob
  /\ contacts = EmptyTable
  /\ received = Null /\ wrote = Null
  /\ used = Used0

-----------------------------------------------------------------------------
(* The other SBuses and the network. *)

(* What arrived and was not read, by source; what was read and not taken.  *)
Source == ConnId \cup {McSource}

Chan == [s \in Source |-> CASE s = McSource -> mcin
                           [] s \in NewConns -> <<>>
                           [] OTHER -> conns[s].data]

Held == IF inPc \in {"push", "remake"} THEN <<inMsg>> ELSE <<>>

(* Traffic never ends, or is bounded altogether.                           *)
UnderWay ==
  Cardinality(UNION {{s} \X (1..Len(Chan[s])) : s \in Source}) + Len(inq \o Held)

Sending ==
  IF Endless THEN UnderWay < MaxMsgs /\ UNCHANGED used
  ELSE used.msgs < MaxMsgs /\ used' = [used EXCEPT !.msgs = @ + 1]

(* A call fails or a socket breaks.                                        *)
Failing ==
  /\ used.errors < MaxErrors
  /\ used' = [used EXCEPT !.errors = @ + 1]

(* A datagram reaches us, or loops back if the application multicast it.   *)
McArrive(h, t, n) ==
  /\ Sending
  /\ mcin' = Append(mcin, [tag |-> t, addr |-> [host |-> h, port |-> "server"], name |-> n])
  /\ UNCHANGED <<fdt, conns, backlog, mcerr, mcsock, poll, inThread, inq, appThread>>

McBreak ==
  /\ fdt[mcsock] = Mc
  /\ Failing
  /\ mcerr' = TRUE
  /\ UNCHANGED <<fdt, conns, backlog, mcin, mcsock, poll, inThread, inq, appThread>>

RemoteConnect(r) ==
  /\ NewConns # {}
  /\ \A c \in ConnId \ NewConns :
       conns[c].host = r /\ conns[c].port = "client" => conns[c].state = "gone"
  /\ conns' = [conns EXCEPT ![NewConn] =
                 [host |-> r, port |-> "client", state |-> "open", data |-> <<>>]]
  /\ backlog' = Append(backlog, NewConn)
  /\ UNCHANGED <<fdt, mcin, mcerr, mcsock, poll, inThread, inq, appThread, used>>

Established(c) == c \notin NewConns /\ conns[c].state = "open"

RemoteSend(c, t, n) ==
  /\ Established(c)
  /\ Sending
  /\ conns' = [conns EXCEPT ![c].data = Append(@,
                 [tag |-> t, addr |-> [host |-> conns[c].host, port |-> conns[c].port],
                  name |-> n])]
  /\ UNCHANGED <<fdt, backlog, mcin, mcerr, mcsock, poll, inThread, inq, appThread>>

(* An orderly end leaves what was sent to be read, a reset does not.       *)
RemoteClose(c) ==
  /\ Established(c)
  /\ conns' = [conns EXCEPT ![c].state = "eof"]
  /\ UNCHANGED <<fdt, backlog, mcin, mcerr, mcsock, poll, inThread, inq, appThread, used>>

RemoteReset(c) ==
  /\ Established(c)
  /\ conns' = [conns EXCEPT ![c].state = "reset", ![c].data = <<>>]
  /\ UNCHANGED <<fdt, backlog, mcin, mcerr, mcsock, poll, inThread, inq, appThread, used>>

Environment ==
  \/ \E h \in Heard, t \in Tag : \E n \in Texts(t) : McArrive(h, t, n)
  \/ McBreak
  \/ \E r \in Remote : RemoteConnect(r)
  \/ \E c \in ConnId :
       (\E t \in Tag : \E n \in Texts(t) : RemoteSend(c, t, n))
       \/ RemoteClose(c) \/ RemoteReset(c)

-----------------------------------------------------------------------------
(* The receiving thread. *)

(* listenConn(): at most one connection per round is accepted.  If accept  *)
(* fails, recv() returns before it polls.  acceptConn() does not look at   *)
(* what spoll.add() returns.                                               *)
Listen ==
  /\ inPc = "listen"
  /\ \/ backlog = <<>> /\ UNCHANGED <<fdt, backlog, poll, lost, used>>
     \/ /\ backlog # <<>> /\ FreeFds # {}
        /\ fdt' = [fdt EXCEPT ![NewFd] = Head(backlog)]
        /\ backlog' = Tail(backlog)
        /\ \/ poll' = Append(poll, NewFd) /\ UNCHANGED <<lost, used>>
           \/ Failing /\ lost' = lost \cup {Head(backlog)} /\ UNCHANGED poll
  /\ inPc' = "poll"
  /\ UNCHANGED <<conns, mcin, mcerr, mcsock, inMsg, moved, inq, appThread>>

(* Mutant: reading 0 bytes is not taken for the end of a connection. *)
Broken_NoEof(f) ==
  CASE fdt[f] = Closed -> TRUE
    [] fdt[f] = Mc     -> mcerr
    [] OTHER           -> conns[fdt[f]].state = "reset"

Broken(f) ==
  CASE fdt[f] = Closed -> TRUE
    [] fdt[f] = Mc     -> mcerr
    [] OTHER           -> \/ conns[fdt[f]].state = "reset"
                          \/ conns[fdt[f]].state = "eof" /\ conns[fdt[f]].data = <<>>

Readable(f) ==
  ~ Broken(f) /\ IF fdt[f] = Mc THEN mcin # <<>> ELSE conns[fdt[f]].data # <<>>

(* recv() handles the first descriptor of the poll list with an event.     *)
First(i) ==
  /\ Broken(poll[i]) \/ Readable(poll[i])
  /\ \A j \in 1..(i - 1) : ~ Broken(poll[j]) /\ ~ Readable(poll[j])

(* Mutant: a timeout is queued as well. *)
Idle_PushesNull ==
  /\ inPc = "poll"
  /\ \A i \in 1..Len(poll) : ~ Broken(poll[i]) /\ ~ Readable(poll[i])
  /\ inPc' = "listen"
  /\ inq' = Append(inq, Null)
  /\ UNCHANGED <<kernel, mcsock, poll, inMsg, moved, lost, appThread, used>>

Idle ==
  /\ inPc = "poll"
  /\ \A i \in 1..Len(poll) : ~ Broken(poll[i]) /\ ~ Readable(poll[i])
  /\ inPc' = "listen"
  /\ UNCHANGED <<kernel, mcsock, poll, inMsg, moved, lost, inq, appThread, used>>

Read(f) ==
  /\ inPc = "poll"
  /\ Readable(f)
  /\ IF fdt[f] = Mc
     THEN /\ mcin' = Tail(mcin)
          /\ inMsg' = [what |-> Head(mcin), sock |-> f, src |-> McSource,
                       host |-> Head(mcin).addr.host]
          /\ UNCHANGED conns
     ELSE LET c == fdt[f] IN
          /\ conns' = [conns EXCEPT ![c].data = Tail(@)]
          /\ inMsg' = [what |-> Head(conns[c].data), sock |-> f, src |-> c,
                       host |-> conns[c].host]
          /\ UNCHANGED mcin
  /\ inPc' = "push"
  /\ UNCHANGED <<fdt, backlog, mcerr, mcsock, poll, moved, lost, inq, appThread, used>>

(* socketErrorHandling(): any descriptor but mcsock leaves the poll list   *)
(* and is closed; mcsock is closed, stays in the list and is made again.   *)
Drop(f) ==
  /\ inPc = "poll"
  /\ Broken(f)
  /\ fdt' = [fdt EXCEPT ![f] = Closed]
  /\ IF fdt[f] \in ConnId
     THEN conns' = [conns EXCEPT ![fdt[f]].state = "gone"]
     ELSE UNCHANGED conns
  /\ IF fdt[f] = Mc THEN mcin' = <<>> /\ mcerr' = FALSE ELSE UNCHANGED <<mcin, mcerr>>
  /\ IF f = mcsock
     THEN UNCHANGED poll /\ inPc' = "remake"
     ELSE poll' = Without(poll, f) /\ inPc' = "push"
  /\ inMsg' = [what |-> Null, sock |-> f,
               src  |-> IF fdt[f] \in ConnId THEN fdt[f] ELSE McSource,
               host |-> IF fdt[f] \in ConnId THEN conns[fdt[f]].host ELSE Self]
  /\ UNCHANGED <<backlog, mcsock, moved, lost, inq, appThread, used>>

Poll == \E i \in 1..Len(poll) : First(i) /\ (Read(poll[i]) \/ Drop(poll[i]))

(* Mutant: the old entry is taken to be enough. *)
Remake_NotAdded ==
  /\ inPc = "remake"
  /\ FreeFds # {}
  /\ mcsock' = NewFd /\ moved' = (moved \/ NewFd # mcsock)
  /\ fdt' = [fdt EXCEPT ![NewFd] = Mc]
  /\ inPc' = "push"
  /\ UNCHANGED <<conns, backlog, mcin, mcerr, poll, inMsg, lost, inq, appThread, used>>

(* initMCast(): the socket is added to a list that has its old number.     *)
Remake ==
  /\ inPc = "remake"
  /\ FreeFds # {}
  /\ mcsock' = NewFd /\ moved' = (moved \/ NewFd # mcsock)
  /\ fdt' = [fdt EXCEPT ![NewFd] = Mc]
  /\ poll' = Append(poll, NewFd)
  /\ inPc' = "push"
  /\ UNCHANGED <<conns, backlog, mcin, mcerr, inMsg, lost, inq, appThread, used>>

(* Mutant: push_front. *)
Push_ToFront ==
  /\ inPc = "push"
  /\ inq' = <<inMsg>> \o inq
  /\ inPc' = "listen" /\ inMsg' = Null
  /\ UNCHANGED <<kernel, mcsock, poll, moved, lost, appThread, used>>

(* inLoop(): push_back under inMutex. *)
Push ==
  /\ inPc = "push"
  /\ inq' = Append(inq, inMsg)
  /\ inPc' = "listen" /\ inMsg' = Null
  /\ UNCHANGED <<kernel, mcsock, poll, moved, lost, appThread, used>>

InThread == Listen \/ Idle \/ Poll \/ Remake \/ Push

-----------------------------------------------------------------------------
(* The application thread. *)

(* SBus::recv: pop_front under inMutex.  After a message that is not for   *)
(* the application recv() goes on waiting ("recv").                        *)
Pop ==
  /\ appPc \in {"app", "recv"}
  /\ inq # <<>>
  /\ appMsg' = Head(inq)
  /\ inq' = Tail(inq)
  /\ appPc' = "process"
  /\ received' = Null
  /\ UNCHANGED <<kernel, mcsock, poll, inThread, job, contacts, wrote, used>>

Deliver(p, t) ==
  received' = [peer |-> p, as |-> t.peers[p].addr.host, from |-> appMsg.host]

Reply(p, tag, back) == job' = [NoJob EXCEPT !.peer = p, !.tag = tag, !.back = back]

(* Mutants: the disconnection is only logged; the record is changed in     *)
(* place and its index entries are not.                                    *)
ProcessError_Ignored ==
  /\ appPc = "process" /\ IsError(appMsg)
  /\ appPc' = "recv" /\ appMsg' = Null
  /\ UNCHANGED <<kernel, mcsock, poll, inThread, inq, job, contacts, received, wrote, used>>

ProcessError_InPlace ==
  /\ appPc = "process" /\ IsError(appMsg)
  /\ LET r == contacts.socket2peer[appMsg.sock] IN
     IF r # Null
     THEN contacts' = [contacts EXCEPT !.peers[r.peer].socket = NoFd]
     ELSE UNCHANGED contacts
  /\ appPc' = "recv" /\ appMsg' = Null
  /\ UNCHANGED <<kernel, mcsock, poll, inThread, inq, job, received, wrote, used>>

ProcessError ==
  /\ appPc = "process" /\ IsError(appMsg)
  /\ LET r == contacts.socket2peer[appMsg.sock] IN
     IF r # Null
     THEN contacts' \in UpdateSockets(contacts, r, NoFd, Now)
     ELSE UNCHANGED contacts
  /\ appPc' = "recv" /\ appMsg' = Null
  /\ UNCHANGED <<kernel, mcsock, poll, inThread, inq, job, received, wrote, used>>

ProcessSelf ==
  /\ appPc = "process" /\ ~ IsError(appMsg)
  /\ appMsg.what.addr = OwnAddr
  /\ appPc' = "recv" /\ appMsg' = Null
  /\ UNCHANGED <<kernel, mcsock, poll, inThread, inq, job, contacts, received, wrote, used>>

ProcessData ==
  /\ appPc = "process" /\ ~ IsError(appMsg)
  /\ appMsg.what.addr # OwnAddr
  /\ \E s \in Senders(contacts, appMsg.sock, mcsock, appMsg.what.addr, OwnName, Now) :
       LET t == s.table  p == s.peer  m == appMsg.what  mine == m.name = OwnName IN
       \/ /\ m.tag = "find"
          /\ contacts' = t
          /\ IF mine
             THEN appPc' = "resolve" /\ Reply(p, "manameis", "recv")
             ELSE appPc' = "recv" /\ UNCHANGED job
          /\ UNCHANGED received
       \/ /\ m.tag = "manameis"
          /\ contacts' = UpdateName(t, t.peers[p], m.name, Now)
          /\ Deliver(p, contacts')
          /\ IF mine
             THEN appPc' = "resolve" /\ Reply(p, "nametaken", "app")
             ELSE appPc' = "app" /\ UNCHANGED job
       \/ /\ m.tag = "nametaken"
          /\ contacts' = UpdateName(t, t.peers[p], m.name, Now)
          /\ Deliver(p, contacts')
          /\ appPc' = "app" /\ UNCHANGED job
       \/ /\ m.tag = "user"
          /\ contacts' = t
          /\ Deliver(p, t)
          /\ appPc' = "app" /\ UNCHANGED job
  /\ appMsg' = Null
  /\ UNCHANGED <<kernel, mcsock, poll, inThread, inq, wrote, used>>

(* SBus::send to a peer id the application has been given. *)
UserSend(p) ==
  /\ appPc = "app"
  /\ used.sends < MaxSends
  /\ p <= contacts.last
  /\ Reply(p, "user", "app")
  /\ appPc' = "resolve"
  /\ used' = [used EXCEPT !.sends = @ + 1]
  /\ UNCHANGED <<kernel, mcsock, poll, inThread, inq, appMsg, contacts, received, wrote>>

(* peer2Socket(): the descriptor on record, or a new connection. *)
Resolve ==
  /\ appPc = "resolve"
  /\ contacts.peers[job.peer].socket # NoFd
  /\ job' = [job EXCEPT !.fd = contacts.peers[job.peer].socket]
  /\ appPc' = "write"
  /\ UNCHANGED <<kernel, mcsock, poll, inThread, inq, appMsg, contacts, received, wrote, used>>

(* SMessenger::connect: the socket is open from here on, and nobody polls  *)
(* it.  stcp_client takes a refused connection for one in progress, so the *)
(* call goes on whether or not somebody listens at the address.            *)
Connect ==
  /\ appPc = "resolve"
  /\ contacts.peers[job.peer].socket = NoFd
  /\ NewConns # {}
  /\ LET r == contacts.peers[job.peer] IN
     IF FreeFds = {}
     THEN /\ job' = NoJob /\ appPc' = job.back
          /\ UNCHANGED <<fdt, conns>>
     ELSE /\ \E result \in {"open", "reset"} :
               /\ r.addr.port = "client" => result = "reset"
               /\ conns' = [conns EXCEPT ![NewConn] =
                    [host |-> r.addr.host, port |-> r.addr.port,
                     state |-> result, data |-> <<>>]]
          /\ fdt' = [fdt EXCEPT ![NewFd] = NewConn]
          /\ job' = [job EXCEPT !.fd = NewFd, !.conn = NewConn]
          /\ appPc' = "connect"
  /\ UNCHANGED <<backlog, mcin, mcerr, mcsock, poll, inThread, inq, appMsg,
                 contacts, received, wrote, used>>

(* The wait of MAX_CONN_TIMEOUT_MS is over: spoll.add() and updateSocket().*)
Watch ==
  /\ appPc = "connect"
  /\ poll' = Append(poll, job.fd)
  /\ contacts' \in UpdateSockets(contacts, contacts.peers[job.peer], job.fd, Now)
  /\ job' = [job EXCEPT !.conn = 0]
  /\ appPc' = "write"
  /\ UNCHANGED <<kernel, mcsock, inThread, inq, appMsg, received, wrote, used>>

(* poll() fails while connect() waits, or spoll.add() refuses: -1 is       *)
(* returned and the descriptor stays open.                                 *)
Leak ==
  /\ appPc = "connect"
  /\ Failing
  /\ lost' = lost \cup {job.conn}
  /\ job' = NoJob /\ appPc' = job.back
  /\ UNCHANGED <<kernel, mcsock, poll, inPc, inMsg, moved, inq, appMsg,
                 contacts, received, wrote>>

(* SMessenger::send: the frame goes to whoever is behind the descriptor    *)
(* by now.                                                                 *)
Write ==
  /\ appPc = "write"
  /\ IF fdt[job.fd] \in ConnId /\ conns[fdt[job.fd]].state # "reset"
     THEN wrote' = [to |-> contacts.peers[job.peer].addr.host,
                    at |-> conns[fdt[job.fd]].host]
     ELSE UNCHANGED wrote
  /\ job' = NoJob /\ appPc' = job.back
  /\ UNCHANGED <<kernel, mcsock, poll, inThread, inq, appMsg, contacts, received, used>>

AppThread ==
  \/ Pop \/ ProcessError \/ ProcessSelf \/ ProcessData
  \/ \E p \in PeerId : UserSend(p)
  \/ Resolve \/ Connect \/ Watch \/ Leak \/ Write

Next == Environment \/ InThread \/ AppThread

Spec == Init /\ [][Next]_vars

(* The receiving thread is scheduled for ever. *)
FairSpec == Spec /\ WF_vars(InThread)

-----------------------------------------------------------------------------
TypeOK ==
  /\ fdt \in [Fd -> 0..Mc]
  /\ conns \in [ConnId -> Conn \cup {Null}]
  /\ backlog \in Seq(ConnId)
  /\ mcin \in Seq(Msg) /\ mcerr \in BOOLEAN /\ mcsock \in Fd
  /\ poll \in Seq(Fd)
  /\ inPc \in {"listen", "poll", "push", "remake"} /\ inMsg \in SMsg \cup {Null}
  /\ moved \in BOOLEAN /\ lost \subseteq ConnId
  /\ inq \in Seq(SMsg)
  /\ appPc \in {"app", "recv", "process", "resolve", "connect", "write"}
  /\ appMsg \in SMsg \cup {Null}
  /\ job \in [peer : PeerId \cup {0}, fd : Fd \cup {NoFd}, tag : AllTags,
              back : {"app", "recv"}, conn : 0..MaxConns]
  /\ contacts \in Table
  /\ used \in [msgs : 0..MaxMsgs, errors : 0..MaxErrors, sends : 0..MaxSends]

(* The contact list stays consistent whatever the two threads do: no       *)
(* lookup of processSMsg() or peer2Socket() meets a deleted contact.       *)
ContactsConsistent == Consistent(contacts)

(* As long as the multicast socket was not made again under another        *)
(* number, and but while it is made again: what is in the poll list is     *)
(* open, so none is closed twice, and every open descriptor is in the list *)
(* but the one connect() still waits for and those add() refused or        *)
(* connect() gave up, which stay open and out of the list.  A connection   *)
(* is in the list once; the multicast socket, which is not taken out when  *)
(* it breaks, may be there twice.                                          *)
Occurs(f) == Cardinality({i \in 1..Len(poll) : poll[i] = f})

WatchedExactly ==
  inPc # "remake" /\ ~ moved =>
    \A f \in Fd :
      /\ (Occurs(f) > 0) <=> (fdt[f] # Closed /\ fdt[f] # job.conn /\ fdt[f] \notin lost)
      /\ f # mcsock => Occurs(f) <= 1

(* Whatever numbers are reused, also that of the multicast socket while it *)
(* is made again: an open descriptor is polled, unless connect() is still  *)
(* waiting for it or gave it up, or add() refused it when it was accepted. *)
Polled(f) == \E i \in 1..Len(poll) : poll[i] = f

OpenIsPolled ==
  \A f \in Fd :
    fdt[f] # Closed => \/ Polled(f)
                       \/ fdt[f] = job.conn \/ fdt[f] \in lost

(* A message or a disconnection notice whose descriptor is on record is    *)
(* taken for one of the peer it came from, although the descriptor may     *)
(* have been closed and reused since it was queued.                        *)
SocketNamesSender ==
  appPc = "process" /\ contacts.socket2peer[appMsg.sock] # Null
    => contacts.socket2peer[appMsg.sock].addr.host = appMsg.host

(* "filled with the sender peer's local id": the id recv() gives for a     *)
(* message is that of the peer that sent it.                               *)
SenderAttributed == received # Null => received.as = received.from

(* "Sends an unicast message to a peer": what is written for a peer is not *)
(* written to another one.                                                 *)
UnicastReachesItsPeer == wrote # Null => wrote.to = wrote.at

(* The queue between the threads is a mailbox: what the receiving thread   *)
(* reads reaches processSMsg() once, in the order it was read, and the     *)
(* notice of a closed connection comes after all its messages.             *)
Packed(q) == [src |-> q.src, what |-> q.what]

Box ==
  LET all == inq \o Held
  IN [i \in 1..Len(all) |-> Packed(all[i])]

M == INSTANCE Mailbox WITH
  Source <- Source, Multicast <- McSource, Message <- Msg, Notice <- Null,
  chan <- Chan, box <- Box,
  ended <- {c \in ConnId \ NewConns : conns[c].state = "gone"}
IsMailbox == M!Spec

(* While a frame or the end of a connection is there to be read, the       *)
(* receiving thread comes back to that connection, unless one of three     *)
(* things keeps it from being served: descriptors ahead of it in the poll  *)
(* list, the multicast socket first of all, are found ready again and      *)
(* again; accept() or the repair of the multicast socket finds no free     *)
(* descriptor again and again; or the connection never got into the poll   *)
(* list.                                                                   *)
Unread(c) ==
  /\ c \notin NewConns
  /\ conns[c].data # <<>> \/ conns[c].state \in {"eof", "reset"}

Served(c) == inMsg # Null /\ inMsg.src = c

Overtaken(c) ==
  \E i, j \in 1..Len(poll) :
    /\ i < j /\ fdt[poll[j]] = c
    /\ Broken(poll[i]) \/ Readable(poll[i])

NoFdLeft ==
  /\ FreeFds = {}
  /\ \/ inPc = "remake"
     \/ inPc = "listen" /\ backlog # <<>>

EverythingIsRead ==
  \A c \in ConnId :
    <>[](~ Overtaken(c) /\ ~ NoFdLeft)
      => (Unread(c) ~> (Served(c) \/ c \in lost))
=============================================================================
