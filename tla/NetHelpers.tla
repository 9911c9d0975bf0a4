----------------------------- MODULE NetHelpers -----------------------------
(***************************************************************************)
(* The helpers that open and close sockets (stcp.c, sudp.c, sockaddr.c) as *)
(* scripts of system calls, any of which may fail.  A script runs on an    *)
(* outcome: the process's descriptor table, what the last helper returned  *)
(* (-1 for an error), how many calls have failed.  It yields the set of    *)
(* outcomes it may end in.  RET_ON_PERROR returns without closing what was *)
(* opened.                                                                 *)
(***************************************************************************)
EXTENDS Integers

CONSTANT MaxFd       \* bound: descriptors 1..MaxFd

ASSUME MaxFdAssumption == MaxFd \in Nat

Fd   == 1..MaxFd
Kind == {"free", "tcp", "udp", "query", "mac", "app"}

Start(t) == [t |-> t, ret |-> 0, bad |-> 0]

Then(outcomes, F(_)) == UNION {IF o.ret = -1 THEN {o} ELSE F(o) : o \in outcomes}

Failed(o)    == [o EXCEPT !.ret = -1, !.bad = @ + 1]
Checked(o)   == {o, Failed(o)}                      \* RET_ON_PERROR(call)
Unchecked(o) == {o, [o EXCEPT !.bad = @ + 1]}       \* the result is ignored

(* socket(): the lowest free descriptor; it has to fail if none is left. *)
Open(o, kind) ==
  LET free == {f \in Fd : o.t[f] = "free"} IN
  IF free = {}
  THEN {[o EXCEPT !.ret = -1]}
  ELSE {Failed(o)} \cup
       {[o EXCEPT !.t[f] = kind, !.ret = f] : f \in {f \in free : \A g \in free : f <= g}}

Close(o, f) == [o EXCEPT !.t[f] = "free"]

-----------------------------------------------------------------------------
(* An address is asked of the kernel through a socket made for it.         *)
(* Mutant: the socket is not closed. *)
Query_NotClosed(o) ==
  Then(Open(o, "query"), LAMBDA p : {[p EXCEPT !.ret = 0], Failed(p)})

Query(o) ==
  Then(Open(o, "query"), LAMBDA p : {[Close(p, p.ret) EXCEPT !.ret = 0], Failed(p)})

sockaddr_device2ip(o)      == Query(o)
sockaddr_getMask(o)        == Query(o)
sockaddr_getBroadcast(o)   == Query(o)
sockaddr_interfaceCount(o) == Query(o)
sockaddr_ips(o)            == Query(o)

(* Never closes its socket. *)
sockaddr_getMAC(o) == Then(Open(o, "mac"), LAMBDA p : {[p EXCEPT !.ret = 0], Failed(p)})

-----------------------------------------------------------------------------
stcp_setNonBlocking(o) == Unchecked(o)

(* Options, bind, listen. *)
stcp_server(o) == Then(Open(o, "tcp"), Checked)

(* The error of connect() is overwritten with EAGAIN, which passes for a   *)
(* connection in progress.                                                 *)
stcp_client(o) ==
  Then(Open(o, "app"), LAMBDA p : UNION {Unchecked(q) : q \in stcp_setNonBlocking(p)})

sudp_create(o) == Then(Open(o, "app"), Checked)
sudp_bcast(o)  == Then(Open(o, "app"), Checked)

(* The address of the named interface is asked for twice; -1 passes for an *)
(* address, one that the group then cannot be joined from.                 *)
sudp_mcast(o, device) ==
  LET Twice(p) == UNION {{[r EXCEPT !.ret = IF q.ret = -1 THEN -1 ELSE @] :
                            r \in sockaddr_device2ip([q EXCEPT !.ret = 0])} :
                              q \in sockaddr_device2ip(p)}
      Join(p)  == Then(IF device THEN Twice(p) ELSE {p},
                       LAMBDA q : Checked([q EXCEPT !.ret = p.ret]))
      Bound(p) == Then(Checked(p), Join)
  IN Then(Checked(o), LAMBDA p : Then(Open(p, "udp"), Bound))

(* Unless the group can be looked up and left, the socket stays open; only *)
(* a socket that has joined it can leave it.                               *)
sudp_mclose(o, f, device) ==
  LET Leave(p) == IF f \in Fd /\ p.t[f] = "udp"
                  THEN {Failed(p), Close(p, f)}
                  ELSE {[p EXCEPT !.ret = -1]}
      Named(p) == Then(IF device THEN sockaddr_device2ip(p) ELSE {p}, Leave)
  IN Then(Checked(o), Named)
=============================================================================
