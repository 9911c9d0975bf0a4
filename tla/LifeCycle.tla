------------------------------ MODULE LifeCycle ------------------------------
(***************************************************************************)
(* The life of one SBus in its process: construction (SMessenger and       *)
(* SBus::init), the receiving thread's repairs of its two sockets, and     *)
(* destruction, which does not wait for the thread.  System calls may      *)
(* fail, sockets break, and the rest of the process opens and closes       *)
(* descriptors of its own, which share the kernel's numbers.               *)
(*                                                                         *)
(* TCP connections and messages are SBusNode's matter.  The SBus is made   *)
(* through the C++ or the C interface, with or without a named interface.  *)
(***************************************************************************)
EXTENDS NetHelpers

CONSTANTS
  MaxFailures,  \* bound: system calls that fail
  MaxErrors,    \* bound: sockets that break
  MaxUses       \* bound: descriptors the rest of the process asks for

ASSUME BoundsAssumption == MaxFailures \in Nat /\ MaxErrors \in Nat /\ MaxUses \in Nat

NoFd == -1

VARIABLES
  fdt,        \* kernel: what each descriptor is
  broken,     \* descriptors with a pending error
  servsock, mcsock,   \* of the SMessenger
  watched,    \* SMessenger::spoll, as a set
  main,       \* the application: "none", "running", "closing", "disposed",
              \* or how a failed construction ended: "reported", "terminated"
  thread,     \* the receiving thread: "none", where it is, "ended"
  alive,      \* SBus::alive
  how,        \* the interface used, and whether a device is named
  failures, errors, uses,   \* counts, for the bounds
  moved,      \* observed: mcsock was made again under another number, or not
  robbed      \* observed: the library has closed a descriptor not its own

kernel == <<fdt, broken, failures, robbed>>
vars == <<kernel, servsock, mcsock, watched, main, thread, alive, how, errors, uses, moved>>

Init ==
  /\ fdt = [f \in Fd |-> "free"] /\ broken = {}
  /\ servsock = NoFd /\ mcsock = NoFd /\ watched = {}
  /\ main = "none" /\ thread = "none" /\ alive = FALSE
  /\ how \in [api : {"C++", "C"}, device : BOOLEAN]
  /\ failures = 0 /\ errors = 0 /\ uses = 0
  /\ moved = FALSE /\ robbed = FALSE

(* The effect of an outcome on the kernel.  What is closed has no error. *)
Happens(o) ==
  /\ failures + o.bad <= MaxFailures
  /\ failures' = failures + o.bad
  /\ fdt' = o.t
  /\ broken' = {f \in broken : o.t[f] # "free"}
  /\ robbed' = (robbed \/ \E f \in Fd : fdt[f] = "app" /\ o.t[f] # "app")

(* close(f) by the library, whatever f is by now. *)
Closes(f) == Happens(IF f \in Fd THEN Close(Start(fdt), f) ELSE Start(fdt))

-----------------------------------------------------------------------------
(* initServer() and initMCast() *)
InitServer(o) == Then(stcp_server(o), stcp_setNonBlocking)
InitMCast(o)  == Then(sudp_mcast(o, how.device), stcp_setNonBlocking)

(* The SMessenger's own ip; an error is not checked. *)
OwnIp(o) ==
  IF how.device
  THEN sockaddr_device2ip(o)
  ELSE UNION {sockaddr_ips([p EXCEPT !.ret = 0]) : p \in sockaddr_interfaceCount(o)}

(* What is thrown is a string*.  The test program catches one; sbus_create *)
(* catches a string, so the exception leaves the C function.               *)
Thrown ==
  /\ main' = IF how.api = "C++" THEN "reported" ELSE "terminated"
  /\ UNCHANGED <<servsock, mcsock, watched, thread, alive>>

(* Mutant: the constructor does not look at initMCast()'s result. *)
Create_IgnoresMCast ==
  /\ main = "none"
  /\ \E s \in InitServer(Start(fdt)) :
       \/ s.ret = -1 /\ Happens(s) /\ Thrown
       \/ /\ s.ret # -1
          /\ \E m \in InitMCast(s) :
               /\ Happens(m)
               /\ servsock' = s.ret /\ mcsock' = m.ret
               /\ watched' = {m.ret} \cap Fd
               /\ main' = "running" /\ thread' = "listen" /\ alive' = TRUE
  /\ UNCHANGED <<how, errors, uses, moved>>

(* SMessenger::SMessenger, SBus::init and the constructors of SBus.  The   *)
(* sockets of a construction that fails stay open.                         *)
Create ==
  /\ main = "none"
  /\ \E s \in InitServer(Start(fdt)) :
       \/ s.ret = -1 /\ Happens(s) /\ Thrown
       \/ /\ s.ret # -1
          /\ \E m \in InitMCast(s) :
               \/ m.ret = -1 /\ Happens(m) /\ Thrown
               \/ /\ m.ret # -1
                  /\ \E i \in OwnIp(m) : \E p \in Checked([i EXCEPT !.ret = 0]) :
                       /\ Happens(p)
                       /\ \/ p.ret = -1 /\ Thrown        \* pthread_create()
                          \/ /\ p.ret # -1
                             /\ servsock' = s.ret /\ mcsock' = m.ret
                             /\ watched' = {m.ret}
                             /\ main' = "running" /\ thread' = "listen" /\ alive' = TRUE
  /\ UNCHANGED <<how, errors, uses, moved>>

(* ~SBus and ~SMessenger, sbus_dispose(): the multicast socket, then the   *)
(* server socket and the poll list.  Nobody waits for the thread.          *)
Dispose ==
  /\ main = "running"
  /\ main' = "closing" /\ alive' = FALSE
  /\ \E o \in sudp_mclose(Start(fdt), mcsock, how.device) : Happens(o)
  /\ UNCHANGED <<servsock, mcsock, watched, thread, how, errors, uses, moved>>

DisposeServer ==
  /\ main = "closing"
  /\ main' = "disposed" /\ watched' = {}
  /\ Closes(servsock)
  /\ UNCHANGED <<servsock, mcsock, thread, alive, how, errors, uses, moved>>

(* The memory of the SBus is somebody else's now. *)
Reuse ==
  /\ main = "disposed" /\ ~ alive
  /\ alive' = TRUE
  /\ UNCHANGED <<kernel, servsock, mcsock, watched, main, thread, how, errors, uses, moved>>

-----------------------------------------------------------------------------
(* The receiving thread. *)

Bad(f) == fdt[f] = "free" \/ f \in broken     \* POLLNVAL, POLLERR

Goes(from, to) == thread = from /\ thread' = to

(* listenConn(): a server socket with an error is closed and made again.   *)
(* poll() passes over descriptor -1.                                       *)
Listen ==
  /\ \/ /\ servsock \in Fd => ~ Bad(servsock)
        /\ Goes("listen", "poll") /\ UNCHANGED kernel
     \/ /\ servsock \in Fd /\ Bad(servsock)
        /\ Goes("listen", "reopen") /\ Closes(servsock)
  /\ UNCHANGED <<servsock, mcsock, watched, main, alive, how, errors, uses, moved>>

(* Mutant: the old number is closed once more. *)
Reopen_ClosesAgain ==
  /\ \E o \in InitServer(Close(Start(fdt), servsock)) :
       /\ Happens(o) /\ servsock' = o.ret
       /\ Goes("reopen", IF o.ret = -1 THEN "test" ELSE "poll")
  /\ UNCHANGED <<mcsock, watched, main, alive, how, errors, uses, moved>>

Reopen ==
  /\ \E o \in InitServer(Start(fdt)) :
       /\ Happens(o) /\ servsock' = o.ret
       /\ Goes("reopen", IF o.ret = -1 THEN "test" ELSE "poll")
  /\ UNCHANGED <<mcsock, watched, main, alive, how, errors, uses, moved>>

(* socketErrorHandling().  A watched descriptor that is not the multicast  *)
(* socket (any more) is taken for a broken connection; the server socket,  *)
(* should its number be watched, cannot be read from and is one too.       *)
Ready(f) == Bad(f) \/ f = servsock

(* Mutant: only a socket that cannot be polled at all is handled. *)
Poll_OnlyInvalid ==
  /\ \/ /\ \A f \in watched : fdt[f] # "free"
        /\ Goes("poll", "test") /\ UNCHANGED <<kernel, watched>>
     \/ \E f \in watched :
          /\ fdt[f] = "free" /\ Closes(f)
          /\ \/ f = mcsock /\ Goes("poll", "remake") /\ UNCHANGED watched
             \/ f # mcsock /\ Goes("poll", "test") /\ watched' = watched \ {f}
  /\ UNCHANGED <<servsock, mcsock, main, alive, how, errors, uses, moved>>

Poll ==
  /\ \/ /\ \A f \in watched : ~ Bad(f)
        /\ Goes("poll", "test") /\ UNCHANGED <<kernel, watched>>
     \/ \E f \in watched :
          /\ Ready(f) /\ Closes(f)
          /\ \/ f = mcsock /\ Goes("poll", "remake") /\ UNCHANGED watched
             \/ f # mcsock /\ Goes("poll", "test") /\ watched' = watched \ {f}
  /\ UNCHANGED <<servsock, mcsock, main, alive, how, errors, uses, moved>>

(* Mutant: initMCast() does not look at sudp_mcast()'s result. *)
Remake_AddsUnchecked ==
  /\ \E o \in InitMCast(Start(fdt)) :
       /\ Happens(o) /\ mcsock' = o.ret
       /\ watched' = IF main = "disposed" THEN {} ELSE watched \cup {o.ret}
  /\ Goes("remake", "test")
  /\ moved' = (moved \/ mcsock' # mcsock)
  /\ UNCHANGED <<servsock, main, alive, how, errors, uses>>

(* The old number stays watched. *)
Remake ==
  /\ \E o \in InitMCast(Start(fdt)) :
       /\ Happens(o) /\ mcsock' = o.ret
       /\ watched' = IF main = "disposed" THEN {} ELSE watched \cup ({o.ret} \cap Fd)
  /\ Goes("remake", "test")
  /\ moved' = (moved \/ mcsock' # mcsock)
  /\ UNCHANGED <<servsock, main, alive, how, errors, uses>>

(* Mutant: for (;;). *)
Test_Forever ==
  /\ Goes("test", "listen")
  /\ UNCHANGED <<kernel, servsock, mcsock, watched, main, alive, how, errors, uses, moved>>

(* inLoop(): while(alive) *)
Test ==
  /\ Goes("test", IF alive THEN "listen" ELSE "ended")
  /\ UNCHANGED <<kernel, servsock, mcsock, watched, main, alive, how, errors, uses, moved>>

InLoop == Listen \/ Reopen \/ Poll \/ Remake \/ Test

-----------------------------------------------------------------------------
(* The network and the rest of the process. *)

Break(f) ==
  /\ errors < MaxErrors /\ errors' = errors + 1
  /\ fdt[f] \in {"tcp", "udp", "app"} /\ f \notin broken
  /\ broken' = broken \cup {f}
  /\ UNCHANGED <<fdt, failures, robbed, servsock, mcsock, watched, main, thread, alive, how,
                 uses, moved>>

Uses(outcomes) ==
  /\ uses < MaxUses /\ uses' = uses + 1
  /\ \E o \in outcomes : Happens(o)
  /\ UNCHANGED <<servsock, mcsock, watched, main, thread, alive, how, errors, moved>>

Helpers ==
  LET o == Start(fdt) IN
  \/ Uses(stcp_client(o)) \/ Uses(sudp_create(o)) \/ Uses(sudp_bcast(o))
  \/ Uses(sockaddr_getMask(o)) \/ Uses(sockaddr_getBroadcast(o)) \/ Uses(sockaddr_getMAC(o))

AppCloses(f) ==
  /\ fdt[f] = "app"
  /\ fdt' = [fdt EXCEPT ![f] = "free"] /\ broken' = broken \ {f}
  /\ UNCHANGED <<failures, robbed, servsock, mcsock, watched, main, thread, alive, how,
                 errors, uses, moved>>

Next ==
  \/ Create \/ Dispose \/ DisposeServer \/ Reuse
  \/ InLoop
  \/ Helpers \/ \E f \in Fd : Break(f) \/ AppCloses(f)

(* The thread is scheduled for ever. *)
Spec == Init /\ [][Next]_vars /\ WF_vars(InLoop)

-----------------------------------------------------------------------------
TypeOK ==
  /\ fdt \in [Fd -> Kind] /\ broken \subseteq {f \in Fd : fdt[f] # "free"}
  /\ servsock \in Fd \cup {NoFd} /\ mcsock \in Fd \cup {NoFd} /\ watched \subseteq Fd
  /\ main \in {"none", "running", "closing", "disposed", "reported", "terminated"}
  /\ thread \in {"none", "listen", "reopen", "poll", "remake", "test", "ended"}
  /\ alive \in BOOLEAN /\ how \in [api : {"C++", "C"}, device : BOOLEAN]
  /\ failures \in 0..MaxFailures /\ errors \in 0..MaxErrors /\ uses \in 0..MaxUses
  /\ moved \in BOOLEAN /\ robbed \in BOOLEAN

(* As long as no call fails and the multicast socket keeps its number, a   *)
(* running SBus has its two sockets, between repairs, and holds no         *)
(* descriptor besides: neither its construction nor a repair leaks one.    *)
(* (Only sockaddr_getMAC does.)  Its server socket may be gone for want of *)
(* a descriptor.  The multicast socket, and nothing else, is in the poll   *)
(* list: the server socket, which listenConn() polls by itself, would be   *)
(* read from and dropped as a broken connection if it got there.           *)
SocketsInPlace ==
  main = "running" /\ failures = 0 /\ ~ moved /\ thread \notin {"reopen", "remake"}
    => /\ servsock # NoFd => fdt[servsock] = "tcp"
       /\ fdt[mcsock] = "udp" /\ watched = {mcsock}
       /\ \A f \in Fd \ {servsock, mcsock} : fdt[f] \in {"free", "app", "mac"}

(* A construction that is not reported as failed is complete, whichever    *)
(* calls failed: two sockets, the second one watched, and the thread.      *)
CompleteWhenCreated ==
  [][main = "none" /\ main' = "running"
       => /\ servsock' \in Fd /\ mcsock' \in Fd /\ servsock' # mcsock'
          /\ fdt'[servsock'] = "tcp" /\ fdt'[mcsock'] = "udp"
          /\ mcsock' \in watched' /\ thread' = "listen" /\ alive']_vars

(* The library closes a descriptor of the rest of the process only after   *)
(* the multicast socket was made again under another number (the old one   *)
(* stays watched), or once the SBus is destroyed under the running thread. *)
RobsOnlyIfMoved == robbed => moved \/ main \in {"closing", "disposed"}

(* A broken socket of a running SBus is replaced (or given up): the error  *)
(* goes away or the SBus no longer uses the descriptor.                    *)
BrokenIsReplaced ==
  \A f \in Fd : main = "running" /\ f \in broken /\ f \in {servsock, mcsock}
                  ~> f \notin broken \/ f \notin {servsock, mcsock} \/ main # "running"

(* Once the SBus is destroyed the thread ends with its current round, if   *)
(* the freed memory still says so.                                         *)
ThreadStops == main = "disposed" ~> thread = "ended" \/ alive

(* "or NULL if it cannot be created": sbus_create() returns. *)
CreateReturns == main # "terminated"
=============================================================================
