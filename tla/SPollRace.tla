------------------------------ MODULE SPollRace ------------------------------
(***************************************************************************)
(* SPoll under the two threads of an SBus, which share it without a lock:  *)
(* the application adds the connections it makes (SMessenger::connect);    *)
(* the receiving thread adds the ones it accepts (acceptConn) and removes  *)
(* the broken ones (socketErrorHandling).                                  *)
(*                                                                         *)
(* A call is the sequence of its reads and writes of the shared fields;    *)
(* size++ and size-- are a read and a write.  The array does not fill up   *)
(* here, so nothing grows and removeit() does not read past the end.       *)
(***************************************************************************)
EXTENDS Integers, TLC

CONSTANTS
  Fd,         \* descriptors; each is added once
  Free,       \* fd 0, none of Fd
  Capacity    \* bound: more slots than descriptors

Thread == {"app", "receiver"}
Slots  == 0..(Capacity - 1)

VARIABLES
  fds, size,  \* of the SPoll
  call,       \* per thread: where it is, in which call, with which locals
  unused,     \* descriptors the kernel has not given out yet
  added       \* observed: add() returned 0 for these and nobody removed them

vars == <<fds, size, call, unused, added>>

NoCall == [at |-> "idle"]

Init ==
  /\ fds = [i \in Slots |-> Free] /\ size = 0
  /\ call = [t \in Thread |-> NoCall]
  /\ unused = Fd /\ added = {}

Goes(t, from, fields) ==
  /\ call[t].at = from
  /\ call' = [call EXCEPT ![t] = fields @@ @]

CallAdd(t) ==
  \E fd \in unused :
    /\ Goes(t, "idle", [at |-> "scan", op |-> "add", fd |-> fd])
    /\ unused' = unused \ {fd}
    /\ UNCHANGED <<fds, size, added>>

(* Only the receiving thread removes, and only what it polled. *)
CallRemove(t) ==
  \E fd \in added :
    /\ t = "receiver"
    /\ \E i \in 0..(size - 1) : fds[i] = fd
    /\ Goes(t, "idle", [at |-> "scan", op |-> "remove", fd |-> fd])
    /\ added' = added \ {fd}
    /\ UNCHANGED <<fds, size, unused>>

First(P(_)) == {i \in Slots : P(i) /\ \A j \in 0..(i - 1) : ~ P(j)}

(* The loop over the slots: the first free one from size on, the first one *)
(* that holds fd.                                                          *)
Scan(t) ==
  LET c == call[t]
      Hit(i) == IF c.op = "add" THEN i >= size /\ fds[i] = Free ELSE fds[i] = c.fd
  IN /\ c.at = "scan"
     /\ \/ \E i \in First(Hit) : Goes(t, "scan", [at |-> c.op, i |-> i])
        \/ First(Hit) = {} /\ call' = [call EXCEPT ![t] = NoCall]
     /\ UNCHANGED <<fds, size, unused, added>>

Put(t) ==
  /\ Goes(t, "add", [at |-> "load"])
  /\ fds' = [fds EXCEPT ![call[t].i] = call[t].fd]
  /\ UNCHANGED <<size, unused, added>>

(* removeit(): the entries behind move down, or the last one is cleared. *)
Take(t) ==
  LET i == call[t].i IN
  /\ Goes(t, "remove", [at |-> "load"])
  /\ fds' = IF i + 1 < size
            THEN [j \in Slots |-> IF i <= j /\ j < size THEN fds[j + 1] ELSE fds[j]]
            ELSE [fds EXCEPT ![i] = Free]
  /\ UNCHANGED <<size, unused, added>>

Load(t) ==
  /\ Goes(t, "load", [at |-> "store", read |-> size])
  /\ UNCHANGED <<fds, size, unused, added>>

Store(t) ==
  LET c == call[t] IN
  /\ c.at = "store" /\ call' = [call EXCEPT ![t] = NoCall]
  /\ size' = IF c.op = "add" THEN c.read + 1 ELSE c.read - 1
  /\ added' = IF c.op = "add" THEN added \cup {c.fd} ELSE added
  /\ UNCHANGED <<fds, unused>>

Step(t) == CallAdd(t) \/ CallRemove(t) \/ Scan(t) \/ Put(t) \/ Take(t) \/ Load(t) \/ Store(t)

Next == \E t \in Thread : Step(t)

Spec == Init /\ [][Next]_vars

-----------------------------------------------------------------------------
(* "Adds a descriptor to the list of descriptors under watch [...] returns *)
(* 0 if all went well": while neither thread is in a call, every           *)
(* descriptor added with success is among the entries poll() is given.     *)
AddedIsWatched ==
  (\A t \in Thread : call[t].at = "idle") => \A fd \in added : \E i \in 0..(size - 1) : fds[i] = fd
=============================================================================
