--------------------------- MODULE LifeCycleProofs ---------------------------
(***************************************************************************)
(* Proofs about the life of an SBus, for any number of descriptors, failed *)
(* system calls, broken sockets and calls of the rest of the process.      *)
(***************************************************************************)
EXTENDS LifeCycle, TLAPS

-----------------------------------------------------------------------------
(* The scripts of system calls.                                            *)

(* The outcomes of a script.                                               *)
Outcome == [t : [Fd -> Kind], ret : Fd \cup {0, -1}, bad : Nat]

(* From o to x no descriptor in use was touched.                           *)
Grown(o, x) ==
  /\ x \in Outcome /\ x.bad >= o.bad
  /\ \A f \in Fd : o.t[f] # "free" => x.t[f] = o.t[f]

(* x is o with a new socket, or an error.  Nothing else is left open if no *)
(* call failed.                                                            *)
Made(o, x, kind) ==
  /\ Grown(o, x) /\ x.ret \in Fd \cup {-1}
  /\ x.ret \in Fd => /\ o.t[x.ret] = "free" /\ x.t[x.ret] = kind
                     /\ x.bad = o.bad => \A f \in Fd \ {x.ret} : x.t[f] = o.t[f]

(* Without a failed call x leaves open what o did.                         *)
Clean(o, x) == x.bad = o.bad => x.t = o.t

(* Descriptors are positive numbers.                                       *)
LEMMA FdShape == 0 \notin Fd /\ -1 \notin Fd /\ Fd \subseteq Nat
BY MaxFdAssumption DEF Fd

(* A script starts with the table as it is.                                *)
LEMMA StartShape ==
  ASSUME NEW t \in [Fd -> Kind]
  PROVE  Start(t) \in Outcome /\ Start(t).t = t /\ Start(t).bad = 0 /\ Start(t).ret = 0
BY DEF Start, Outcome

(* Two scripts in a row.                                                   *)
LEMMA GrownTrans ==
  ASSUME NEW o \in Outcome, NEW p, NEW x, Grown(o, p), Grown(p, x)
  PROVE  Grown(o, x)
BY DEF Grown, Outcome

(* A call that opens nothing.                                              *)
LEMMA GrownSame ==
  ASSUME NEW o \in Outcome, NEW x \in Outcome, x.t = o.t, x.bad >= o.bad
  PROVE  Grown(o, x)
BY DEF Grown

(* Changing what an outcome returns, or counting a failure, is harmless.   *)
LEMMA ReturnShape ==
  ASSUME NEW o \in Outcome, NEW r \in Fd \cup {0, -1}
  PROVE  LET x == [o EXCEPT !.ret = r] IN
         x \in Outcome /\ x.t = o.t /\ x.bad = o.bad /\ x.ret = r
BY DEF Outcome

(* A call that fails.                                                      *)
LEMMA FailedShape ==
  ASSUME NEW o \in Outcome
  PROVE  /\ Failed(o) \in Outcome /\ Failed(o).t = o.t /\ Failed(o).ret = -1
         /\ Failed(o).bad = o.bad + 1
<1> DEFINE u == [o EXCEPT !.ret = -1]
<1>1. /\ o.t \in [Fd -> Kind] /\ o.bad \in Nat /\ o.bad + 1 \in Nat
      /\ o = [t |-> o.t, ret |-> o.ret, bad |-> o.bad]
  BY DEF Outcome
<1>2. u = [t |-> o.t, ret |-> -1, bad |-> o.bad]
  BY <1>1
<1>3. Failed(o) = [u EXCEPT !.bad = o.bad + 1]
  BY DEF Failed
<1>4. Failed(o) = [t |-> o.t, ret |-> -1, bad |-> o.bad + 1]
  BY <1>2, <1>3
<1> QED BY <1>1, <1>4 DEF Outcome

(* A call whose failure ends the script.                                   *)
LEMMA CheckedShape ==
  ASSUME NEW o \in Outcome, NEW x \in Checked(o)
  PROVE  /\ x \in Outcome /\ x.t = o.t /\ x.bad \in {o.bad, o.bad + 1}
         /\ x = o \/ (x.ret = -1 /\ x.bad = o.bad + 1)
BY FailedShape DEF Checked, Outcome

(* A call whose failure is ignored.                                        *)
LEMMA UncheckedShape ==
  ASSUME NEW o \in Outcome, NEW x \in Unchecked(o)
  PROVE  x \in Outcome /\ x.t = o.t /\ x.bad \in {o.bad, o.bad + 1} /\ x.ret = o.ret
BY DEF Unchecked, Outcome

(* socket(): a free descriptor, or a failure.                              *)
LEMMA OpenShape ==
  ASSUME NEW o \in Outcome, NEW kind \in Kind, NEW x \in Open(o, kind)
  PROVE  /\ x \in Outcome /\ x.bad \in {o.bad, o.bad + 1}
         /\ \/ x.ret = -1 /\ x.t = o.t
            \/ /\ x.ret \in Fd /\ o.t[x.ret] = "free" /\ x.bad = o.bad
               /\ x.t = [o.t EXCEPT ![x.ret] = kind]
<1> DEFINE free == {f \in Fd : o.t[f] = "free"}
<1>2. CASE x = [o EXCEPT !.ret = -1] \/ x = Failed(o)
  BY <1>2, FailedShape DEF Outcome
<1>3. ASSUME NEW f \in free, x = [o EXCEPT !.t[f] = kind, !.ret = f]
      PROVE  /\ x \in Outcome /\ x.bad = o.bad /\ x.ret = f
             /\ x.t = [o.t EXCEPT ![f] = kind]
  BY <1>3 DEF Outcome
<1> QED BY <1>2, <1>3, ZenonT(40) DEF Open

(* A query leaves nothing open unless a call failed.                       *)
LEMMA QueryShape ==
  ASSUME NEW o \in Outcome, NEW x \in Query(o)
  PROVE  Grown(o, x) /\ Clean(o, x) /\ x.ret \in {0, -1}
<1>1. PICK p \in Open(o, "query") :
        IF p.ret = -1 THEN x = p ELSE x \in {[Close(p, p.ret) EXCEPT !.ret = 0], Failed(p)}
  BY DEF Query, Then
<1>2. /\ p \in Outcome /\ p.bad \in {o.bad, o.bad + 1}
      /\ \/ p.ret = -1 /\ p.t = o.t
         \/ /\ p.ret \in Fd /\ o.t[p.ret] = "free" /\ p.bad = o.bad
            /\ p.t = [o.t EXCEPT ![p.ret] = "query"]
  BY OpenShape DEF Kind
<1>3. CASE p.ret = -1
  <2>1. x = p /\ p.t = o.t /\ p \in Outcome /\ p.bad >= o.bad
    BY <1>1, <1>2, <1>3, FdShape DEF Outcome
  <2> QED BY <1>3, <2>1 DEF Grown, Clean
<1>4. CASE p.ret # -1
  <2>1. \A f \in Fd : o.t[f] # "free" => p.t[f] = o.t[f]
    BY <1>2, <1>4 DEF Outcome
  <2>2. CASE x = Failed(p)
    BY <1>2, <1>4, <2>1, <2>2, FailedShape DEF Grown, Clean, Outcome
  <2>3. CASE x = [Close(p, p.ret) EXCEPT !.ret = 0]
    <3>1. x.t = [p.t EXCEPT ![p.ret] = "free"] /\ x.ret = 0 /\ x.bad = p.bad /\ x \in Outcome
      BY <1>2, <1>4, <2>3 DEF Close, Outcome, Kind
    <3>2. x.t = o.t
      BY <1>2, <1>4, <3>1 DEF Outcome
    <3> QED BY <1>2, <1>4, <3>1, <3>2 DEF Grown, Clean, Outcome
  <2> QED BY <1>1, <1>4, <2>2, <2>3
<1> QED BY <1>3, <1>4

(* initServer(): what is left of the server socket if it cannot be made.   *)
LEMMA InitServerShape ==
  ASSUME NEW o \in Outcome, NEW x \in InitServer(o)
  PROVE  Made(o, x, "tcp") /\ (x.ret = -1 => Clean(o, x))
<1>1. PICK q \in stcp_server(o) : IF q.ret = -1 THEN x = q ELSE x \in Unchecked(q)
  BY DEF InitServer, Then, stcp_setNonBlocking
<1>2. PICK p \in Open(o, "tcp") : IF p.ret = -1 THEN q = p ELSE q \in Checked(p)
  BY <1>1 DEF stcp_server, Then
<1>3. /\ p \in Outcome /\ p.bad \in {o.bad, o.bad + 1}
      /\ \/ p.ret = -1 /\ p.t = o.t
         \/ /\ p.ret \in Fd /\ o.t[p.ret] = "free" /\ p.bad = o.bad
            /\ p.t = [o.t EXCEPT ![p.ret] = "tcp"]
  BY OpenShape DEF Kind
<1>4. CASE p.ret = -1
  <2>1. x = p
    BY <1>1, <1>2, <1>4
  <2> QED BY <1>3, <1>4, <2>1, FdShape DEF Made, Grown, Clean, Outcome
<1>5. CASE p.ret # -1
  <2>1. /\ q \in Outcome /\ q.t = p.t /\ q.bad \in {p.bad, p.bad + 1}
        /\ q = p \/ (q.ret = -1 /\ q.bad = p.bad + 1)
    BY <1>2, <1>3, <1>5, CheckedShape
  <2>2. x \in Outcome /\ x.t = q.t /\ x.ret = q.ret /\ x.bad \in {q.bad, q.bad + 1}
        /\ (q.ret = -1 => x = q)
    BY <1>1, <2>1, UncheckedShape
  <2>3. \A f \in Fd : f # p.ret => x.t[f] = o.t[f]
    BY <1>3, <1>5, <2>1, <2>2 DEF Outcome
  <2>4. x.t[p.ret] = "tcp" /\ o.t[p.ret] = "free" /\ p.ret \in Fd /\ p.bad = o.bad
    BY <1>3, <1>5, <2>1, <2>2 DEF Outcome
  <2>5. o.bad \in Nat /\ x.bad \in Nat /\ x.bad >= o.bad
    BY <2>1, <2>2, <2>4 DEF Outcome
  <2>6. Grown(o, x)
    BY <2>2, <2>3, <2>4, <2>5 DEF Grown
  <2>7. x.ret = p.ret \/ (x.ret = -1 /\ x.bad # o.bad)
    BY <2>1, <2>2, <2>4, <2>5
  <2> QED BY <2>3, <2>4, <2>6, <2>7, FdShape DEF Made, Clean
<1> QED BY <1>4, <1>5
(* The address of the named interface, asked for twice.                    *)
Twice(p) ==
  UNION {{[r EXCEPT !.ret = IF q.ret = -1 THEN -1 ELSE @] :
            r \in sockaddr_device2ip([q EXCEPT !.ret = 0])} : q \in sockaddr_device2ip(p)}

(* Two queries in a row.                                                   *)
LEMMA TwiceShape ==
  ASSUME NEW o \in Outcome, NEW x \in Twice(o)
  PROVE  Grown(o, x) /\ Clean(o, x) /\ x.ret \in {0, -1}
<1>1. PICK q \in Query(o) : \E r \in Query([q EXCEPT !.ret = 0]) :
        x = [r EXCEPT !.ret = IF q.ret = -1 THEN -1 ELSE @]
  BY DEF Twice, sockaddr_device2ip
<1>2. PICK r \in Query([q EXCEPT !.ret = 0]) :
        x = [r EXCEPT !.ret = IF q.ret = -1 THEN -1 ELSE r.ret]
  BY <1>1
<1>3. q \in Outcome /\ Grown(o, q) /\ Clean(o, q)
  BY QueryShape DEF Grown
<1> DEFINE p == [q EXCEPT !.ret = 0]
<1>4. p \in Outcome /\ p.t = q.t /\ p.bad = q.bad
  BY <1>3, ReturnShape
<1>5. r \in Outcome /\ Grown(p, r) /\ Clean(p, r) /\ r.ret \in {0, -1}
  BY <1>2, <1>4, QueryShape DEF Grown
<1> HIDE DEF p
<1>6. x \in Outcome /\ x.t = r.t /\ x.bad = r.bad /\ x.ret \in {0, -1}
  BY <1>2, <1>5 DEF Outcome
<1> QED BY <1>3, <1>4, <1>5, <1>6 DEF Grown, Clean, Outcome

(* The steps of sudp_mcast(), one after the other.                         *)
LEMMA McastSteps ==
  ASSUME NEW o, NEW device, NEW x \in sudp_mcast(o, device)
  PROVE  \E a \in Checked(o) :
           \/ a.ret = -1 /\ x = a
           \/ \E p \in Open(a, "udp") :
                \/ p.ret = -1 /\ x = p
                \/ /\ p.ret # -1
                   /\ \E b \in Checked(p) :
                        \/ b.ret = -1 /\ x = b
                        \/ \E q \in (IF device THEN Twice(b) ELSE {b}) :
                             (x = q /\ q.ret = -1) \/ x \in Checked([q EXCEPT !.ret = b.ret])
<1> DEFINE Join(b) == UNION {IF q.ret = -1 THEN {q} ELSE Checked([q EXCEPT !.ret = b.ret]) :
                             q \in (IF device THEN Twice(b) ELSE {b})}
           Bound(p) == UNION {IF b.ret = -1 THEN {b} ELSE Join(b) : b \in Checked(p)}
           Opened(a) == UNION {IF p.ret = -1 THEN {p} ELSE Bound(p) : p \in Open(a, "udp")}
<1>1. x \in UNION {IF a.ret = -1 THEN {a} ELSE Opened(a) : a \in Checked(o)}
  BY DEF sudp_mcast, Then, Twice
<1> HIDE DEF Opened
<1>2. PICK a \in Checked(o) : x \in IF a.ret = -1 THEN {a} ELSE Opened(a)
  BY <1>1
<1>3. CASE a.ret = -1
  BY <1>2, <1>3
<1>4. CASE a.ret # -1
  <2> HIDE DEF Bound
  <2>1. PICK p \in Open(a, "udp") : x \in IF p.ret = -1 THEN {p} ELSE Bound(p)
    BY <1>2, <1>4 DEF Opened
  <2>2. CASE p.ret = -1
    BY <2>1, <2>2
  <2>3. CASE p.ret # -1
    <3> HIDE DEF Join
    <3>1. PICK b \in Checked(p) : x \in IF b.ret = -1 THEN {b} ELSE Join(b)
      BY <2>1, <2>3 DEF Bound
    <3>2. CASE b.ret = -1
      BY <2>3, <3>1, <3>2
    <3>3. CASE b.ret # -1
      <4>1. PICK q \in (IF device THEN Twice(b) ELSE {b}) :
              x \in IF q.ret = -1 THEN {q} ELSE Checked([q EXCEPT !.ret = b.ret])
        BY <3>1, <3>3 DEF Join
      <4> QED BY <2>3, <3>1, <4>1
    <3> QED BY <3>2, <3>3
  <2> QED BY <2>2, <2>3
<1> QED BY <1>3, <1>4

(* initMCast(): the multicast socket.                                      *)
LEMMA InitMCastShape ==
  ASSUME NEW o \in Outcome, NEW x \in InitMCast(o)
  PROVE  Made(o, x, "udp")
<1>1. PICK y \in sudp_mcast(o, how.device) : IF y.ret = -1 THEN x = y ELSE x \in Unchecked(y)
  BY DEF InitMCast, Then, stcp_setNonBlocking
<1>2. /\ Made(o, y, "udp") /\ y \in Outcome
  <2>1. PICK a \in Checked(o) :
           \/ a.ret = -1 /\ y = a
           \/ \E p \in Open(a, "udp") :
                \/ p.ret = -1 /\ y = p
                \/ /\ p.ret # -1
                   /\ \E b \in Checked(p) :
                        \/ b.ret = -1 /\ y = b
                        \/ \E q \in (IF how.device THEN Twice(b) ELSE {b}) :
                             (y = q /\ q.ret = -1) \/ y \in Checked([q EXCEPT !.ret = b.ret])
    BY <1>1, McastSteps
  <2>2. a \in Outcome /\ a.t = o.t /\ a.bad \in {o.bad, o.bad + 1}
    BY <2>1, CheckedShape
  <2>3. ASSUME NEW z \in Outcome, Grown(o, z), z.ret = -1 PROVE Made(o, z, "udp")
    BY <2>3, FdShape DEF Made
  <2>4. CASE a.ret = -1 /\ y = a
    <3>1. Grown(o, y)
      BY <2>2, <2>4 DEF Grown, Outcome
    <3> QED BY <2>2, <2>3, <2>4, <3>1
  <2>5. ASSUME NEW p \in Open(a, "udp"), p.ret = -1 /\ y = p
        PROVE  Made(o, y, "udp") /\ y \in Outcome
    <3>1. p \in Outcome /\ p.t = a.t /\ p.bad \in {a.bad, a.bad + 1}
      <4>1. /\ p \in Outcome /\ p.bad \in {a.bad, a.bad + 1}
            /\ p.ret \in Fd \/ p.t = a.t
        BY <2>2, OpenShape DEF Kind
      <4> QED BY <2>5, <4>1, FdShape
    <3>2. Grown(o, y)
      BY <2>2, <2>5, <3>1 DEF Grown, Outcome
    <3> QED BY <2>3, <2>5, <3>1, <3>2
  <2>6. ASSUME NEW p \in Open(a, "udp"), p.ret # -1, NEW b \in Checked(p),
               \/ b.ret = -1 /\ y = b
               \/ \E q \in (IF how.device THEN Twice(b) ELSE {b}) :
                    (y = q /\ q.ret = -1) \/ y \in Checked([q EXCEPT !.ret = b.ret])
        PROVE  Made(o, y, "udp") /\ y \in Outcome
    <3>1. /\ p \in Outcome /\ p.ret \in Fd /\ a.t[p.ret] = "free" /\ p.bad = a.bad
          /\ p.t = [a.t EXCEPT ![p.ret] = "udp"]
      BY <2>2, <2>6, OpenShape DEF Kind
    <3>2. b \in Outcome /\ b.t = p.t /\ b.bad \in {p.bad, p.bad + 1} /\ b.ret \in {p.ret, -1}
      BY <2>6, <3>1, CheckedShape
    <3> DEFINE Has(z) == /\ z \in Outcome /\ z.bad >= o.bad /\ z.t[p.ret] = "udp"
                         /\ \A f \in Fd : o.t[f] # "free" => z.t[f] = o.t[f]
                         /\ z.bad = o.bad => \A f \in Fd \ {p.ret} : z.t[f] = o.t[f]
    <3>3. Has(b)
      BY <2>2, <3>1, <3>2 DEF Outcome
    <3>4. ASSUME NEW z, Has(z), z.ret \in {p.ret, -1} PROVE Made(o, z, "udp") /\ z \in Outcome
      BY <2>2, <3>1, <3>4, FdShape DEF Made, Grown
    <3>5. CASE b.ret = -1 /\ y = b
      BY <3>3, <3>4, <3>5
    <3>6. ASSUME NEW q \in (IF how.device THEN Twice(b) ELSE {b}),
                 (y = q /\ q.ret = -1) \/ y \in Checked([q EXCEPT !.ret = b.ret])
          PROVE  Made(o, y, "udp") /\ y \in Outcome
      <4>1. q \in Outcome /\ Grown(b, q) /\ Clean(b, q)
        <5>1. CASE how.device
          BY <3>2, <3>6, <5>1, TwiceShape DEF Grown
        <5>2. CASE ~ how.device
          BY <3>2, <3>6, <5>2 DEF Grown, Clean, Outcome
        <5> QED BY <5>1, <5>2
      <4>2. Has(q)
        <5>1. q.t[p.ret] = "udp" /\ q.bad >= o.bad
          BY <3>1, <3>3, <4>1 DEF Grown, Outcome
        <5>2. \A f \in Fd : o.t[f] # "free" => q.t[f] = o.t[f]
          BY <3>3, <4>1 DEF Grown
        <5>3. q.bad = o.bad => q.bad = b.bad /\ b.bad = o.bad
          BY <2>2, <3>3, <4>1 DEF Grown, Outcome
        <5> QED BY <3>3, <4>1, <5>1, <5>2, <5>3 DEF Clean
      <4> DEFINE r == [q EXCEPT !.ret = b.ret]
      <4>3. r \in Outcome /\ r.t = q.t /\ r.bad = q.bad /\ r.ret = b.ret
        BY <3>2, <4>1, ReturnShape DEF Outcome
      <4>4. CASE y = q /\ q.ret = -1
        BY <3>4, <4>2, <4>4
      <4>5. CASE y \in Checked(r)
        <5> HIDE DEF r
        <5>1. y \in Outcome /\ y.t = q.t /\ y.bad \in {q.bad, q.bad + 1} /\ y.ret \in {p.ret, -1}
          BY <3>2, <4>3, <4>5, CheckedShape
        <5>2. Has(y)
          BY <2>2, <4>1, <4>2, <5>1 DEF Outcome
        <5> QED BY <3>4, <5>1, <5>2
      <4> QED BY <3>6, <4>4, <4>5
    <3> QED BY <2>6, <3>5, <3>6
  <2> QED BY <2>1, <2>2, <2>4, <2>5, <2>6
<1>3. CASE y.ret = -1
  BY <1>1, <1>2, <1>3
<1>4. CASE y.ret # -1
  <2>1. x \in Outcome /\ x.t = y.t /\ x.bad \in {y.bad, y.bad + 1} /\ x.ret = y.ret
    BY <1>1, <1>2, <1>4, UncheckedShape
  <2>2. x.bad >= o.bad /\ (x.bad = o.bad => y.bad = o.bad)
    BY <1>2, <2>1 DEF Made, Grown, Outcome
  <2> QED BY <1>2, <2>1, <2>2 DEF Made, Grown
<1> QED BY <1>3, <1>4

(* The address of the node.                                                *)
LEMMA OwnIpShape ==
  ASSUME NEW o \in Outcome, NEW x \in OwnIp(o)
  PROVE  Grown(o, x) /\ Clean(o, x)
<1>1. CASE how.device
  BY <1>1, QueryShape DEF OwnIp, sockaddr_device2ip
<1>2. CASE ~ how.device
  <2>1. PICK p \in Query(o) : x \in Query([p EXCEPT !.ret = 0])
    BY <1>2 DEF OwnIp, sockaddr_ips, sockaddr_interfaceCount
  <2> DEFINE r == [p EXCEPT !.ret = 0]
  <2>2. p \in Outcome /\ Grown(o, p) /\ Clean(o, p)
    BY QueryShape DEF Grown
  <2>3. r \in Outcome /\ r.t = p.t /\ r.bad = p.bad
    BY <2>2, ReturnShape
  <2> HIDE DEF r
  <2>4. Grown(r, x) /\ Clean(r, x)
    BY <2>1, <2>3, QueryShape DEF r
  <2> QED BY <2>2, <2>3, <2>4 DEF Grown, Clean, Outcome
<1> QED BY <1>1, <1>2

(* The calls of the rest of the process leave open what they were asked    *)
(* for, or what a failed call made them forget.                            *)
Harmless(o, x) ==
  /\ Grown(o, x)
  /\ x.bad = o.bad => \A f \in Fd : x.t[f] = o.t[f] \/ x.t[f] \in {"app", "mac"}

(* A helper that opens a descriptor takes a free one.                      *)
LEMMA OpenIsHarmless ==
  ASSUME NEW o \in Outcome, NEW kind \in {"app", "mac"}, NEW p \in Open(o, kind),
         NEW x \in Outcome, x.t = p.t, x.bad >= p.bad
  PROVE  Harmless(o, x)
<1>1. /\ p \in Outcome /\ p.bad \in {o.bad, o.bad + 1}
      /\ \/ p.ret = -1 /\ p.t = o.t
         \/ /\ p.ret \in Fd /\ o.t[p.ret] = "free" /\ p.bad = o.bad
            /\ p.t = [o.t EXCEPT ![p.ret] = kind]
  BY OpenShape DEF Kind
<1>2. x.bad >= o.bad
  BY <1>1 DEF Outcome
<1>3. CASE p.t = o.t
  BY <1>2, <1>3 DEF Harmless, Grown
<1>4. CASE p.ret \in Fd /\ o.t[p.ret] = "free" /\ p.t = [o.t EXCEPT ![p.ret] = kind]
  <2>1. x.t[p.ret] = kind /\ \A f \in Fd : f # p.ret => x.t[f] = o.t[f]
    BY <1>4 DEF Outcome
  <2> QED BY <1>2, <1>4, <2>1 DEF Harmless, Grown
<1> QED BY <1>1, <1>3, <1>4

(* What the socket helpers may do for the rest of the process.             *)
HelperOutcomes(o) ==
  stcp_client(o) \cup sudp_create(o) \cup sudp_bcast(o) \cup
  sockaddr_getMask(o) \cup sockaddr_getBroadcast(o) \cup sockaddr_getMAC(o)

(* What the socket helpers do for the rest of the process.                 *)
LEMMA HelpersAreHarmless ==
  ASSUME NEW o \in Outcome, NEW x \in HelperOutcomes(o) PROVE Harmless(o, x)
<1>1. CASE x \in stcp_client(o)
  <2>1. PICK p \in Open(o, "app") :
          IF p.ret = -1 THEN x = p ELSE \E q \in Unchecked(p) : x \in Unchecked(q)
    BY <1>1 DEF stcp_client, Then, stcp_setNonBlocking
  <2>2. p \in Outcome
    BY OpenShape DEF Kind
  <2>3. CASE p.ret = -1
    BY <2>1, <2>2, <2>3, OpenIsHarmless DEF Outcome
  <2>4. ASSUME NEW q \in Unchecked(p), x \in Unchecked(q) PROVE Harmless(o, x)
    <3>1. q \in Outcome /\ q.t = p.t /\ q.bad \in {p.bad, p.bad + 1}
      BY <2>2, UncheckedShape
    <3>2. x \in Outcome /\ x.t = q.t /\ x.bad \in {q.bad, q.bad + 1}
      BY <2>4, <3>1, UncheckedShape
    <3>3. x.bad >= p.bad
      BY <2>2, <3>1, <3>2 DEF Outcome
    <3> QED BY <3>1, <3>2, <3>3, OpenIsHarmless
  <2> QED BY <2>1, <2>3, <2>4
<1>2. CASE x \in sudp_create(o) \cup sudp_bcast(o)
  <2>1. PICK p \in Open(o, "app") : IF p.ret = -1 THEN x = p ELSE x \in Checked(p)
    BY <1>2 DEF sudp_create, sudp_bcast, Then
  <2>2. p \in Outcome
    BY OpenShape DEF Kind
  <2>3. x \in Outcome /\ x.t = p.t /\ x.bad >= p.bad
    BY <2>1, <2>2, CheckedShape DEF Outcome
  <2> QED BY <2>3, OpenIsHarmless
<1>3. CASE x \in sockaddr_getMask(o) \cup sockaddr_getBroadcast(o)
  BY <1>3, QueryShape DEF sockaddr_getMask, sockaddr_getBroadcast, Harmless, Clean
<1>4. CASE x \in sockaddr_getMAC(o)
  <2>1. PICK p \in Open(o, "mac") :
          IF p.ret = -1 THEN x = p ELSE x \in {[p EXCEPT !.ret = 0], Failed(p)}
    BY <1>4 DEF sockaddr_getMAC, Then
  <2>2. p \in Outcome
    BY OpenShape DEF Kind
  <2>3. x \in Outcome /\ x.t = p.t /\ x.bad >= p.bad
    BY <2>1, <2>2, ReturnShape, FailedShape DEF Outcome
  <2> QED BY <2>3, OpenIsHarmless
<1> QED BY <1>1, <1>2, <1>3, <1>4 DEF HelperOutcomes

(* sudp_mclose() may close whatever is behind the number it is given.      *)
LEMMA McloseShape ==
  ASSUME NEW o \in Outcome, NEW f, NEW device, NEW x \in sudp_mclose(o, f, device)
  PROVE  x \in Outcome /\ x.bad >= o.bad
<1> DEFINE Leave(p) == IF f \in Fd /\ p.t[f] = "udp"
                       THEN {Failed(p), Close(p, f)}
                       ELSE {[p EXCEPT !.ret = -1]}
           Named(p) == UNION {IF q.ret = -1 THEN {q} ELSE Leave(q) :
                              q \in (IF device THEN sockaddr_device2ip(p) ELSE {p})}
<1>1. x \in UNION {IF p.ret = -1 THEN {p} ELSE Named(p) : p \in Checked(o)}
  BY DEF sudp_mclose, Then
<1> HIDE DEF Named
<1>2. PICK p \in Checked(o) : x \in IF p.ret = -1 THEN {p} ELSE Named(p)
  BY <1>1
<1>3. p \in Outcome /\ p.bad >= o.bad
  BY CheckedShape DEF Outcome
<1>4. CASE p.ret = -1
  BY <1>2, <1>3, <1>4
<1>5. CASE p.ret # -1
  <2> HIDE DEF Leave
  <2>1. PICK q \in (IF device THEN sockaddr_device2ip(p) ELSE {p}) :
          x \in IF q.ret = -1 THEN {q} ELSE Leave(q)
    BY <1>2, <1>5 DEF Named
  <2>2. q \in Outcome /\ q.bad >= p.bad
    <3>1. CASE device
      BY <1>3, <2>1, <3>1, QueryShape DEF Grown, sockaddr_device2ip
    <3>2. CASE ~ device
      BY <1>3, <2>1, <3>2 DEF Outcome
    <3> QED BY <3>1, <3>2
  <2>3. CASE q.ret = -1
    BY <1>3, <2>1, <2>2, <2>3 DEF Outcome
  <2>4. CASE q.ret # -1
    <3>1. x = Failed(q) \/ (f \in Fd /\ x = Close(q, f)) \/ x = [q EXCEPT !.ret = -1]
      BY <2>1, <2>4 DEF Leave
    <3>2. x \in Outcome /\ x.bad >= q.bad
      <4>1. CASE x = Failed(q)
        BY <2>2, <4>1, FailedShape DEF Outcome
      <4>2. CASE f \in Fd /\ x = Close(q, f)
        BY <2>2, <4>2 DEF Close, Outcome, Kind
      <4>3. CASE x = [q EXCEPT !.ret = -1]
        BY <2>2, <4>3, ReturnShape DEF Outcome
      <4> QED BY <3>1, <4>1, <4>2, <4>3
    <3> QED BY <1>3, <2>2, <3>2 DEF Outcome
  <2> QED BY <2>3, <2>4
<1> QED BY <1>4, <1>5

-----------------------------------------------------------------------------
(* What an outcome does to the kernel.                                     *)

(* The types of what scripts and errors change.                            *)
KernelTypeOK ==
  /\ fdt \in [Fd -> Kind] /\ broken \subseteq {f \in Fd : fdt[f] # "free"}
  /\ failures \in 0..MaxFailures /\ robbed \in BOOLEAN

(* A script's outcome becomes the state of the process.                    *)
LEMMA HappensShape ==
  ASSUME KernelTypeOK, NEW o \in Outcome, Happens(o)
  PROVE  KernelTypeOK' /\ fdt' = o.t /\ failures' = failures + o.bad
<1>1. fdt' = o.t /\ failures' = failures + o.bad /\ failures + o.bad <= MaxFailures
  BY DEF Happens
<1>2. fdt' \in [Fd -> Kind] /\ failures' \in 0..MaxFailures
  BY <1>1, BoundsAssumption DEF Outcome, KernelTypeOK
<1>3. broken' \subseteq {f \in Fd : fdt'[f] # "free"}
  BY <1>1 DEF Happens, KernelTypeOK
<1>4. robbed' \in BOOLEAN
  BY DEF Happens
<1> QED BY <1>1, <1>2, <1>3, <1>4 DEF KernelTypeOK

(* Descriptors in use stay what they are.                                  *)
Spares ==
  /\ \A f \in Fd : fdt[f] # "free" => fdt'[f] = fdt[f]
  /\ robbed' = robbed

(* A script that only opens descriptors robs nobody.                       *)
LEMMA GrownSpares ==
  ASSUME KernelTypeOK, NEW o, Grown(Start(fdt), o), Happens(o)
  PROVE  /\ KernelTypeOK' /\ Spares /\ fdt' = o.t /\ failures' = failures + o.bad
         /\ o.bad \in Nat /\ (failures' = 0 => failures = 0 /\ o.bad = 0)
<1>1. Start(fdt).t = fdt
  BY StartShape DEF KernelTypeOK
<1>2. o \in Outcome /\ \A f \in Fd : fdt[f] # "free" => o.t[f] = fdt[f]
  BY <1>1 DEF Grown
<1>3. KernelTypeOK' /\ fdt' = o.t /\ failures' = failures + o.bad
  BY <1>2, HappensShape
<1>4. ~ \E f \in Fd : fdt[f] = "app" /\ o.t[f] # "app"
  BY <1>2
<1>5. robbed' = (robbed \/ \E f \in Fd : fdt[f] = "app" /\ o.t[f] # "app")
  BY DEF Happens
<1>6. robbed' = robbed
  BY <1>4, <1>5 DEF KernelTypeOK
<1>7. o.bad \in Nat /\ failures \in Nat
  BY <1>2 DEF Outcome, KernelTypeOK
<1>8. failures' = 0 => failures = 0 /\ o.bad = 0
  BY <1>3, <1>7
<1> QED BY <1>2, <1>3, <1>6, <1>7, <1>8 DEF Spares

(* Closing a descriptor.                                                   *)
LEMMA ClosesShape ==
  ASSUME KernelTypeOK, NEW f \in Fd, Closes(f)
  PROVE  /\ KernelTypeOK' /\ failures' = failures
         /\ fdt' = [fdt EXCEPT ![f] = "free"]
         /\ fdt[f] # "app" => robbed' = robbed
<1> DEFINE o == Close(Start(fdt), f)
<1>1. o \in Outcome /\ o.t = [fdt EXCEPT ![f] = "free"] /\ o.bad = 0
  <2>1. o = [Start(fdt) EXCEPT !.t = [fdt EXCEPT ![f] = "free"]]
    BY StartShape DEF Close, KernelTypeOK
  <2>2. [fdt EXCEPT ![f] = "free"] \in [Fd -> Kind]
    BY DEF KernelTypeOK, Kind
  <2>3. Start(fdt) \in Outcome /\ Start(fdt).bad = 0
    BY StartShape DEF KernelTypeOK
  <2> QED BY <2>1, <2>2, <2>3 DEF Outcome
<1>2. Happens(o)
  BY DEF Closes
<1> HIDE DEF o
<1>3. KernelTypeOK' /\ fdt' = o.t /\ failures' = failures + o.bad
  BY <1>1, <1>2, HappensShape
<1>4. failures' = failures
  BY <1>1, <1>3 DEF KernelTypeOK
<1>5. ASSUME fdt[f] # "app" PROVE robbed' = robbed
  <2>1. ~ \E g \in Fd : fdt[g] = "app" /\ o.t[g] # "app"
    BY <1>1, <1>5 DEF KernelTypeOK
  <2>2. robbed' = (robbed \/ \E g \in Fd : fdt[g] = "app" /\ o.t[g] # "app")
    BY <1>2 DEF Happens
  <2> QED BY <2>1, <2>2 DEF KernelTypeOK
<1> QED BY <1>1, <1>3, <1>4, <1>5

(* close(-1) does nothing.                                                 *)
LEMMA ClosesNothing ==
  ASSUME KernelTypeOK, NEW f, f \notin Fd, Closes(f) PROVE KernelTypeOK'
BY StartShape, HappensShape DEF Closes, KernelTypeOK

-----------------------------------------------------------------------------
(* The inductive invariant.                                                *)

(* A running SBus whose multicast socket keeps its number: the list it     *)
(* polls, and its sockets except for one that is being made again.         *)
InPlace ==
  main = "running" /\ ~ moved =>
    /\ mcsock \in Fd /\ watched = {mcsock}
    /\ thread # "remake" => fdt[mcsock] = "udp"
    /\ servsock \in Fd /\ thread # "reopen" => fdt[servsock] = "tcp"

(* As long as no call failed nothing else is open, from the start.         *)
NothingLeaks ==
  failures = 0 /\ (main = "none" \/ (main = "running" /\ ~ moved)) =>
    \A f \in Fd : \/ fdt[f] \in {"free", "app", "mac"}
                  \/ main = "running" /\ f = servsock /\ thread # "reopen"
                  \/ main = "running" /\ f = mcsock /\ thread # "remake"

(* No thread runs before construction is over.                             *)
NoThreadYet == main \in {"none", "reported", "terminated"} => thread = "none"

(* The inductive invariant.                                                *)
IInv == TypeOK /\ InPlace /\ NothingLeaks /\ NoThreadYet /\ RobsOnlyIfMoved

(* The types of the descriptor table.                                      *)
LEMMA KernelType == TypeOK => KernelTypeOK
BY DEF TypeOK, KernelTypeOK

-----------------------------------------------------------------------------
(* The application's thread.                                               *)

(* A construction: nothing that was open is touched, and it fails or is    *)
(* complete.                                                               *)
Completed(o) ==
  /\ servsock' \in Fd /\ mcsock' \in Fd /\ servsock' # mcsock'
  /\ o.t[servsock'] = "tcp" /\ o.t[mcsock'] = "udp"
  /\ watched' = {mcsock'}
  /\ main' = "running" /\ thread' = "listen" /\ alive' = TRUE
  /\ o.bad = 0 => \A f \in Fd \ {servsock', mcsock'} : o.t[f] = fdt[f]

(* Construction opens descriptors only, and ends complete or in an         *)
(* exception.                                                              *)
LEMMA CreateShape ==
  ASSUME KernelTypeOK, Create
  PROVE  \E o : Grown(Start(fdt), o) /\ Happens(o) /\ (Thrown \/ Completed(o))
<1> DEFINE st == Start(fdt)
<1>1. st \in Outcome /\ st.t = fdt /\ st.bad = 0
  BY StartShape DEF KernelTypeOK
<1>2. PICK s \in InitServer(st) :
        \/ s.ret = -1 /\ Happens(s) /\ Thrown
        \/ /\ s.ret # -1
           /\ \E m \in InitMCast(s) :
                \/ m.ret = -1 /\ Happens(m) /\ Thrown
                \/ /\ m.ret # -1
                   /\ \E i \in OwnIp(m) : \E p \in Checked([i EXCEPT !.ret = 0]) :
                        /\ Happens(p)
                        /\ \/ p.ret = -1 /\ Thrown
                           \/ /\ p.ret # -1
                              /\ servsock' = s.ret /\ mcsock' = m.ret
                              /\ watched' = {m.ret}
                              /\ main' = "running" /\ thread' = "listen" /\ alive' = TRUE
  BY DEF Create
<1> HIDE DEF st
<1>3. Made(st, s, "tcp") /\ Grown(st, s) /\ s \in Outcome
  BY <1>1, InitServerShape DEF Made, Grown
<1>4. CASE s.ret = -1 /\ Happens(s) /\ Thrown
  BY <1>3, <1>4 DEF st
<1>5. ASSUME s.ret # -1, NEW m \in InitMCast(s),
             \/ m.ret = -1 /\ Happens(m) /\ Thrown
             \/ /\ m.ret # -1
                /\ \E i \in OwnIp(m) : \E p \in Checked([i EXCEPT !.ret = 0]) :
                     /\ Happens(p)
                     /\ \/ p.ret = -1 /\ Thrown
                        \/ /\ p.ret # -1
                           /\ servsock' = s.ret /\ mcsock' = m.ret
                           /\ watched' = {m.ret}
                           /\ main' = "running" /\ thread' = "listen" /\ alive' = TRUE
      PROVE  \E o : Grown(st, o) /\ Happens(o) /\ (Thrown \/ Completed(o))
  <2>1. Made(s, m, "udp") /\ Grown(s, m) /\ m \in Outcome
    BY <1>3, InitMCastShape DEF Made, Grown
  <2>2. Grown(st, m)
    BY <1>1, <1>3, <2>1, GrownTrans
  <2>3. CASE m.ret = -1 /\ Happens(m) /\ Thrown
    BY <2>2, <2>3
  <2>4. ASSUME m.ret # -1, NEW i \in OwnIp(m), NEW p \in Checked([i EXCEPT !.ret = 0]),
               Happens(p),
               \/ p.ret = -1 /\ Thrown
               \/ /\ p.ret # -1
                  /\ servsock' = s.ret /\ mcsock' = m.ret
                  /\ watched' = {m.ret}
                  /\ main' = "running" /\ thread' = "listen" /\ alive' = TRUE
        PROVE  \E o : Grown(st, o) /\ Happens(o) /\ (Thrown \/ Completed(o))
    <3> DEFINE r == [i EXCEPT !.ret = 0]
    <3>1. i \in Outcome /\ Grown(m, i) /\ Clean(m, i)
      BY <2>1, OwnIpShape DEF Grown
    <3>2. r \in Outcome /\ r.t = i.t /\ r.bad = i.bad
      BY <3>1, ReturnShape
    <3> HIDE DEF r
    <3>3. p \in Outcome /\ p.t = i.t /\ p.bad \in {i.bad, i.bad + 1}
      BY <3>2, CheckedShape DEF r
    <3>4. Grown(m, p) /\ Clean(m, p)
      BY <2>1, <3>1, <3>3 DEF Grown, Clean, Outcome
    <3>5. Grown(st, p)
      BY <1>1, <2>2, <3>4, GrownTrans
    <3>6. CASE p.ret = -1 /\ Thrown
      BY <2>4, <3>5, <3>6
    <3>7. CASE /\ servsock' = s.ret /\ mcsock' = m.ret
               /\ watched' = {m.ret}
               /\ main' = "running" /\ thread' = "listen" /\ alive' = TRUE
      <4>1. s.ret \in Fd /\ m.ret \in Fd /\ s.t[s.ret] = "tcp" /\ m.t[m.ret] = "udp"
            /\ s.t[m.ret] = "free"
        BY <1>3, <1>5, <2>1, <2>4 DEF Made
      <4>2. m.t[s.ret] = "tcp"
        BY <2>1, <4>1 DEF Grown
      <4>3. p.t[s.ret] = "tcp" /\ p.t[m.ret] = "udp"
        BY <3>4, <4>1, <4>2 DEF Grown
      <4>4. ASSUME p.bad = 0 PROVE \A f \in Fd \ {s.ret, m.ret} : p.t[f] = fdt[f]
        <5>1. s.bad = 0 /\ m.bad = 0
          BY <1>1, <1>3, <2>1, <3>4, <4>4 DEF Grown, Outcome
        <5>2. \A f \in Fd \ {s.ret} : s.t[f] = fdt[f]
          BY <1>1, <1>3, <4>1, <5>1 DEF Made
        <5>3. \A f \in Fd \ {m.ret} : m.t[f] = s.t[f]
          BY <2>1, <4>1, <5>1 DEF Made
        <5>4. p.t = m.t
          BY <3>4, <4>4, <5>1 DEF Clean
        <5> QED BY <5>2, <5>3, <5>4
      <4>5. s.ret # m.ret
        BY <4>1
      <4>6. Completed(p)
        BY <3>7, <4>1, <4>3, <4>4, <4>5 DEF Completed
      <4> QED BY <2>4, <3>5, <4>6
    <3> QED BY <2>4, <3>6, <3>7
  <2> QED BY <1>5, <2>3, <2>4
<1> QED BY <1>2, <1>4, <1>5 DEF st

(* One lemma per action: construction.                                     *)
LEMMA CreateKeepsIInv ==
  ASSUME IInv, Create PROVE IInv'
<1> USE DEF IInv
<1>1. KernelTypeOK /\ main = "none" /\ thread = "none" /\ UNCHANGED <<how, errors, uses, moved>>
  BY KernelType DEF Create, NoThreadYet
<1>2. PICK o : Grown(Start(fdt), o) /\ Happens(o) /\ (Thrown \/ Completed(o))
  BY <1>1, CreateShape
<1>3. KernelTypeOK' /\ Spares /\ fdt' = o.t /\ o.bad \in Nat
      /\ (failures' = 0 => failures = 0 /\ o.bad = 0)
  BY <1>1, <1>2, GrownSpares
<1>4. RobsOnlyIfMoved'
  BY <1>1, <1>3 DEF RobsOnlyIfMoved, Spares
<1>5. CASE Thrown
  <2>1. main' \in {"reported", "terminated"} /\ thread' = "none"
        /\ UNCHANGED <<servsock, mcsock, watched, alive>>
    BY <1>1, <1>5 DEF Thrown
  <2>2. TypeOK'
    BY <1>1, <1>3, <2>1 DEF TypeOK, KernelTypeOK
  <2> QED BY <1>4, <2>1, <2>2 DEF InPlace, NothingLeaks, NoThreadYet
<1>6. CASE Completed(o)
  <2>1. TypeOK'
    BY <1>1, <1>3, <1>6 DEF TypeOK, KernelTypeOK, Completed
  <2>2. InPlace'
    BY <1>3, <1>6 DEF InPlace, Completed
  <2>3. NothingLeaks'
    <3> SUFFICES ASSUME failures' = 0, NEW f \in Fd, f # servsock', f # mcsock'
                 PROVE  fdt'[f] \in {"free", "app", "mac"}
      BY <1>6 DEF NothingLeaks, Completed
    <3>1. fdt'[f] = fdt[f] /\ failures = 0
      BY <1>3, <1>6 DEF Completed
    <3> QED BY <1>1, <3>1 DEF NothingLeaks
  <2>4. NoThreadYet'
    BY <1>6 DEF NoThreadYet, Completed
  <2> QED BY <1>4, <2>1, <2>2, <2>3, <2>4
<1> QED BY <1>2, <1>5, <1>6

(* Destruction, and what becomes of the freed flag.                        *)
LEMMA DisposalKeepsIInv ==
  ASSUME IInv, Dispose \/ DisposeServer \/ Reuse PROVE IInv'
<1> USE DEF IInv
<1>1. KernelTypeOK
  BY KernelType
<1>2. main' \in {"closing", "disposed"}
  BY DEF Dispose, DisposeServer, Reuse
<1>3. KernelTypeOK'
  <2>1. CASE Dispose
    <3>1. PICK o \in sudp_mclose(Start(fdt), mcsock, how.device) : Happens(o)
      BY <2>1 DEF Dispose
    <3>2. o \in Outcome
      BY <1>1, <3>1, StartShape, McloseShape DEF KernelTypeOK
    <3> QED BY <1>1, <3>1, <3>2, HappensShape
  <2>2. CASE DisposeServer
    BY <1>1, <2>2, ClosesShape, ClosesNothing DEF DisposeServer
  <2>3. CASE Reuse
    BY <1>1, <2>3 DEF Reuse, kernel, KernelTypeOK
  <2> QED BY <2>1, <2>2, <2>3
<1>4. /\ UNCHANGED <<servsock, mcsock, thread, how, errors, uses, moved>>
      /\ watched' \in {watched, {}} /\ alive' \in BOOLEAN
  BY DEF Dispose, DisposeServer, Reuse, TypeOK
<1>5. TypeOK'
  BY <1>2, <1>3, <1>4 DEF TypeOK, KernelTypeOK
<1> QED BY <1>2, <1>5 DEF InPlace, NothingLeaks, NoThreadYet, RobsOnlyIfMoved

-----------------------------------------------------------------------------
(* The receiving thread.                                                   *)

(* The thread runs only once construction is over.                         *)
LEMMA ThreadRuns ==
  ASSUME IInv, thread # "none" PROVE main \in {"running", "closing", "disposed"}
BY DEF IInv, TypeOK, NoThreadYet

(* Nothing but types is promised once the SBus is being destroyed.         *)
LEMMA NothingPromised ==
  ASSUME IInv, thread # "none", main' = main, main # "running", TypeOK'
  PROVE  IInv'
<1>1. main' \in {"closing", "disposed"}
  BY ThreadRuns
<1> QED BY <1>1 DEF IInv, InPlace, NothingLeaks, NoThreadYet, RobsOnlyIfMoved

(* The receiving thread at the top of its round.                           *)
LEMMA ListenKeepsIInv ==
  ASSUME IInv, Listen PROVE IInv'
<1> USE DEF IInv
<1>1. /\ UNCHANGED <<servsock, mcsock, watched, main, alive, how, errors, uses, moved>>
      /\ thread = "listen" /\ KernelTypeOK
  BY KernelType DEF Listen, Goes
<1>2. CASE UNCHANGED kernel /\ thread' = "poll"
  <2>1. TypeOK'
    BY <1>1, <1>2 DEF TypeOK, kernel
  <2>2. InPlace' /\ NothingLeaks' /\ RobsOnlyIfMoved'
    BY <1>1, <1>2 DEF InPlace, NothingLeaks, RobsOnlyIfMoved, kernel
  <2>3. NoThreadYet'
    BY <1>1, ThreadRuns DEF NoThreadYet
  <2> QED BY <2>1, <2>2, <2>3
<1>3. CASE servsock \in Fd /\ Closes(servsock) /\ thread' = "reopen"
  <2>1. /\ KernelTypeOK' /\ failures' = failures
        /\ fdt' = [fdt EXCEPT ![servsock] = "free"]
        /\ fdt[servsock] # "app" => robbed' = robbed
    BY <1>1, <1>3, ClosesShape
  <2>2. TypeOK'
    BY <1>1, <1>3, <2>1 DEF TypeOK, KernelTypeOK
  <2>3. CASE main # "running"
    BY <1>1, <2>2, <2>3, NothingPromised
  <2>4. CASE main = "running"
    <3>1. \A f \in Fd : fdt'[f] = IF f = servsock THEN "free" ELSE fdt[f]
      BY <2>1 DEF TypeOK
    <3>2. InPlace'
      BY <1>1, <1>3, <2>4, <3>1 DEF InPlace
    <3>3. NothingLeaks'
      <4> SUFFICES ASSUME failures' = 0, ~ moved, NEW f \in Fd
                   PROVE  fdt'[f] \in {"free", "app", "mac"} \/ f = mcsock
        BY <1>1, <1>3, <2>4 DEF NothingLeaks
      <4> QED BY <1>1, <2>1, <2>4, <3>1 DEF NothingLeaks
    <3>4. RobsOnlyIfMoved'
      <4>1. ~ moved => robbed' = robbed
        BY <1>1, <1>3, <2>1, <2>4 DEF InPlace
      <4> QED BY <1>1, <2>4, <4>1 DEF RobsOnlyIfMoved
    <3>5. NoThreadYet'
      BY <1>1, <2>4 DEF NoThreadYet
    <3> QED BY <2>2, <3>2, <3>3, <3>4, <3>5
  <2> QED BY <2>3, <2>4
<1> QED BY <1>2, <1>3 DEF Listen, Goes

(* The server socket is made again.                                        *)
LEMMA ReopenKeepsIInv ==
  ASSUME IInv, Reopen PROVE IInv'
<1> USE DEF IInv
<1>1. /\ UNCHANGED <<mcsock, watched, main, alive, how, errors, uses, moved>>
      /\ thread = "reopen" /\ thread' \in {"test", "poll"} /\ KernelTypeOK
  BY KernelType DEF Reopen, Goes
<1>2. PICK o \in InitServer(Start(fdt)) : Happens(o) /\ servsock' = o.ret
  BY DEF Reopen
<1>3. Start(fdt) \in Outcome /\ Start(fdt).t = fdt /\ Start(fdt).bad = 0
  BY <1>1, StartShape DEF KernelTypeOK
<1>4. Made(Start(fdt), o, "tcp") /\ (o.ret = -1 => Clean(Start(fdt), o))
  BY <1>3, InitServerShape
<1>5. /\ KernelTypeOK' /\ Spares /\ fdt' = o.t
      /\ (failures' = 0 => failures = 0 /\ o.bad = 0)
  BY <1>1, <1>2, <1>4, GrownSpares DEF Made
<1>6. servsock' \in Fd \cup {-1} /\ (servsock' \in Fd => fdt'[servsock'] = "tcp")
  BY <1>2, <1>4, <1>5 DEF Made
<1>7. TypeOK'
  BY <1>1, <1>5, <1>6 DEF TypeOK, KernelTypeOK, NoFd
<1>8. InPlace'
  BY <1>1, <1>5, <1>6 DEF InPlace, Spares
<1>9. NothingLeaks'
  <2> SUFFICES ASSUME failures' = 0, main = "running", ~ moved, NEW f \in Fd,
                      f # servsock', f # mcsock
               PROVE  fdt'[f] \in {"free", "app", "mac"}
    BY <1>1, ThreadRuns DEF NothingLeaks
  <2>1. fdt'[f] = fdt[f]
    BY <1>2, <1>3, <1>4, <1>5, <1>6, FdShape DEF Made, Clean
  <2> QED BY <1>1, <1>5, <2>1 DEF NothingLeaks
<1>10. RobsOnlyIfMoved' /\ NoThreadYet'
  BY <1>1, <1>5, ThreadRuns DEF RobsOnlyIfMoved, NoThreadYet, Spares
<1> QED BY <1>7, <1>8, <1>9, <1>10

(* A broken socket is closed, whoever has its number now.                  *)
LEMMA PollKeepsIInv ==
  ASSUME IInv, Poll PROVE IInv'
<1> USE DEF IInv
<1>1. /\ UNCHANGED <<servsock, mcsock, main, alive, how, errors, uses, moved>>
      /\ thread = "poll" /\ KernelTypeOK
  BY KernelType DEF Poll, Goes
<1>2. CASE UNCHANGED kernel /\ UNCHANGED watched /\ thread' = "test"
  <2>1. TypeOK'
    BY <1>1, <1>2 DEF TypeOK, kernel
  <2>2. InPlace' /\ NothingLeaks' /\ RobsOnlyIfMoved'
    BY <1>1, <1>2 DEF InPlace, NothingLeaks, RobsOnlyIfMoved, kernel
  <2>3. NoThreadYet'
    BY <1>1, ThreadRuns DEF NoThreadYet
  <2> QED BY <2>1, <2>2, <2>3
<1>3. ASSUME NEW f \in watched, Closes(f),
             \/ f = mcsock /\ thread' = "remake" /\ watched' = watched
             \/ f # mcsock /\ thread' = "test" /\ watched' = watched \ {f}
      PROVE  IInv'
  <2>1. f \in Fd
    BY <1>3 DEF TypeOK
  <2>2. /\ KernelTypeOK' /\ failures' = failures
        /\ fdt' = [fdt EXCEPT ![f] = "free"]
        /\ fdt[f] # "app" => robbed' = robbed
    BY <1>1, <1>3, <2>1, ClosesShape
  <2>3. TypeOK'
    BY <1>1, <1>3, <2>2 DEF TypeOK, KernelTypeOK
  <2>4. CASE main # "running"
    BY <1>1, <2>3, <2>4, NothingPromised
  <2>5. CASE main = "running" /\ moved
    BY <1>1, <2>3, <2>5 DEF InPlace, NothingLeaks, NoThreadYet, RobsOnlyIfMoved
  <2>6. CASE main = "running" /\ ~ moved
    <3>1. f = mcsock /\ thread' = "remake" /\ watched' = watched
      BY <1>3, <2>6 DEF InPlace
    <3>2. \A g \in Fd : fdt'[g] = IF g = f THEN "free" ELSE fdt[g]
      BY <2>2 DEF TypeOK
    <3>3. InPlace'
      BY <1>1, <2>6, <3>1, <3>2 DEF InPlace
    <3>4. NothingLeaks'
      <4> SUFFICES ASSUME failures' = 0, NEW g \in Fd
                   PROVE  fdt'[g] \in {"free", "app", "mac"} \/ g = servsock
        BY <1>1, <2>6, <3>1 DEF NothingLeaks
      <4> QED BY <1>1, <2>2, <2>6, <3>1, <3>2 DEF NothingLeaks
    <3>5. RobsOnlyIfMoved' /\ NoThreadYet'
      <4>1. fdt[f] = "udp"
        BY <1>1, <2>6, <3>1 DEF InPlace
      <4> QED BY <1>1, <2>2, <2>6, <4>1 DEF RobsOnlyIfMoved, NoThreadYet
    <3> QED BY <2>3, <3>3, <3>4, <3>5
  <2> QED BY <2>4, <2>5, <2>6
<1> QED BY <1>2, <1>3 DEF Poll, Goes

(* The multicast socket is made again.                                     *)
LEMMA RemakeKeepsIInv ==
  ASSUME IInv, Remake PROVE IInv'
<1> USE DEF IInv
<1>1. /\ UNCHANGED <<servsock, main, alive, how, errors, uses>>
      /\ thread = "remake" /\ thread' = "test" /\ KernelTypeOK
      /\ moved' = (moved \/ mcsock' # mcsock)
  BY KernelType DEF Remake, Goes
<1>2. PICK o \in InitMCast(Start(fdt)) :
        /\ Happens(o) /\ mcsock' = o.ret
        /\ watched' = IF main = "disposed" THEN {} ELSE watched \cup ({o.ret} \cap Fd)
  BY DEF Remake
<1>3. Start(fdt) \in Outcome /\ Start(fdt).t = fdt /\ Start(fdt).bad = 0
  BY <1>1, StartShape DEF KernelTypeOK
<1>4. Made(Start(fdt), o, "udp")
  BY <1>3, InitMCastShape
<1>5. /\ KernelTypeOK' /\ Spares /\ fdt' = o.t
      /\ (failures' = 0 => failures = 0 /\ o.bad = 0)
  BY <1>1, <1>2, <1>4, GrownSpares DEF Made
<1>6. mcsock' \in Fd \cup {-1} /\ moved' \in BOOLEAN /\ watched' \subseteq Fd
  BY <1>1, <1>2, <1>4 DEF Made, TypeOK
<1>7. TypeOK'
  BY <1>1, <1>5, <1>6 DEF TypeOK, KernelTypeOK, NoFd
<1>8. CASE main # "running"
  BY <1>1, <1>7, <1>8, NothingPromised
<1>9. CASE main = "running" /\ moved'
  BY <1>1, <1>7, <1>9 DEF InPlace, NothingLeaks, NoThreadYet, RobsOnlyIfMoved
<1>10. CASE main = "running" /\ ~ moved'
  <2>1. ~ moved /\ mcsock' = mcsock
    BY <1>1, <1>10
  <2>2. mcsock \in Fd /\ watched = {mcsock} /\ (servsock \in Fd => fdt[servsock] = "tcp")
    BY <1>1, <1>10, <2>1 DEF InPlace
  <2>3. watched' = {mcsock'} /\ fdt'[mcsock'] = "udp"
    BY <1>2, <1>4, <1>5, <1>10, <2>1, <2>2 DEF Made
  <2>4. InPlace'
    BY <1>1, <1>5, <1>10, <2>1, <2>2, <2>3 DEF InPlace, Spares
  <2>5. NothingLeaks'
    <3> SUFFICES ASSUME failures' = 0, NEW f \in Fd, f # servsock, f # mcsock
                 PROVE  fdt'[f] \in {"free", "app", "mac"}
      BY <1>1, <1>10, <2>1 DEF NothingLeaks
    <3>1. fdt'[f] = fdt[f]
      BY <1>2, <1>3, <1>4, <1>5, <2>1, <2>2 DEF Made
    <3> QED BY <1>5, <1>10, <2>1, <3>1 DEF NothingLeaks
  <2>6. RobsOnlyIfMoved' /\ NoThreadYet'
    BY <1>1, <1>5, <1>10, <2>1 DEF RobsOnlyIfMoved, NoThreadYet, Spares
  <2> QED BY <1>7, <2>4, <2>5, <2>6
<1> QED BY <1>8, <1>9, <1>10

(* The test of the alive flag.                                             *)
LEMMA TestKeepsIInv ==
  ASSUME IInv, Test PROVE IInv'
<1> USE DEF IInv
<1>1. /\ UNCHANGED <<kernel, servsock, mcsock, watched, main, alive, how, errors, uses, moved>>
      /\ thread = "test" /\ thread' \in {"listen", "ended"}
  BY DEF Test, Goes
<1>2. TypeOK'
  BY <1>1 DEF TypeOK, kernel
<1>3. InPlace' /\ NothingLeaks' /\ RobsOnlyIfMoved'
  BY <1>1 DEF InPlace, NothingLeaks, RobsOnlyIfMoved, kernel
<1>4. NoThreadYet'
  BY <1>1, ThreadRuns DEF NoThreadYet
<1> QED BY <1>2, <1>3, <1>4

-----------------------------------------------------------------------------
(* The network and the rest of the process.                                *)

(* The rest of the process uses the helpers.                               *)
LEMMA HelpersKeepIInv ==
  ASSUME IInv, Helpers PROVE IInv'
<1> USE DEF IInv
<1>1. PICK o \in HelperOutcomes(Start(fdt)) : Happens(o)
  BY DEF Helpers, Uses, HelperOutcomes
<1>2. /\ UNCHANGED <<servsock, mcsock, watched, main, thread, alive, how, errors, moved>>
      /\ uses < MaxUses /\ uses' = uses + 1 /\ KernelTypeOK
  BY KernelType DEF Helpers, Uses
<1>3. Start(fdt) \in Outcome /\ Start(fdt).t = fdt /\ Start(fdt).bad = 0
  BY <1>2, StartShape DEF KernelTypeOK
<1>4. Harmless(Start(fdt), o) /\ Grown(Start(fdt), o)
  BY <1>1, <1>3, HelpersAreHarmless DEF Harmless
<1>5. /\ KernelTypeOK' /\ Spares /\ fdt' = o.t
      /\ (failures' = 0 => failures = 0 /\ o.bad = 0)
  BY <1>1, <1>2, <1>4, GrownSpares
<1>6. TypeOK'
  <2>1. uses' \in 0..MaxUses
    BY <1>2, BoundsAssumption DEF TypeOK
  <2> QED BY <1>2, <1>5, <2>1 DEF TypeOK, KernelTypeOK
<1>7. InPlace'
  BY <1>2, <1>5 DEF InPlace, Spares
<1>8. NothingLeaks'
  <2> SUFFICES ASSUME failures' = 0, main = "none" \/ (main = "running" /\ ~ moved),
                      NEW f \in Fd
               PROVE  \/ fdt'[f] \in {"free", "app", "mac"}
                      \/ main = "running" /\ f = servsock /\ thread # "reopen"
                      \/ main = "running" /\ f = mcsock /\ thread # "remake"
    BY <1>2 DEF NothingLeaks
  <2>1. fdt'[f] = fdt[f] \/ fdt'[f] \in {"app", "mac"}
    BY <1>3, <1>4, <1>5 DEF Harmless
  <2> QED BY <1>5, <2>1 DEF NothingLeaks
<1>9. RobsOnlyIfMoved' /\ NoThreadYet'
  BY <1>2, <1>5 DEF RobsOnlyIfMoved, NoThreadYet, Spares
<1> QED BY <1>6, <1>7, <1>8, <1>9

(* An error on a descriptor.                                               *)
LEMMA BreakKeepsIInv ==
  ASSUME IInv, NEW f \in Fd, Break(f) PROVE IInv'
<1> USE DEF IInv
<1>1. /\ UNCHANGED <<fdt, failures, robbed, servsock, mcsock, watched, main, thread, alive,
                     how, uses, moved>>
      /\ errors' \in 0..MaxErrors /\ broken' = broken \cup {f} /\ fdt[f] # "free"
  BY BoundsAssumption DEF Break, TypeOK
<1>2. TypeOK'
  BY <1>1 DEF TypeOK
<1>3. InPlace' /\ NothingLeaks' /\ RobsOnlyIfMoved' /\ NoThreadYet'
  BY <1>1 DEF InPlace, NothingLeaks, RobsOnlyIfMoved, NoThreadYet
<1> QED BY <1>2, <1>3

(* The rest of the process closes a descriptor of its own.                 *)
LEMMA AppClosesKeepsIInv ==
  ASSUME IInv, NEW f \in Fd, AppCloses(f) PROVE IInv'
<1> USE DEF IInv
<1>1. /\ UNCHANGED <<failures, robbed, servsock, mcsock, watched, main, thread, alive, how,
                     errors, uses, moved>>
      /\ fdt[f] = "app" /\ fdt' = [fdt EXCEPT ![f] = "free"] /\ broken' = broken \ {f}
  BY DEF AppCloses
<1>2. \A g \in Fd : fdt'[g] = IF g = f THEN "free" ELSE fdt[g]
  BY <1>1 DEF TypeOK
<1>3. TypeOK'
  <2>1. fdt' \in [Fd -> Kind]
    BY <1>1 DEF TypeOK, Kind
  <2>2. broken' \subseteq {g \in Fd : fdt'[g] # "free"}
    BY <1>1, <1>2 DEF TypeOK
  <2> QED BY <1>1, <2>1, <2>2 DEF TypeOK
<1>4. InPlace'
  BY <1>1, <1>2 DEF InPlace
<1>5. NothingLeaks'
  BY <1>1, <1>2 DEF NothingLeaks
<1>6. RobsOnlyIfMoved' /\ NoThreadYet'
  BY <1>1 DEF RobsOnlyIfMoved, NoThreadYet
<1> QED BY <1>3, <1>4, <1>5, <1>6

-----------------------------------------------------------------------------
(* The theorems.                                                           *)

(* The invariant holds at the start.                                       *)
LEMMA InitEstablishesIInv == Init => IInv
<1> SUFFICES ASSUME Init PROVE IInv
  OBVIOUS
<1>1. TypeOK
  <2>1. fdt \in [Fd -> Kind] /\ broken \subseteq {f \in Fd : fdt[f] # "free"}
    BY DEF Init, Kind
  <2>2. failures \in 0..MaxFailures /\ errors \in 0..MaxErrors /\ uses \in 0..MaxUses
    BY BoundsAssumption DEF Init
  <2>3. how \in [api : {"C++", "C"}, device : BOOLEAN]
    BY DEF Init
  <2> QED BY <2>1, <2>2, <2>3 DEF Init, TypeOK
<1>2. InPlace /\ NothingLeaks /\ NoThreadYet /\ RobsOnlyIfMoved
  BY DEF Init, InPlace, NothingLeaks, NoThreadYet, RobsOnlyIfMoved
<1> QED BY <1>1, <1>2 DEF IInv

(* Every step keeps the invariant.                                         *)
LEMMA NextKeepsIInv ==
  ASSUME IInv, [Next]_vars PROVE IInv'
<1>1. CASE UNCHANGED vars
  <2>1. TypeOK'
    BY <1>1 DEF IInv, vars, kernel, TypeOK
  <2>2. InPlace' /\ NothingLeaks' /\ NoThreadYet' /\ RobsOnlyIfMoved'
    BY <1>1 DEF IInv, vars, kernel, InPlace, NothingLeaks, NoThreadYet, RobsOnlyIfMoved
  <2> QED BY <2>1, <2>2 DEF IInv
<1>2. CASE Create \/ Dispose \/ DisposeServer \/ Reuse
  BY <1>2, CreateKeepsIInv, DisposalKeepsIInv
<1>3. CASE InLoop
  BY <1>3, ListenKeepsIInv, ReopenKeepsIInv, PollKeepsIInv, RemakeKeepsIInv, TestKeepsIInv
     DEF InLoop
<1>4. CASE Helpers \/ \E f \in Fd : Break(f) \/ AppCloses(f)
  BY <1>4, HelpersKeepIInv, BreakKeepsIInv, AppClosesKeepsIInv
<1> QED BY <1>1, <1>2, <1>3, <1>4 DEF Next

(* Hence it holds always.                                                  *)
LEMMA IInvIsInvariant == Spec => []IInv
<1>1. IInv /\ [Next]_vars => IInv'
  BY NextKeepsIInv
<1> QED BY <1>1, InitEstablishesIInv, PTL DEF Spec

(* The variables keep their types; in particular no failure or error is    *)
(* counted beyond its bound and no closed descriptor has an error.         *)
THEOREM TypeCorrect == Spec => []TypeOK
<1>1. IInv => TypeOK
  BY DEF IInv
<1> QED BY <1>1, IInvIsInvariant, PTL

(* As long as no call fails and the multicast socket keeps its number, a   *)
(* running SBus has its two sockets, between repairs, its poll list holds  *)
(* just the multicast socket (the server socket is polled on its own), and *)
(* neither its construction nor a repair leaves another descriptor open.   *)
THEOREM SocketsStayInPlace == Spec => []SocketsInPlace
<1>1. IInv => SocketsInPlace
  <2> SUFFICES ASSUME IInv, main = "running", failures = 0, ~ moved,
                      thread \notin {"reopen", "remake"}
               PROVE  /\ servsock # NoFd => fdt[servsock] = "tcp"
                      /\ fdt[mcsock] = "udp" /\ watched = {mcsock}
                      /\ \A f \in Fd \ {servsock, mcsock} : fdt[f] \in {"free", "app", "mac"}
    BY DEF SocketsInPlace
  <2>1. servsock # NoFd => servsock \in Fd
    BY DEF IInv, TypeOK
  <2>2. /\ servsock \in Fd => fdt[servsock] = "tcp"
        /\ fdt[mcsock] = "udp" /\ watched = {mcsock}
    BY DEF IInv, InPlace
  <2>3. \A f \in Fd \ {servsock, mcsock} : fdt[f] \in {"free", "app", "mac"}
    BY DEF IInv, NothingLeaks
  <2> QED BY <2>1, <2>2, <2>3
<1> QED BY <1>1, IInvIsInvariant, PTL

(* The receiving thread closes a descriptor of the rest of the process     *)
(* only after the multicast socket was made again under another number, or *)
(* while the SBus is destroyed, whatever fails and whatever breaks.        *)
THEOREM RobberyNeedsAMove == Spec => []RobsOnlyIfMoved
<1>1. IInv => RobsOnlyIfMoved
  BY DEF IInv
<1> QED BY <1>1, IInvIsInvariant, PTL

(* A construction that does not end in an exception is complete, whichever *)
(* of its system calls failed.                                             *)
THEOREM CreatedComplete == Spec => CompleteWhenCreated
<1> DEFINE Complete ==
      main = "none" /\ main' = "running"
        => /\ servsock' \in Fd /\ mcsock' \in Fd /\ servsock' # mcsock'
           /\ fdt'[servsock'] = "tcp" /\ fdt'[mcsock'] = "udp"
           /\ mcsock' \in watched' /\ thread' = "listen" /\ alive'
<1>1. IInv /\ [Next]_vars => [Complete]_vars
  <2> SUFFICES ASSUME IInv, Next, main = "none", main' = "running" PROVE Complete
    OBVIOUS
  <2>1. KernelTypeOK
    BY KernelType DEF IInv
  <2>2. Create
    BY DEF Next, Dispose, DisposeServer, Reuse, InLoop, Listen, Reopen, Poll, Remake, Test,
       Helpers, Uses, Break, AppCloses
  <2>3. PICK o : Grown(Start(fdt), o) /\ Happens(o) /\ (Thrown \/ Completed(o))
    BY <2>1, <2>2, CreateShape
  <2>4. fdt' = o.t
    BY <2>1, <2>3, GrownSpares
  <2>5. ~ Thrown
    BY DEF Thrown
  <2> QED BY <2>3, <2>4, <2>5 DEF Completed
<1> QED BY <1>1, IInvIsInvariant, PTL DEF Spec, CompleteWhenCreated
=============================================================================
