-------------------------------- MODULE Wire --------------------------------
(***************************************************************************)
(* How numbers travel: the frame header (packhdr, unpackhdr) and socket    *)
(* addresses (sockaddr.c), on a little-endian host.  Numbers have the      *)
(* widths of the code, with a byte scaled down to Base values.             *)
(***************************************************************************)
EXTENDS Integers, Sequences

CONSTANT Base         \* values of a byte (256)

ASSUME BaseAssumption == Base \in Nat \ {0, 1}

Short == Base * Base
Long  == Short * Short

(* htons, ntohs and htonl, ntohl *)
Swap16(x) == (x % Base) * Base + x \div Base
Swap32(x) == Swap16(x % Short) * Short + Swap16(x \div Short)

Signed(x, size) == IF x >= size \div 2 THEN x - size ELSE x

(* Mutant: the code is not brought to network order. *)
PackHdr_HostOrder(tag, port, bytes) ==
  [code |-> tag % Short, port |-> Swap16(port), length |-> Swap32(bytes)]

(* The code is an unsigned short: an int tag loses its upper half. *)
PackHdr(tag, port, bytes) ==
  [code |-> Swap16(tag % Short), port |-> Swap16(port), length |-> Swap32(bytes)]

UnpackHdr(h) ==
  [tag |-> Signed(Swap16(h.code), Short), port |-> Swap16(h.port),
   length |-> Signed(Swap32(h.length), Long)]

-----------------------------------------------------------------------------
(* A struct sockaddr_in: address and port in network order. *)

(* The four numbers of the dotted form, and back. *)
sockaddr_int2ip(ip) ==
  LET x == ip % Long IN
  <<x \div (Short * Base), (x \div Short) % Base, (x \div Base) % Base, x % Base>>

inet_aton(dotted) ==
  dotted[1] + dotted[2] * Base + dotted[3] * Short + dotted[4] * Short * Base

sockaddr_set(dotted, port) == [addr |-> inet_aton(dotted), port |-> Swap16(port)]
sockaddr_getIP(a)   == Signed(Swap32(a.addr), Long)
sockaddr_getPort(a) == Swap16(a.port)

(* What stcp_getIP() and stcp_getLocalPort() make of the kernel's answer.  *)
stcp_getIP(peer)         == sockaddr_getIP(peer)
stcp_getLocalPort(local) == sockaddr_getPort(local)
=============================================================================
