---------------------------- MODULE StreamProofs ----------------------------
(***************************************************************************)
(* Proofs about one direction of a connection, for every size of byte,     *)
(* header, body and buffer and any number of frames.                       *)
(***************************************************************************)
EXTENDS Stream, SequenceTheorems, TLAPS

-----------------------------------------------------------------------------
(* Numbers on the wire. *)

(* Division with remainder.                                                *)
LEMMA Euclid ==
  ASSUME NEW b \in Nat \ {0}, NEW x \in Int
  PROVE  x \div b \in Int /\ x % b \in 0..(b - 1) /\ x = (x \div b) * b + (x % b)
OBVIOUS

(* A number has one quotient and one remainder.                            *)
LEMMA DivMod ==
  ASSUME NEW b \in Nat \ {0}, NEW q \in Int, NEW r \in 0..(b - 1)
  PROVE  (q * b + r) \div b = q /\ (q * b + r) % b = r
<1> DEFINE x == q * b + r
           y == x \div b
           z == x % b
<1>1. x \in Int /\ y \in Int /\ z \in 0..(b - 1) /\ x = y * b + z
  OBVIOUS
<1>2. (y - q) * b = r - z
  BY <1>1
<1> HIDE DEF x, y, z
<1>3. ~ (y - q >= 1)
  <2>1. SUFFICES ASSUME y - q >= 1 PROVE FALSE
    OBVIOUS
  <2>2. (y - q) * b >= b
    BY <2>1, <1>1
  <2> QED BY <2>2, <1>1, <1>2
<1>4. ~ (y - q <= -1)
  <2>1. SUFFICES ASSUME y - q <= -1 PROVE FALSE
    OBVIOUS
  <2>2. (y - q) * b <= -b
    BY <2>1, <1>1
  <2> QED BY <2>2, <1>1, <1>2
<1>5. y = q /\ z = r
  BY <1>1, <1>2, <1>3, <1>4
<1> QED BY <1>5 DEF x, y, z

(* A byte, a short or a long, split in two halves.                         *)
LEMMA Halves ==
  ASSUME NEW b \in Nat \ {0}, NEW x \in 0..(b * b - 1)
  PROVE  /\ x \div b \in 0..(b - 1) /\ x % b \in 0..(b - 1)
         /\ x = (x \div b) * b + (x % b)
<1>0. x = (x \div b) * b + (x % b)
  BY Euclid
<1> DEFINE y == x \div b
           z == x % b
<1>1. y \in Int /\ z \in 0..(b - 1) /\ x = y * b + z
  OBVIOUS
<1> HIDE DEF y, z
<1>2. ~ (y >= b)
  <2>1. SUFFICES ASSUME y >= b PROVE FALSE
    OBVIOUS
  <2>2. y * b >= b * b
    BY <2>1, <1>1
  <2> QED BY <2>2, <1>1
<1>3. ~ (y <= -1)
  <2>1. SUFFICES ASSUME y <= -1 PROVE FALSE
    OBVIOUS
  <2>2. y * b <= -b
    BY <2>1, <1>1
  <2> QED BY <2>2, <1>1
<1>4. y \in 0..(b - 1)
  BY <1>1, <1>2, <1>3
<1>5. x \div b \in 0..(b - 1) /\ x % b \in 0..(b - 1)
  BY <1>1, <1>4 DEF y, z
<1> QED BY ONLY <1>0, <1>5

(* A number with its halves exchanged.                                     *)
LEMMA Joined ==
  ASSUME NEW b \in Nat \ {0}, NEW q \in 0..(b - 1), NEW r \in 0..(b - 1)
  PROVE  q * b + r \in 0..(b * b - 1)
<1>1. q * b <= (b - 1) * b /\ q * b \in Nat
  OBVIOUS
<1>2. (b - 1) * b = b * b - b
  OBVIOUS
<1> QED BY <1>1, <1>2

(* The sizes of a byte, a short and a long.                                *)
LEMMA Sizes ==
  /\ Base \in Nat \ {0, 1} /\ Short \in Nat \ {0, 1} /\ Long \in Nat \ {0, 1}
  /\ Base < Short /\ Short < Long /\ Short = Base * Base /\ Long = Short * Short
<1>1. Base \in Nat \ {0, 1}
  BY BaseAssumption
<1>2. ASSUME NEW n \in Nat \ {0, 1} PROVE n * n \in Nat \ {0, 1} /\ n < n * n
  BY <1>2
<1>3. Short \in Nat \ {0, 1} /\ Base < Short
  BY <1>1, <1>2 DEF Short
<1>4. Long \in Nat \ {0, 1} /\ Short < Long
  BY <1>2, <1>3 DEF Long
<1> QED BY <1>1, <1>3, <1>4 DEF Short, Long

(* Exchanging the bytes of a short twice gives it back.                    *)
LEMMA SwapShort ==
  ASSUME NEW x \in 0..(Short - 1)
  PROVE  Swap16(x) \in 0..(Short - 1) /\ Swap16(Swap16(x)) = x
<1> DEFINE q == x \div Base
           r == x % Base
<1>1. q \in 0..(Base - 1) /\ r \in 0..(Base - 1) /\ x = q * Base + r
  BY Sizes, Halves
<1>2. Swap16(x) = r * Base + q
  BY DEF Swap16
<1> HIDE DEF q, r
<1>3. Swap16(x) \in 0..(Short - 1)
  BY <1>1, <1>2, Joined, Sizes
<1>4. (r * Base + q) \div Base = r /\ (r * Base + q) % Base = q
  BY <1>1, DivMod, Sizes
<1>5. Swap16(Swap16(x)) = q * Base + r
  BY <1>2, <1>4 DEF Swap16
<1> QED BY <1>1, <1>3, <1>5

(* A long, with the halves of its two shorts.                              *)
LEMMA SwapLong ==
  ASSUME NEW x \in 0..(Long - 1)
  PROVE  Swap32(x) \in 0..(Long - 1) /\ Swap32(Swap32(x)) = x
<1> DEFINE q == x \div Short
           r == x % Short
           p == Swap16(q)
           s == Swap16(r)
<1>0. Short \in Nat \ {0} /\ x \in 0..(Short * Short - 1)
  BY Sizes
<1>1. q \in 0..(Short - 1) /\ r \in 0..(Short - 1) /\ x = q * Short + r
  BY <1>0, Halves
<1>2. Swap32(x) = s * Short + p
  BY DEF Swap32
<1>3. /\ p \in 0..(Short - 1) /\ Swap16(p) = q
      /\ s \in 0..(Short - 1) /\ Swap16(s) = r
  BY <1>1, SwapShort
<1> HIDE DEF q, r, p, s
<1>4. Swap32(x) \in 0..(Long - 1)
  BY <1>2, <1>3, Joined, Sizes
<1>5. (s * Short + p) \div Short = s /\ (s * Short + p) % Short = p
  BY <1>3, DivMod, Sizes
<1>6. Swap32(Swap32(x)) = q * Short + r
  BY <1>2, <1>3, <1>5 DEF Swap32
<1> QED BY <1>1, <1>4, <1>6

(* A number that was taken for a signed one keeps its bits.                *)
LEMMA SignedKeepsBits ==
  ASSUME NEW n \in Nat \ {0}, NEW x \in 0..(n - 1)
  PROVE  /\ Signed(x, n) \in Int /\ Signed(x, n) % n = x
         /\ x < n \div 2 => Signed(x, n) = x
<1>1. CASE x >= n \div 2
  <2>1. Signed(x, n) = x - n
    BY <1>1 DEF Signed
  <2>2. ((-1) * n + x) % n = x
    BY DivMod
  <2>3. (-1) * n + x = x - n
    OBVIOUS
  <2> QED BY <1>1, <2>1, <2>2, <2>3
<1>2. CASE ~ (x >= n \div 2)
  <2>1. Signed(x, n) = x
    BY <1>2 DEF Signed
  <2>2. (0 * n + x) % n = x
    BY DivMod
  <2> QED BY <1>2, <2>1, <2>2
<1> QED BY <1>1, <1>2

(* A header says what was packed: the tag if it fits 16 bits, the length   *)
(* if it fits the positive half of 32.                                     *)
LEMMA HeaderRoundTrip ==
  ASSUME NEW tag \in Int, NEW port \in 0..(Short - 1), NEW len \in 0..(Long \div 2 - 1)
  PROVE  LET h == PackHdr(tag, port, len) IN
         /\ h \in [code : 0..(Short - 1), port : 0..(Short - 1), length : 0..(Long - 1)]
         /\ UnpackHdr(h).port = port /\ UnpackHdr(h).length = len
         /\ tag \in (-(Short \div 2))..(Short \div 2 - 1) => UnpackHdr(h).tag = tag
<1> DEFINE h == PackHdr(tag, port, len)
           c == tag % Short
<1>1. c \in 0..(Short - 1)
  BY Sizes
<1>2. len \in 0..(Long - 1) /\ len < Long \div 2
  BY Sizes
<1>3. h = [code |-> Swap16(c), port |-> Swap16(port), length |-> Swap32(len)]
  BY DEF PackHdr
<1> HIDE DEF h, c
<1>4. /\ Swap16(c) \in 0..(Short - 1) /\ Swap16(Swap16(c)) = c
      /\ Swap16(port) \in 0..(Short - 1) /\ Swap16(Swap16(port)) = port
      /\ Swap32(len) \in 0..(Long - 1) /\ Swap32(Swap32(len)) = len
  BY <1>1, <1>2, SwapShort, SwapLong
<1>5. /\ UnpackHdr(h).tag = Signed(c, Short) /\ UnpackHdr(h).port = port
      /\ UnpackHdr(h).length = Signed(len, Long)
  BY <1>3, <1>4 DEF UnpackHdr
<1>6. Signed(len, Long) = len
  BY <1>2, SignedKeepsBits, Sizes
<1>7. ASSUME tag \in (-(Short \div 2))..(Short \div 2 - 1) PROVE Signed(c, Short) = tag
  <2>1. CASE tag >= 0
    <3>1. (0 * Short + tag) % Short = tag
      BY <1>7, <2>1, DivMod, Sizes
    <3>2. c = tag
      BY <3>1, Sizes DEF c
    <3> QED BY <1>7, <2>1, <3>2, Sizes DEF Signed
  <2>2. CASE tag < 0
    <3>1. tag + Short \in 0..(Short - 1) /\ (-1) * Short + (tag + Short) = tag
      BY <1>7, <2>2, Sizes
    <3>2. ((-1) * Short + (tag + Short)) % Short = tag + Short
      BY <3>1, DivMod, Sizes
    <3>3. c = tag + Short
      BY <3>1, <3>2 DEF c
    <3> QED BY <1>7, <2>2, <3>3, Sizes DEF Signed
  <2> QED BY <1>7, <2>1, <2>2, Sizes
<1> QED BY <1>3, <1>4, <1>5, <1>6, <1>7 DEF h

(* The four numbers of the dotted form of a long.                          *)
LEMMA Digits ==
  ASSUME NEW b \in Nat \ {0}, NEW i \in 0..(b - 1), NEW j \in 0..(b - 1),
         NEW k \in 0..(b - 1), NEW l \in 0..(b - 1), NEW y,
         y = (i * b + j) * (b * b) + (k * b + l)
  PROVE  /\ y \div (b * b * b) = i /\ (y \div (b * b)) % b = j
         /\ (y \div b) % b = k /\ y % b = l
<1>1. k * b + l \in 0..(b * b - 1) /\ i * b + j \in 0..(b * b - 1)
  BY Joined
<1>2. b * b \in Nat \ {0} /\ b * b * b \in Nat \ {0}
  OBVIOUS
<1>3. y \div (b * b) = i * b + j
  BY <1>1, <1>2, DivMod
<1>4. (i * b + j) % b = j
  BY DivMod
<1>5. y = ((i * b + j) * b + k) * b + l
  OBVIOUS
<1>6. y \div b = (i * b + j) * b + k /\ y % b = l
  <2>1. (i * b + j) * b + k \in Int
    OBVIOUS
  <2> QED BY <2>1, <1>5, DivMod
<1>7. ((i * b + j) * b + k) % b = k
  <2>1. i * b + j \in Int
    OBVIOUS
  <2> QED BY <2>1, DivMod
<1>8. y = i * (b * b * b) + (j * (b * b) + (k * b + l))
  OBVIOUS
<1>9. j * (b * b) + (k * b + l) \in 0..(b * b * b - 1)
  <2>1. j * (b * b) <= (b - 1) * (b * b) /\ j * (b * b) \in Nat
    OBVIOUS
  <2>2. (b - 1) * (b * b) = b * b * b - b * b
    OBVIOUS
  <2> QED BY <1>1, <1>2, <2>1, <2>2
<1>10. y \div (b * b * b) = i
  BY <1>2, <1>8, <1>9, DivMod
<1> QED BY <1>3, <1>4, <1>6, <1>7, <1>10

(* Connecting to the dotted form of the number a peer's address was told   *)
(* as means the same address.                                              *)
LEMMA AddressRoundTrip ==
  ASSUME NEW x \in 0..(Long - 1)
  PROVE  inet_aton(sockaddr_int2ip(Signed(Swap32(x), Long))) = x
<1> DEFINE q == x \div Short
           r == x % Short
           q1 == q \div Base
           q0 == q % Base
           r1 == r \div Base
           r0 == r % Base
           y == Swap32(x)
<1>1. Short \in Nat \ {0} /\ x \in 0..(Short * Short - 1)
  BY Sizes
<1>2. q \in 0..(Short - 1) /\ r \in 0..(Short - 1) /\ x = q * Short + r
  BY <1>1, Halves
<1>3. /\ q1 \in 0..(Base - 1) /\ q0 \in 0..(Base - 1) /\ q = q1 * Base + q0
      /\ r1 \in 0..(Base - 1) /\ r0 \in 0..(Base - 1) /\ r = r1 * Base + r0
  BY <1>2, Halves, Sizes
<1>4. y = (r0 * Base + r1) * Short + (q0 * Base + q1)
  BY DEF Swap32, Swap16
<1>5. y \in 0..(Long - 1)
  BY SwapLong
<1>6. Signed(y, Long) % Long = y
  BY <1>5, SignedKeepsBits, Sizes
<1> HIDE DEF q, r, q1, q0, r1, r0, y
<1>7. /\ y \div (Base * Base * Base) = r0 /\ (y \div (Base * Base)) % Base = r1
      /\ (y \div Base) % Base = q0 /\ y % Base = q1
  <2>1. y = (r0 * Base + r1) * (Base * Base) + (q0 * Base + q1)
    BY <1>4 DEF Short
  <2>2. Base \in Nat \ {0}
    BY Sizes
  <2>3. \A i, j, k, l \in 0..(Base - 1) : \A z :
          z = (i * Base + j) * (Base * Base) + (k * Base + l) =>
            /\ z \div (Base * Base * Base) = i /\ (z \div (Base * Base)) % Base = j
            /\ (z \div Base) % Base = k /\ z % Base = l
    BY ONLY <2>2, Digits
  <2> QED BY ONLY <1>3, <2>1, <2>3
<1>8. sockaddr_int2ip(Signed(y, Long)) = <<r0, r1, q0, q1>>
  BY <1>6, <1>7 DEF sockaddr_int2ip, Short
<1>9. inet_aton(<<r0, r1, q0, q1>>) = r0 + r1 * Base + q0 * Short + q1 * Short * Base
  BY DEF inet_aton
<1>10. x = (q1 * Base + q0) * Short + (r1 * Base + r0)
  BY <1>2, <1>3
<1>11. x = r0 + r1 * Base + q0 * Short + q1 * Short * Base
  BY <1>3, <1>10, Sizes
<1> QED BY <1>8, <1>9, <1>11 DEF y

-----------------------------------------------------------------------------
(* Sequences of bytes. *)

(* A sequence cut in two. *)
LEMMA CutShape ==
  ASSUME NEW S, NEW s \in Seq(S), NEW n \in 0..Len(s)
  PROVE  /\ SubSeq(s, 1, n) \in Seq(S) /\ Len(SubSeq(s, 1, n)) = n
         /\ \A i \in 1..n : SubSeq(s, 1, n)[i] = s[i]
         /\ SubSeq(s, n + 1, Len(s)) \in Seq(S)
         /\ Len(SubSeq(s, n + 1, Len(s))) = Len(s) - n
         /\ \A i \in 1..(Len(s) - n) : SubSeq(s, n + 1, Len(s))[i] = s[n + i]
OBVIOUS

(* Two sequences joined. *)
LEMMA JoinShape ==
  ASSUME NEW S, NEW s \in Seq(S), NEW t \in Seq(S)
  PROVE  /\ s \o t \in Seq(S) /\ Len(s \o t) = Len(s) + Len(t)
         /\ \A i \in 1..Len(s) : (s \o t)[i] = s[i]
         /\ \A i \in 1..Len(t) : (s \o t)[Len(s) + i] = t[i]
OBVIOUS

(* The first w bytes of t go behind s, the others stay: together the bytes *)
(* are the same.                                                           *)
LEMMA MoveShape ==
  ASSUME NEW S, NEW s \in Seq(S), NEW t \in Seq(S), NEW w \in 0..Len(t),
         NEW p, p = s \o SubSeq(t, 1, w), NEW r, r = SubSeq(t, w + 1, Len(t))
  PROVE  /\ p \in Seq(S) /\ Len(p) = Len(s) + w /\ r \in Seq(S) /\ Len(r) = Len(t) - w
         /\ \A i \in 1..Len(s) : p[i] = s[i]
         /\ \A j \in 1..w : p[Len(s) + j] = t[j]
         /\ \A j \in 1..(Len(t) - w) : r[j] = t[w + j]
<1> DEFINE f == SubSeq(t, 1, w)
<1>1. /\ f \in Seq(S) /\ Len(f) = w /\ \A j \in 1..w : f[j] = t[j]
      /\ r \in Seq(S) /\ Len(r) = Len(t) - w
      /\ \A j \in 1..(Len(t) - w) : r[j] = t[w + j]
  BY CutShape
<1> HIDE DEF f
<1>2. f \in Seq(S)
  BY <1>1
<1>3. /\ p \in Seq(S) /\ Len(p) = Len(s) + Len(f)
      /\ \A i \in 1..Len(s) : p[i] = s[i]
      /\ \A j \in 1..Len(f) : p[Len(s) + j] = f[j]
  BY <1>2, JoinShape DEF f
<1>4. Len(p) = Len(s) + w /\ Len(s) \in Nat /\ Len(t) \in Nat
  BY <1>1, <1>3
<1>6. \A j \in 1..w : p[Len(s) + j] = t[j]
  BY <1>1, <1>3
<1> QED BY <1>1, <1>3, <1>4, <1>6

-----------------------------------------------------------------------------
(* The inductive invariant.                                                *)

(* A byte of one of the first n frames, and how many bytes frame k has.    *)
Byte(n) == [frame : 1..n, pos : Nat]
Size(k) == HdrLen + frames[k].len

(* The stream: what is in the pipe, then what a blocked send() still has   *)
(* to write.                                                               *)
Total == Len(pipe) + Len(rest)
At(i) == IF i <= Len(pipe) THEN pipe[i] ELSE rest[i - Len(pipe)]

(* The frames that are or will be in the stream as a whole, and the number *)
(* of messages handed up.                                                  *)
Whole == IF partial = 0 THEN Len(frames) ELSE partial - 1
Done  == Len(delivered)

(* The frames were packed by packhdr().                                    *)
FramesOK ==
  /\ Len(frames) <= MaxFrames
  /\ \A k \in 1..Len(frames) :
       /\ frames[k].len \in 0..MaxDataLen
       /\ frames[k].hdr = PackHdr(frames[k].tag, stcp_getLocalPort(Sender), frames[k].len)

(* Only a blocking end has bytes left to write, of its last frame, and it  *)
(* cuts none short before it closes.                                       *)
RestOK ==
  /\ rest # <<>> => /\ blocking /\ partial = 0 /\ conn # "closed"
                    /\ Len(frames) >= 1 /\ Len(rest) <= Size(Len(frames))
  /\ ~ blocking => rest = <<>>
  /\ blocking /\ conn = "open" => partial = 0

(* The bytes of a frame stand side by side, also when some are missing.    *)
Contiguous ==
  /\ \A i \in 1..Total : At(i).pos \in 1..Size(At(i).frame)
  /\ \A i, j \in 1..Total : At(i).frame = At(j).frame => At(j).pos = At(i).pos + (j - i)

(* Where the frames that are still to be handed up begin: one right behind *)
(* the other, the next one in front.  Nothing is said of what stands       *)
(* behind the first partial frame.                                         *)
Laid(off) ==
  /\ off \in [Nat -> Int]
  /\ Done <= Whole => off[Done + 1] = 0
  /\ \A k, l \in (Done + 1)..(Whole + 1) : k < l => off[k] + Size(k) <= off[l]
  /\ \A k \in (Done + 1)..Whole :
       /\ off[k + 1] = off[k] + Size(k)
       /\ off[k] + Size(k) <= Total
       /\ \A j \in 1..Size(k) : At(off[k] + j) = [frame |-> k, pos |-> j]
  /\ partial = 0 => Done <= Whole /\ Total = off[Whole + 1]

(* Until the receiver gives the connection up, the frames lie in order.    *)
InOrder == conn # "dropped" => \E off : Laid(off)

(* The inductive invariant.                                                *)
IInv ==
  /\ TypeOK
  /\ FramesOK
  /\ RestOK
  /\ Contiguous
  /\ InOrder
  /\ HeaderSurvives

(* The receiver's buffer holds the front of the pipe, the sender's the     *)
(* rest, each within its size.                                             *)
BuffersOK == arrived \in 0..RecvCap /\ Len(pipe) - arrived \in 0..SendCap
ConnState == {"open", "closed", "reset", "dropped"}

(* What TypeOK says of the stream.                                         *)
LEMMA StreamType ==
  ASSUME TypeOK, FramesOK
  PROVE  /\ HdrLen \in Nat \ {0} /\ MaxFrames \in Nat /\ MaxDataLen \in Nat
         /\ SendCap \in Nat /\ RecvCap \in Nat
         /\ Len(frames) \in 0..MaxFrames /\ partial \in 0..Len(frames) /\ Whole \in 0..Len(frames)
         /\ pipe \in Seq(Byte(Len(frames))) /\ rest \in Seq(Byte(Len(frames)))
         /\ Len(pipe) \in Nat /\ Len(rest) \in Nat /\ Total \in Nat /\ Done \in Nat
         /\ BuffersOK /\ arrived \in 0..Len(pipe)
         /\ \A k \in 1..Len(frames) : Size(k) \in Nat \ {0}
         /\ \A i \in 1..Total : At(i) \in Byte(Len(frames))
<1>1. /\ HdrLen \in Nat \ {0} /\ MaxFrames \in Nat /\ MaxDataLen \in Nat
      /\ SendCap \in Nat /\ RecvCap \in Nat
  BY SizesAssumption
<1>2. pipe \in Seq(Byte(Len(frames))) /\ rest \in Seq(Byte(Len(frames)))
  BY DEF TypeOK, Byte
<1>3. /\ Len(frames) \in 0..MaxFrames /\ partial \in 0..Len(frames)
      /\ Len(pipe) \in Nat /\ Done \in Nat
  BY <1>1, <1>2 DEF TypeOK, FramesOK, Done
<1>7. BuffersOK /\ arrived \in 0..Len(pipe)
  <2>1. BuffersOK
    BY DEF TypeOK, BuffersOK
  <2> QED BY <1>1, <1>3, <2>1 DEF BuffersOK
<1>4. \A k \in 1..Len(frames) : Size(k) \in Nat \ {0}
  BY <1>1, <1>3 DEF FramesOK, Size
<1>5. Len(rest) \in Nat /\ Total \in Nat /\ Whole \in 0..Len(frames)
  BY <1>1, <1>2, <1>3 DEF Total, Whole
<1>6. \A i \in 1..Total : At(i) \in Byte(Len(frames))
  BY <1>1, <1>2, <1>3, <1>5 DEF At, Total
<1> QED BY <1>1, <1>2, <1>3, <1>4, <1>5, <1>6, <1>7

(* The port of the sender fits a header.                                   *)
LEMMA PortType == stcp_getLocalPort(Sender) \in 0..(Short - 1)
BY InputsAssumption, SwapShort DEF stcp_getLocalPort, sockaddr_getPort

(* A longer list of frames.                                                *)
LEMMA MoreBytes ==
  ASSUME NEW n \in Nat, NEW s \in Seq(Byte(n))
  PROVE  s \in Seq(Byte(n + 1))
<1>1. Byte(n) \subseteq Byte(n + 1)
  BY DEF Byte
<1> QED BY <1>1, SeqMonotonic

(* The bytes of a frame.                                                   *)
LEMMA BytesShape ==
  ASSUME NEW k \in Nat \ {0}, NEW len \in Nat
  PROVE  /\ Bytes(k, len) \in Seq(Byte(k)) /\ Len(Bytes(k, len)) = HdrLen + len
         /\ \A i \in 1..(HdrLen + len) : Bytes(k, len)[i] = [frame |-> k, pos |-> i]
<1>1. HdrLen + len \in Nat
  BY SizesAssumption
<1> DEFINE b == [i \in 1..(HdrLen + len) |-> [frame |-> k, pos |-> i]]
<1>2. \A i \in 1..(HdrLen + len) : [frame |-> k, pos |-> i] \in Byte(k)
  BY <1>1 DEF Byte
<1>3. b \in Seq(Byte(k)) /\ Len(b) = HdrLen + len
  BY <1>1, <1>2
<1> QED BY <1>1, <1>3 DEF Bytes

(* What send() adds to the stream: the first bytes of a new frame, all of  *)
(* them unless it is the one that is cut short.                            *)
Adds(len, e) ==
  LET n == Len(frames) IN
  /\ Total' = Total + e
  /\ \A i \in 1..Total : At(i)' = At(i)
  /\ \A i \in (Total + 1)..(Total + e) : At(i)' = [frame |-> n + 1, pos |-> i - Total]
  /\ \/ e = HdrLen + len /\ partial' = partial
     \/ /\ rest' = <<>> /\ ~ blocking
        /\ partial' = IF partial = 0 THEN n + 1 ELSE partial

(* send(), whichever end it is at, refuses a body that is too big and adds *)
(* to the stream.                                                          *)
LEMMA SendShape ==
  ASSUME IInv, NEW tag \in Tag, NEW len \in BodyLen, Send(tag, len)
  PROVE  /\ len \in 0..MaxDataLen /\ Len(frames) < MaxFrames /\ rest = <<>> /\ conn = "open"
         /\ frames' = Append(frames,
              [tag |-> tag, len |-> len, hdr |-> PackHdr(tag, stcp_getLocalPort(Sender), len)])
         /\ pipe' \in Seq(Byte(Len(frames) + 1)) /\ rest' \in Seq(Byte(Len(frames) + 1))
         /\ BuffersOK' /\ Len(rest') <= HdrLen + len
         /\ rest' # <<>> => blocking
         /\ \E e \in 0..(HdrLen + len) : Adds(len, e)
<1> DEFINE n == Len(frames)
           S == Byte(n + 1)
           b == Bytes(n + 1, len)
           w == Written(b)
           p == SubSeq(b, 1, w)
           r == SubSeq(b, w + 1, Len(b))
<1>1. /\ len \in 0..MaxDataLen /\ len \in Nat /\ n < MaxFrames
      /\ rest = <<>> /\ conn = "open"
      /\ frames' = Append(frames,
           [tag |-> tag, len |-> len, hdr |-> PackHdr(tag, stcp_getLocalPort(Sender), len)])
      /\ pipe' = pipe \o p /\ arrived' = arrived
      /\ \/ blocking /\ rest' = r /\ partial' = partial
         \/ ~ blocking /\ rest' = rest
            /\ partial' = IF w < Len(b) /\ partial = 0 THEN n + 1 ELSE partial
  <2>1. len \in Nat /\ MaxDataLen \in Nat
    BY InputsAssumption, SizesAssumption
  <2> QED BY <2>1 DEF Send
<1>2. /\ HdrLen \in Nat \ {0} /\ SendCap \in Nat /\ n \in Nat
      /\ pipe \in Seq(Byte(n)) /\ Len(pipe) \in Nat /\ Total \in Nat
      /\ BuffersOK /\ arrived \in 0..Len(pipe)
  BY StreamType DEF IInv
<1>3. /\ b \in Seq(S) /\ Len(b) = HdrLen + len
      /\ \A i \in 1..(HdrLen + len) : b[i] = [frame |-> n + 1, pos |-> i]
  <2>1. n + 1 \in Nat \ {0} /\ len \in Nat
    BY <1>1, <1>2
  <2> QED BY <2>1, BytesShape
<1>4. pipe \in Seq(S)
  BY <1>2, MoreBytes
<1> HIDE DEF b, n, S
<1>5. w \in 0..Len(b) /\ Len(pipe) + w - arrived \in 0..SendCap
  <2>1. /\ Len(b) \in Nat /\ SendCap \in Nat /\ Len(pipe) \in Nat
        /\ arrived \in 0..Len(pipe) /\ Len(pipe) - arrived \in 0..SendCap
    BY <1>1, <1>2, <1>3 DEF BuffersOK
  <2> QED BY ONLY <2>1 DEF Written, Room
<1> HIDE DEF w
<1>6. b \in Seq(S) /\ pipe' = pipe \o SubSeq(b, 1, w)
  BY <1>1, <1>3
<1>7. /\ pipe' \in Seq(S) /\ Len(pipe') = Len(pipe) + w /\ r \in Seq(S) /\ Len(r) = Len(b) - w
      /\ \A i \in 1..Len(pipe) : pipe'[i] = pipe[i]
      /\ \A j \in 1..w : pipe'[Len(pipe) + j] = b[j]
      /\ \A j \in 1..(Len(b) - w) : r[j] = b[w + j]
  <2>1. w \in 0..Len(b) /\ b \in Seq(S) /\ r = SubSeq(b, w + 1, Len(b))
    BY <1>5, <1>6 DEF r
  <2>2. ASSUME NEW q, q = pipe \o SubSeq(b, 1, w)
        PROVE  /\ q \in Seq(S) /\ Len(q) = Len(pipe) + w /\ r \in Seq(S) /\ Len(r) = Len(b) - w
               /\ \A i \in 1..Len(pipe) : q[i] = pipe[i]
               /\ \A j \in 1..w : q[Len(pipe) + j] = b[j]
               /\ \A j \in 1..(Len(b) - w) : r[j] = b[w + j]
    <3> HIDE DEF r
    <3> QED BY ONLY <1>4, <2>1, <2>2, MoveShape, SMTT(30)
  <2> QED BY ONLY <1>6, <2>2
<1>13. BuffersOK'
  BY <1>1, <1>2, <1>5, <1>7 DEF BuffersOK
<1>8. Total = Len(pipe) /\ \A i \in 1..Total : At(i) = pipe[i]
  BY <1>1, <1>2 DEF Total, At
<1>9. \A i \in 1..Total : At(i)' = At(i)
  BY <1>2, <1>5, <1>7, <1>8 DEF At
<1>10. Len(pipe) \in Nat /\ len \in Nat /\ HdrLen \in Nat /\ Len(b) = HdrLen + len
  BY <1>1, <1>2, <1>3
<1>11. CASE blocking /\ rest' = r /\ partial' = partial
  <2>1. Total' = Total + (HdrLen + len)
    <3>1. Len(pipe') = Len(pipe) + w /\ Len(rest') = Len(b) - w
      BY <1>7, <1>11
    <3> QED BY ONLY <1>5, <1>8, <1>10, <3>1, SMTT(30) DEF Total
  <2>2. ASSUME NEW i \in (Total + 1)..(Total + (HdrLen + len))
        PROVE  At(i)' = [frame |-> n + 1, pos |-> i - Total]
    <3> DEFINE j == i - Total
    <3>0. j \in 1..Len(b) /\ i = Len(pipe) + j
      BY <1>8, <1>10
    <3> HIDE DEF j
    <3>1. ASSUME j <= w PROVE At(i)' = b[j]
      <4>1. j \in 1..w /\ i <= Len(pipe')
        BY <1>5, <1>7, <1>8, <1>10, <3>0, <3>1, SMTT(30)
      <4>2. At(i)' = pipe'[Len(pipe) + j]
        BY <3>0, <4>1 DEF At
      <4> QED BY <1>7, <4>1, <4>2
    <3>2. ASSUME ~ (j <= w) PROVE At(i)' = b[j]
      <4>1. /\ j - w \in 1..(Len(b) - w) /\ w + (j - w) = j
            /\ ~ (i <= Len(pipe')) /\ i - Len(pipe') = j - w
        BY <1>5, <1>7, <1>8, <1>10, <3>0, <3>2
      <4>2. At(i)' = r[j - w]
        BY <1>11, <4>1 DEF At
      <4> QED BY <1>7, <4>1, <4>2
    <3>3. At(i)' = b[j]
      BY <3>1, <3>2
    <3> QED BY <1>3, <1>10, <3>0, <3>3 DEF j
  <2>3. HdrLen + len \in 0..(HdrLen + len)
    BY <1>10
  <2>4. Adds(len, HdrLen + len)
    BY <1>9, <1>11, <2>1, <2>2 DEF Adds, n
  <2>5. rest' \in Seq(S) /\ Len(rest') <= HdrLen + len
    BY <1>5, <1>7, <1>10, <1>11, SMTT(30)
  <2> QED BY <1>1, <1>5, <1>7, <1>11, <1>13, <2>3, <2>4, <2>5 DEF n, S
<1>12. CASE ~ blocking /\ rest' = rest
            /\ partial' = IF w < Len(b) /\ partial = 0 THEN n + 1 ELSE partial
  <2>1. Total' = Total + w
    BY <1>1, <1>5, <1>7, <1>8, <1>12 DEF Total
  <2>2. ASSUME NEW i \in (Total + 1)..(Total + w)
        PROVE  At(i)' = [frame |-> n + 1, pos |-> i - Total]
    <3> DEFINE j == i - Total
    <3>0. j \in 1..w /\ j \in 1..Len(b) /\ i = Len(pipe) + j /\ i <= Len(pipe')
      BY <1>5, <1>7, <1>8, <1>10, SMTT(30)
    <3> HIDE DEF j
    <3>1. At(i)' = pipe'[Len(pipe) + j]
      BY <3>0 DEF At
    <3>2. At(i)' = b[j]
      BY <1>7, <3>0, <3>1
    <3> QED BY <1>3, <1>10, <3>0, <3>2 DEF j
  <2>3. (w = HdrLen + len /\ partial' = partial) \/ partial' = IF partial = 0 THEN n + 1 ELSE partial
    BY <1>5, <1>10, <1>12
  <2>4. Adds(len, w)
    BY <1>1, <1>9, <1>12, <2>1, <2>2, <2>3 DEF Adds, n
  <2>5. rest' \in Seq(S) /\ Len(rest') <= HdrLen + len /\ rest' = <<>>
    BY <1>1, <1>10, <1>12
  <2> QED BY <1>1, <1>5, <1>7, <1>10, <1>12, <1>13, <2>4, <2>5 DEF n, S
<1> QED BY <1>1, <1>11, <1>12

(* Messages of more frames.                                                *)
Handed(n) == [tag : Int, len : 0..MaxDataLen, of : SUBSET (1..n), ip : Int, port : Int]
FrameType == [tag : Tag, len : BodyLen,
              hdr : [code : 0..(Short - 1), port : 0..(Short - 1), length : 0..(Long - 1)]]

(* A message that was handed up stays one when more frames follow.         *)
LEMMA MoreHanded ==
  ASSUME NEW n \in Nat, NEW s \in Seq(Handed(n))
  PROVE  s \in Seq(Handed(n + 1))
<1>1. Handed(n) \subseteq Handed(n + 1)
  BY DEF Handed
<1> QED BY <1>1, SeqMonotonic

(* TypeOK with its parts named.                                            *)
LEMMA TypeParts ==
  TypeOK <=> /\ blocking \in BOOLEAN /\ frames \in Seq(FrameType)
             /\ rest \in Seq(Byte(Len(frames))) /\ pipe \in Seq(Byte(Len(frames)))
             /\ BuffersOK /\ partial \in 0..Len(frames)
             /\ conn \in ConnState
             /\ delivered \in Seq(Handed(Len(frames)))
BY DEF TypeOK, BuffersOK, ConnState, FrameType, Byte, Handed

(* A frame that is written leaves the others as they are.                  *)
LEMMA FramesAppend ==
  ASSUME IInv, NEW f \in FrameType, frames' = Append(frames, f),
         Len(frames) < MaxFrames, f.len \in 0..MaxDataLen,
         f.hdr = PackHdr(f.tag, stcp_getLocalPort(Sender), f.len)
  PROVE  /\ Len(frames)' = Len(frames) + 1 /\ frames' \in Seq(FrameType) /\ FramesOK'
         /\ \A k \in 1..Len(frames) : frames'[k] = frames[k] /\ Size(k)' = Size(k)
         /\ \A k : k = Len(frames) + 1 => frames'[k] = f /\ Size(k)' = HdrLen + f.len
<1> DEFINE n == Len(frames)
<1>1. frames \in Seq(FrameType) /\ n \in Nat /\ MaxFrames \in Nat
  BY TypeParts, StreamType DEF IInv
<1>2. /\ frames' \in Seq(FrameType) /\ Len(frames') = n + 1
      /\ \A k \in 1..n : frames'[k] = frames[k]
      /\ frames'[n + 1] = f
  BY <1>1
<1> HIDE DEF n
<1>3. FramesOK'
  <2> SUFFICES ASSUME NEW k \in 1..Len(frames')
               PROVE  /\ frames'[k].len \in 0..MaxDataLen
                      /\ frames'[k].hdr = PackHdr(frames'[k].tag, stcp_getLocalPort(Sender), frames'[k].len)
    BY <1>1, <1>2 DEF FramesOK, n
  <2>1. CASE k \in 1..n
    BY <1>2, <2>1 DEF IInv, FramesOK, n
  <2>2. CASE k = n + 1
    BY <1>2, <2>2
  <2> QED BY <1>1, <1>2, <2>1, <2>2
<1> QED BY <1>1, <1>2, <1>3 DEF Size, n

(* send() leaves the frames it was given before as they were, and only a   *)
(* blocking end with bytes to write.                                       *)
LEMMA SendKeepsTypes ==
  ASSUME IInv, NEW tag \in Tag, NEW len \in BodyLen, Send(tag, len)
  PROVE  /\ TypeOK' /\ FramesOK' /\ RestOK'
         /\ Len(frames)' = Len(frames) + 1
         /\ \A k \in 1..Len(frames) : frames'[k] = frames[k] /\ Size(k)' = Size(k)
         /\ \A k : k = Len(frames) + 1 => Size(k)' = HdrLen + len
<1> DEFINE n == Len(frames)
           f == [tag |-> tag, len |-> len, hdr |-> PackHdr(tag, stcp_getLocalPort(Sender), len)]
<1>1. /\ len \in 0..MaxDataLen /\ n < MaxFrames /\ rest = <<>> /\ conn = "open"
      /\ frames' = Append(frames, f)
      /\ pipe' \in Seq(Byte(n + 1)) /\ rest' \in Seq(Byte(n + 1))
      /\ BuffersOK' /\ Len(rest') <= HdrLen + len
      /\ rest' # <<>> => blocking
      /\ partial' = partial \/ (partial' = n + 1 /\ ~ blocking)
  BY SendShape DEF Adds
<1>2. UNCHANGED <<blocking, conn, delivered>>
  BY DEF Send
<1>3. f \in FrameType
  <2>1. tag \in Int /\ len \in 0..(Long \div 2 - 1)
    BY <1>1, InputsAssumption, SizesAssumption, Sizes
  <2>2. f.hdr \in [code : 0..(Short - 1), port : 0..(Short - 1), length : 0..(Long - 1)]
    BY <2>1, PortType, HeaderRoundTrip
  <2> QED BY <2>2 DEF FrameType
<1>4. /\ f.len \in 0..MaxDataLen /\ f.len = len
      /\ f.hdr = PackHdr(f.tag, stcp_getLocalPort(Sender), f.len)
  BY <1>1
<1> HIDE DEF f
<1>5. /\ Len(frames') = n + 1 /\ frames' \in Seq(FrameType) /\ FramesOK'
      /\ \A k \in 1..n : frames'[k] = frames[k] /\ Size(k)' = Size(k)
      /\ \A k : k = n + 1 => frames'[k] = f /\ Size(k)' = HdrLen + len
  BY <1>1, <1>3, <1>4, FramesAppend
<1>6. n \in Nat /\ partial \in 0..n
  BY StreamType DEF IInv
<1> HIDE DEF n
<1>7. TypeOK'
  <2>1. delivered' \in Seq(Handed(n + 1))
    BY <1>2, <1>6, TypeParts, MoreHanded DEF IInv, n
  <2>2. partial' \in 0..(n + 1)
    BY <1>1, <1>6
  <2>3. blocking' \in BOOLEAN /\ conn' \in ConnState
    BY <1>2, TypeParts DEF IInv
  <2>4. /\ blocking' \in BOOLEAN /\ frames' \in Seq(FrameType)
        /\ rest' \in Seq(Byte(Len(frames'))) /\ pipe' \in Seq(Byte(Len(frames')))
        /\ BuffersOK' /\ partial' \in 0..Len(frames')
        /\ conn' \in ConnState
        /\ delivered' \in Seq(Handed(Len(frames')))
    BY <1>1, <1>5, <2>1, <2>2, <2>3
  <2> QED BY <2>4 DEF TypeOK, BuffersOK, ConnState, FrameType, Byte, Handed
<1>8. RestOK'
  <2>1. Size(Len(frames))' = HdrLen + len
    BY <1>4, <1>5 DEF Size
  <2>2. blocking => partial = 0 /\ partial' = 0
    BY <1>1 DEF IInv, RestOK
  <2>3. Len(frames') >= 1
    BY <1>5, <1>6
  <2> QED BY <1>1, <1>2, <2>1, <2>2, <2>3 DEF RestOK
<1> QED BY <1>5, <1>7, <1>8 DEF n

(* The bytes send() adds are those of a new frame, from its first on.      *)
LEMMA SendKeepsContiguous ==
  ASSUME IInv, NEW tag \in Tag, NEW len \in BodyLen, Send(tag, len)
  PROVE  Contiguous'
<1> DEFINE n == Len(frames)
           t == Total
<1>1. PICK e \in 0..(HdrLen + len) : Adds(len, e)
  BY SendShape
<1>2. /\ n \in Nat /\ t \in Nat /\ HdrLen \in Nat /\ len \in Nat
      /\ \A i \in 1..t : At(i) \in Byte(n)
  BY StreamType, InputsAssumption DEF IInv
<1>3. /\ \A k \in 1..n : Size(k)' = Size(k)
      /\ \A k : k = n + 1 => Size(k)' = HdrLen + len
  BY SendKeepsTypes
<1>4. /\ Total' = t + e
      /\ \A i \in 1..t : At(i)' = At(i)
      /\ \A i \in (t + 1)..(t + e) : At(i)' = [frame |-> n + 1, pos |-> i - t]
  BY <1>1 DEF Adds
<1>5. /\ \A i \in 1..t : At(i).pos \in 1..Size(At(i).frame)
      /\ \A i, j \in 1..t : At(i).frame = At(j).frame => At(j).pos = At(i).pos + (j - i)
  BY DEF IInv, Contiguous
<1> HIDE DEF n, t
<1>6. ASSUME NEW i \in 1..(t + e)
      PROVE  \/ /\ i \in 1..t /\ At(i)' = At(i) /\ At(i).frame \in 1..n
             \/ /\ i \in (t + 1)..(t + e) /\ At(i)'.frame = n + 1 /\ At(i)'.pos = i - t
  BY <1>2, <1>4 DEF Byte
<1>7. ASSUME NEW i \in 1..(t + e) PROVE (At(i).pos \in 1..Size(At(i).frame))'
  <2>1. CASE i \in 1..t /\ At(i)' = At(i) /\ At(i).frame \in 1..n
    <3>1. Size(At(i).frame)' = Size(At(i).frame)
      BY <1>3, <2>1 DEF Size
    <3> QED BY <1>5, <2>1, <3>1
  <2>2. CASE i \in (t + 1)..(t + e) /\ At(i)'.frame = n + 1 /\ At(i)'.pos = i - t
    <3>1. Size(At(i).frame)' = HdrLen + len
      BY <1>3, <2>2 DEF Size
    <3>2. i - t \in 1..(HdrLen + len)
      BY <1>1, <1>2, <2>2
    <3> QED BY <2>2, <3>1, <3>2
  <2> QED BY <1>6, <2>1, <2>2
<1>8. ASSUME NEW i \in 1..(t + e), NEW j \in 1..(t + e), At(i)'.frame = At(j)'.frame
      PROVE  At(j)'.pos = At(i)'.pos + (j - i)
  <2>1. CASE i \in 1..t /\ j \in 1..t /\ At(i)' = At(i) /\ At(j)' = At(j)
    BY <1>5, <1>8, <2>1
  <2>2. CASE At(i)'.pos = i - t /\ At(j)'.pos = j - t
    BY <1>2, <1>1, <2>2
  <2> QED BY <1>2, <1>6, <1>8, <2>1, <2>2
<1>9. (\A i \in 1..Total : At(i).pos \in 1..Size(At(i).frame))'
  BY <1>4, <1>7
<1>10. (\A i, j \in 1..Total : At(i).frame = At(j).frame => At(j).pos = At(i).pos + (j - i))'
  BY <1>4, <1>8
<1> QED BY <1>9, <1>10 DEF Contiguous

(* A frame that is to be handed up is in the stream.                       *)
LEMMA LaidInStream ==
  ASSUME IInv, NEW off, Laid(off), NEW k \in (Done + 1)..Whole
  PROVE  /\ k \in 1..Len(frames) /\ off[k] \in Nat /\ off[k] + Size(k) <= Total
         /\ \A j \in 1..Size(k) : off[k] + j \in 1..Total
<1> DEFINE d == Done
           w == Whole
           n == Len(frames)
<1>1. n \in Nat /\ d \in Nat /\ w \in 0..n /\ Total \in Nat /\ \A i \in 1..n : Size(i) \in Nat
  BY StreamType DEF IInv
<1>2. /\ off \in [Nat -> Int]
      /\ d <= w => off[d + 1] = 0
      /\ \A i, l \in (d + 1)..(w + 1) : i < l => off[i] + Size(i) <= off[l]
      /\ off[k] + Size(k) <= Total
  BY DEF Laid
<1> HIDE DEF d, w, n
<1>3. k \in (d + 1)..w
  BY DEF d, w
<1>4. k \in 1..n /\ off[k] \in Int /\ Size(k) \in Nat /\ d <= w
  BY <1>1, <1>2, <1>3
<1>5. off[k] >= 0
  <2>1. CASE k = d + 1
    BY <1>2, <1>4, <2>1
  <2>2. CASE k # d + 1
    <3>1. /\ d + 1 \in (d + 1)..(w + 1) /\ k \in (d + 1)..(w + 1) /\ d + 1 < k
          /\ d + 1 \in 1..n
      BY <1>1, <1>3, <2>2
    <3>2. off[d + 1] + Size(d + 1) <= off[k] /\ off[d + 1] = 0 /\ Size(d + 1) \in Nat
      BY <1>1, <1>2, <1>4, <3>1
    <3>3. off[k] \in Int
      BY <1>4
    <3> QED BY ONLY <3>2, <3>3
  <2> QED BY <2>1, <2>2
<1>6. k \in 1..n /\ off[k] \in Nat /\ off[k] + Size(k) <= Total
  BY <1>2, <1>4, <1>5
<1>7. \A j \in 1..Size(k) : off[k] + j \in 1..Total
  <2>1. off[k] \in Nat /\ Size(k) \in Nat /\ Total \in Nat /\ off[k] + Size(k) <= Total
    BY <1>1, <1>4, <1>6
  <2> QED BY ONLY <2>1
<1> QED BY <1>6, <1>7 DEF n

(* Where the frames begin, after another one was written.                  *)
LEMMA SendKeepsOrder ==
  ASSUME IInv, NEW tag \in Tag, NEW len \in BodyLen, Send(tag, len)
  PROVE  InOrder'
<1> DEFINE n == Len(frames)
           t == Total
           d == Done
           w == Whole
<1>1. PICK e \in 0..(HdrLen + len) : Adds(len, e)
  BY SendShape
<1>2. /\ n \in Nat /\ t \in Nat /\ d \in Nat /\ HdrLen \in Nat \ {0} /\ len \in Nat
      /\ w \in 0..n /\ partial \in 0..n
      /\ \A k \in 1..n : Size(k) \in Nat
  BY StreamType, InputsAssumption DEF IInv
<1>3. /\ \A k \in 1..n : Size(k)' = Size(k)
      /\ \A k : k = n + 1 => Size(k)' = HdrLen + len
      /\ Len(frames') = n + 1
  BY SendKeepsTypes
<1>4. /\ Total' = t + e
      /\ \A i \in 1..t : At(i)' = At(i)
      /\ \A i \in (t + 1)..(t + e) : At(i)' = [frame |-> n + 1, pos |-> i - t]
      /\ \/ e = HdrLen + len /\ partial' = partial
         \/ ~ blocking /\ partial' = IF partial = 0 THEN n + 1 ELSE partial
  BY <1>1 DEF Adds
<1>5. Done' = d
  BY DEF Send, Done
<1>6. PICK off : Laid(off)
  BY SendShape DEF IInv, InOrder
<1>7. /\ off \in [Nat -> Int]
      /\ d <= w => off[d + 1] = 0
      /\ \A k, l \in (d + 1)..(w + 1) : k < l => off[k] + Size(k) <= off[l]
      /\ \A k \in (d + 1)..w :
           /\ off[k + 1] = off[k] + Size(k)
           /\ off[k] + Size(k) <= t
           /\ \A j \in 1..Size(k) : At(off[k] + j) = [frame |-> k, pos |-> j]
      /\ partial = 0 => d <= w /\ t = off[w + 1]
  BY <1>6 DEF Laid
<1>8. partial = 0 => w = n
  BY DEF Whole
<1>9. Whole' = IF partial' = 0 THEN n + 1 ELSE partial' - 1
  BY <1>3 DEF Whole
<1>10. partial # 0 => w = partial - 1
  BY DEF Whole
<1> HIDE DEF n, t, d, w
(* The bytes of the frames that were there before stay where they are.     *)
<1>11. ASSUME NEW k \in (d + 1)..w
       PROVE  /\ off[k] \in Int /\ off[k] >= 0 /\ Size(k)' = Size(k)
              /\ \A j \in 1..Size(k) : At(off[k] + j)' = [frame |-> k, pos |-> j]
  <2>1. /\ k \in 1..n /\ off[k] \in Nat
        /\ \A j \in 1..Size(k) : off[k] + j \in 1..t
    BY <1>6, LaidInStream DEF d, w, n, t
  <2>2. Size(k)' = Size(k)
    BY <1>3, <2>1
  <2>3. ASSUME NEW j \in 1..Size(k) PROVE At(off[k] + j)' = [frame |-> k, pos |-> j]
    <3>1. off[k] + j \in 1..t
      BY <2>1
    <3>2. At(off[k] + j) = [frame |-> k, pos |-> j]
      BY <1>7
    <3> QED BY <1>4, <3>1, <3>2
  <2> QED BY <2>1, <2>2, <2>3
<1>12. CASE partial' # 0
  <2>1. Whole' = w
    BY <1>2, <1>4, <1>8, <1>9, <1>10, <1>12
  <2>2. t <= Total'
    BY <1>1, <1>2, <1>4
  <2>3. \A k \in (d + 1)..(w + 1), l \in (d + 1)..(w + 1) : k < l =>
           k \in (d + 1)..w
    BY <1>2
  <2>4. Laid(off)'
    <3>1. \A k, l \in (d + 1)..(w + 1) : k < l => off[k] + Size(k)' <= off[l]
      BY <1>7, <1>11, <2>3
    <3>2. \A k \in (d + 1)..w :
           /\ off[k + 1] = off[k] + Size(k)'
           /\ off[k] + Size(k)' <= Total'
           /\ \A j \in 1..Size(k)' : At(off[k] + j)' = [frame |-> k, pos |-> j]
      <4> SUFFICES ASSUME NEW k \in (d + 1)..w
                   PROVE  /\ off[k + 1] = off[k] + Size(k)
                          /\ off[k] + Size(k) <= Total'
                          /\ \A j \in 1..Size(k) : At(off[k] + j)' = [frame |-> k, pos |-> j]
        BY <1>11
      <4>1. Size(k) \in Nat /\ off[k] \in Int
        BY <1>2, <1>11
      <4> QED BY <1>1, <1>2, <1>4, <1>7, <1>11, <4>1
    <3> QED BY <1>5, <1>7, <1>12, <2>1, <3>1, <3>2 DEF Laid
  <2> QED BY <2>4 DEF InOrder
<1>13. CASE partial' = 0
  <2>1. partial = 0 /\ e = HdrLen + len /\ w = n /\ d <= n /\ t = off[n + 1] /\ Whole' = n + 1
    BY <1>2, <1>4, <1>7, <1>8, <1>9, <1>13
  <2>2. PICK new \in [Nat -> Int] :
          new[n + 2] = t + e /\ \A k \in 1..(n + 1) : new[k] = off[k]
    <3> DEFINE f == [off EXCEPT ![n + 2] = t + e]
    <3>1. f \in [Nat -> Int] /\ f[n + 2] = t + e /\ \A k \in 1..(n + 1) : f[k] = off[k]
      BY <1>1, <1>2, <1>7
    <3> HIDE DEF f
    <3> QED BY <3>1
  <2>3. new[n + 1] = t
    BY <1>2, <2>1, <2>2
  <2>4. \A k : k = n + 1 => Size(k)' = e
    BY <1>3, <2>1
  <2>5. \A k, l \in (d + 1)..(n + 2) : k < l => new[k] + Size(k)' <= new[l]
    <3> SUFFICES ASSUME NEW k \in (d + 1)..(n + 2), NEW l \in (d + 1)..(n + 2), k < l
                 PROVE  new[k] + Size(k)' <= new[l]
      OBVIOUS
    <3>1. CASE l \in (d + 1)..(n + 1)
      <4>1. k \in (d + 1)..w /\ k \in (d + 1)..(w + 1) /\ l \in (d + 1)..(w + 1)
        BY <1>2, <2>1, <3>1
      <4>2. off[k] + Size(k) <= off[l] /\ Size(k)' = Size(k)
        BY <1>7, <1>11, <4>1
      <4>3. new[k] = off[k] /\ new[l] = off[l]
        BY <1>2, <2>2, <3>1
      <4> QED BY <4>2, <4>3
    <3>2. CASE l = n + 2 /\ k = n + 1
      BY <1>1, <1>2, <2>2, <2>3, <2>4, <3>2
    <3>3. CASE l = n + 2 /\ k \in (d + 1)..n
      <4>1. off[k] + Size(k) <= t /\ Size(k)' = Size(k) /\ Size(k) \in Nat /\ off[k] \in Int
        BY <1>2, <1>7, <1>11, <2>1, <3>3
      <4>2. new[k] = off[k]
        BY <1>2, <2>2, <3>3
      <4> QED BY <1>1, <1>2, <2>2, <3>3, <4>1, <4>2
    <3> QED BY <1>2, <3>1, <3>2, <3>3
  <2>6. ASSUME NEW k \in (d + 1)..(n + 1)
        PROVE  /\ new[k + 1] = new[k] + Size(k)'
               /\ new[k] + Size(k)' <= t + e
               /\ \A j \in 1..Size(k)' : At(new[k] + j)' = [frame |-> k, pos |-> j]
    <3>1. CASE k \in (d + 1)..n
      <4>1. /\ off[k + 1] = off[k] + Size(k) /\ off[k] + Size(k) <= t /\ Size(k)' = Size(k)
            /\ Size(k) \in Nat /\ off[k] \in Int
        BY <1>2, <1>7, <1>11, <2>1, <3>1
      <4>2. new[k] = off[k] /\ new[k + 1] = off[k + 1]
        BY <1>2, <2>2, <3>1
      <4>3. \A j \in 1..Size(k) : At(off[k] + j)' = [frame |-> k, pos |-> j]
        BY <1>11, <2>1, <3>1
      <4> QED BY <1>1, <1>2, <4>1, <4>2, <4>3
    <3>2. CASE k = n + 1
      <4>1. new[k] = t /\ new[k + 1] = t + e /\ Size(k)' = e
        BY <1>2, <2>2, <2>3, <2>4, <3>2
      <4>2. ASSUME NEW j \in 1..e PROVE At(new[k] + j)' = [frame |-> k, pos |-> j]
        <5>1. PICK i : i = new[k] + j
          OBVIOUS
        <5>2. i \in (t + 1)..(t + e) /\ i - t = j
          BY <1>1, <1>2, <4>1, <5>1
        <5>3. At(i)' = [frame |-> n + 1, pos |-> i - t]
          BY <1>4, <5>2
        <5> QED BY <3>2, <5>1, <5>2, <5>3
      <4> QED BY <1>1, <1>2, <4>1, <4>2
    <3> QED BY <1>2, <3>1, <3>2
  <2>7. Laid(new)'
    <3>1. new[d + 1] = 0
      BY <1>2, <1>7, <2>1, <2>2
    <3>2. d <= n + 1 /\ n + 1 + 1 = n + 2
      BY <1>2, <2>1
    <3> QED BY <1>4, <1>5, <2>1, <2>2, <2>5, <2>6, <3>1, <3>2 DEF Laid
  <2> QED BY <2>7 DEF InOrder
<1> QED BY <1>12, <1>13

(* Messages handed up before a send() have nothing to do with its frame.   *)
LEMMA SendKeepsHeaders ==
  ASSUME IInv, NEW tag \in Tag, NEW len \in BodyLen, Send(tag, len)
  PROVE  HeaderSurvives'
<1> DEFINE n == Len(frames)
<1>1. /\ Len(frames') = n + 1 /\ \A k \in 1..n : frames'[k] = frames[k]
  BY SendKeepsTypes
<1>2. delivered' = delivered /\ delivered \in Seq(Handed(n))
  BY TypeParts DEF IInv, Send
<1>3. n \in Nat
  BY StreamType DEF IInv
<1>4. ASSUME NEW i \in 1..Len(delivered), NEW k \in 1..(n + 1), Intact(delivered[i], k)'
      PROVE  k \in 1..n /\ Intact(delivered[i], k)
  <2>0. delivered[i] \in Handed(n)
    BY <1>2, ElementOfSeq
  <2>1. delivered[i].of \in SUBSET (1..n)
    BY <2>0 DEF Handed
  <2>2. delivered[i].of = {k}
    BY <1>2, <1>4 DEF Intact
  <2> QED BY <1>1, <1>2, <1>4, <2>1, <2>2 DEF Intact
<1> QED BY <1>1, <1>2, <1>4 DEF IInv, HeaderSurvives

(* send() keeps the invariant.                                             *)
LEMMA SendKeepsIInv ==
  ASSUME IInv, NEW tag \in Tag, NEW len \in BodyLen, Send(tag, len)
  PROVE  IInv'
BY SendKeepsTypes, SendKeepsContiguous, SendKeepsOrder, SendKeepsHeaders DEF IInv

(* The stream as it was, though more of it may be in the pipe.             *)
LEMMA SameStream ==
  ASSUME IInv, UNCHANGED <<frames, partial, delivered>>, Total' = Total,
         \A i \in 1..Total : At(i)' = At(i), conn' # "dropped" => conn # "dropped"
  PROVE  Contiguous' /\ InOrder' /\ FramesOK' /\ HeaderSurvives'
<1>1. /\ \A k : Size(k)' = Size(k)
      /\ Done' = Done /\ Whole' = Whole /\ Total \in Nat
  BY StreamType DEF IInv, Size, Done, Whole
<1>2. Contiguous'
  <2>1. ASSUME NEW i \in 1..Total PROVE (At(i).pos \in 1..Size(At(i).frame))'
    <3>1. Size(At(i).frame)' = Size(At(i).frame)
      BY DEF Size
    <3> QED BY <3>1 DEF IInv, Contiguous
  <2>2. ASSUME NEW i \in 1..Total, NEW j \in 1..Total, At(i)'.frame = At(j)'.frame
        PROVE  At(j)'.pos = At(i)'.pos + (j - i)
    BY <2>2 DEF IInv, Contiguous
  <2>3. (\A i \in 1..Total : At(i).pos \in 1..Size(At(i).frame))'
    BY <2>1
  <2>4. (\A i, j \in 1..Total : At(i).frame = At(j).frame => At(j).pos = At(i).pos + (j - i))'
    BY <2>2
  <2> QED BY <2>3, <2>4 DEF Contiguous
<1>3. FramesOK' /\ HeaderSurvives'
  BY DEF IInv, FramesOK, HeaderSurvives, Intact
<1>4. ASSUME conn' # "dropped" PROVE InOrder'
  <2>1. PICK off : Laid(off)
    BY <1>4 DEF IInv, InOrder
  <2>2. ASSUME NEW k \in (Done + 1)..Whole, NEW j \in 1..Size(k)
        PROVE  At(off[k] + j)' = [frame |-> k, pos |-> j]
    <3>1. At(off[k] + j) = [frame |-> k, pos |-> j]
      BY <2>1 DEF Laid
    <3>2. off[k] + j \in 1..Total
      BY <2>1, LaidInStream
    <3> QED BY <3>1, <3>2
  <2>3. Laid(off)'
    BY <1>1, <2>1, <2>2 DEF Laid
  <2> QED BY <2>3 DEF InOrder
<1> QED BY <1>2, <1>3, <1>4 DEF InOrder

(* A blocked send() that goes on moves bytes into the pipe.                *)
LEMMA ResumeShape ==
  ASSUME IInv, Resume
  PROVE  /\ TypeOK' /\ Total' = Total /\ \A i \in 1..Total : At(i)' = At(i)
         /\ Len(rest') <= Len(rest)
<1> DEFINE S == Byte(Len(frames))
           w == Written(rest)
<1>1. /\ pipe \in Seq(S) /\ rest \in Seq(S) /\ Len(pipe) \in Nat /\ Len(rest) \in Nat
      /\ SendCap \in Nat /\ BuffersOK /\ arrived \in 0..Len(pipe)
  BY StreamType DEF IInv
<1>2. w \in 0..Len(rest) /\ Len(pipe) + w - arrived \in 0..SendCap
  <2>1. /\ Len(rest) \in Nat /\ SendCap \in Nat /\ Len(pipe) \in Nat
        /\ arrived \in 0..Len(pipe) /\ Len(pipe) - arrived \in 0..SendCap
    BY <1>1 DEF BuffersOK
  <2> QED BY ONLY <2>1 DEF Written, Room
<1> HIDE DEF S, w
<1>3. pipe' = pipe \o SubSeq(rest, 1, w) /\ rest' = SubSeq(rest, w + 1, Len(rest))
  BY DEF Resume, w
<1>4. pipe \in Seq(S) /\ rest \in Seq(S)
  BY <1>1
<1>5. /\ pipe' \in Seq(S) /\ Len(pipe') = Len(pipe) + w
      /\ rest' \in Seq(S) /\ Len(rest') = Len(rest) - w
      /\ \A i \in 1..Len(pipe) : pipe'[i] = pipe[i]
      /\ \A j \in 1..w : pipe'[Len(pipe) + j] = rest[j]
      /\ \A j \in 1..(Len(rest) - w) : rest'[j] = rest[w + j]
  <2>1. w \in 0..Len(rest)
    BY <1>2
  <2>2. ASSUME NEW p, p = pipe \o SubSeq(rest, 1, w), NEW r, r = SubSeq(rest, w + 1, Len(rest))
        PROVE  /\ p \in Seq(S) /\ Len(p) = Len(pipe) + w /\ r \in Seq(S) /\ Len(r) = Len(rest) - w
               /\ \A i \in 1..Len(pipe) : p[i] = pipe[i]
               /\ \A j \in 1..w : p[Len(pipe) + j] = rest[j]
               /\ \A j \in 1..(Len(rest) - w) : r[j] = rest[w + j]
    <3>1. /\ w \in 0..Len(rest) /\ pipe \in Seq(S) /\ rest \in Seq(S)
          /\ p = pipe \o SubSeq(rest, 1, w) /\ r = SubSeq(rest, w + 1, Len(rest))
      BY ONLY <2>1, <2>2, <1>4
    <3> QED BY ONLY <3>1, MoveShape, SMTT(30)
  <2> QED BY ONLY <1>3, <2>2
<1>6. /\ Len(pipe') = Len(pipe) + w /\ Len(rest') = Len(rest) - w
      /\ Len(pipe) \in Nat /\ Len(rest) \in Nat /\ w \in 0..Len(rest)
  BY <1>1, <1>2, <1>5
<1>7. Total' = Total
  BY ONLY <1>6 DEF Total
<1>8. ASSUME NEW i \in 1..Total PROVE At(i)' = At(i)
  <2> DEFINE j == i - Len(pipe)
  <2>1. CASE i <= Len(pipe)
    <3>1. i \in 1..Len(pipe) /\ i <= Len(pipe')
      BY <1>6, <2>1 DEF Total
    <3> QED BY <1>5, <2>1, <3>1 DEF At
  <2>2. CASE ~ (i <= Len(pipe)) /\ i <= Len(pipe')
    <3>1. j \in 1..w /\ Len(pipe) + j = i
      BY <1>6, <2>2 DEF Total
    <3>2. pipe'[Len(pipe) + j] = rest[j]
      BY <1>5, <3>1
    <3> QED BY <2>2, <3>1, <3>2 DEF At
  <2>3. CASE ~ (i <= Len(pipe')) /\ ~ (i <= Len(pipe))
    <3>1. j - w \in 1..(Len(rest) - w) /\ w + (j - w) = j /\ i - Len(pipe') = j - w
      BY <1>6, <2>3 DEF Total
    <3>2. rest'[j - w] = rest[j]
      BY <1>5, <3>1
    <3> QED BY <2>3, <3>1, <3>2 DEF At
  <2> QED BY <1>6, <2>1, <2>2, <2>3
<1>9. BuffersOK' /\ Len(rest') <= Len(rest)
  <2>1. arrived' = arrived
    BY DEF Resume
  <2> QED BY <1>1, <1>2, <1>6, <2>1 DEF BuffersOK
<1>10. /\ pipe' \in Seq(Byte(Len(frames'))) /\ rest' \in Seq(Byte(Len(frames')))
       /\ UNCHANGED <<blocking, frames, partial, conn, delivered>>
  BY <1>5 DEF Resume, S
<1>11. TypeOK'
  BY <1>9, <1>10 DEF IInv, TypeOK, BuffersOK, Byte
<1> QED BY <1>7, <1>8, <1>9, <1>11

(* A blocked send() that goes on keeps the invariant.                      *)
LEMMA ResumeKeepsIInv ==
  ASSUME IInv, Resume
  PROVE  IInv'
<1>1. UNCHANGED <<blocking, frames, partial, conn, delivered>> /\ rest # <<>>
  BY DEF Resume
<1>2. Contiguous' /\ InOrder' /\ FramesOK' /\ HeaderSurvives'
  BY <1>1, ResumeShape, SameStream
<1>3. RestOK'
  <2>1. /\ blocking /\ partial = 0 /\ conn # "closed" /\ Len(frames) >= 1
        /\ Len(rest) <= Size(Len(frames)) /\ Len(rest') <= Len(rest)
    BY <1>1, ResumeShape DEF IInv, RestOK
  <2>2. Len(rest) \in Nat /\ Len(rest') \in Nat /\ Size(Len(frames)) \in Nat
    <3>1. TypeOK'
      BY ResumeShape
    <3>2. rest' \in Seq([frame : 1..Len(frames'), pos : Nat])
      BY <3>1 DEF TypeOK
    <3>3. Len(frames) \in Nat /\ Len(rest) \in Nat /\ \A k \in 1..Len(frames) : Size(k) \in Nat
      BY StreamType DEF IInv
    <3> QED BY <2>1, <3>2, <3>3
  <2>3. Size(Len(frames))' = Size(Len(frames))
    BY <1>1 DEF Size
  <2> QED BY <1>1, <2>1, <2>2, <2>3 DEF RestOK
<1> QED BY <1>2, <1>3, ResumeShape DEF IInv

(* The kernel moves bytes from one buffer to the other: the stream is the  *)
(* same.                                                                   *)
LEMMA ArriveKeepsIInv ==
  ASSUME IInv, NEW n \in 1..RecvCap, Arrive(n)
  PROVE  IInv'
<1>1. /\ UNCHANGED <<blocking, frames, rest, pipe, partial, conn, delivered>>
      /\ arrived' = arrived + n /\ arrived + n <= Len(pipe) /\ arrived + n <= RecvCap
  BY DEF Arrive
<1>2. Total' = Total /\ \A i \in 1..Total : At(i)' = At(i)
  BY <1>1 DEF Total, At
<1>3. Contiguous' /\ InOrder' /\ FramesOK' /\ HeaderSurvives'
  BY <1>1, <1>2, SameStream
<1>4. BuffersOK'
  <2>1. /\ SendCap \in Nat /\ RecvCap \in Nat /\ Len(pipe) \in Nat
        /\ arrived \in 0..RecvCap /\ Len(pipe) - arrived \in 0..SendCap
    BY StreamType DEF IInv, BuffersOK
  <2> QED BY <1>1, <2>1 DEF BuffersOK
<1>5. TypeOK' /\ RestOK'
  BY <1>1, <1>4 DEF IInv, TypeOK, BuffersOK, RestOK, Size
<1> QED BY <1>3, <1>5 DEF IInv

(* The sender ends: what a blocked send() had not written is never         *)
(* written, and its frame is the one cut short.                            *)
LEMMA GiveUpKeepsIInv ==
  ASSUME IInv, conn \in {"open", "closed"}, conn' \in {"closed", "reset"}, GiveUp
  PROVE  IInv'
<1> DEFINE n == Len(frames)
<1>1. /\ conn # "dropped" /\ conn' # "dropped" /\ rest' = <<>>
      /\ partial' = IF rest # <<>> /\ partial = 0 THEN n ELSE partial
      /\ UNCHANGED <<blocking, frames, pipe, arrived, delivered>>
  BY DEF GiveUp
<1>2. /\ n \in Nat /\ partial \in 0..n /\ pipe \in Seq(Byte(n)) /\ rest \in Seq(Byte(n))
      /\ Len(pipe) \in Nat /\ Len(rest) \in Nat
      /\ rest # <<>> => partial = 0 /\ n >= 1 /\ Len(rest) <= Size(n)
  BY StreamType DEF IInv, RestOK
<1>3. TypeOK'
  <2>1. partial' \in 0..n /\ conn' \in ConnState
    BY <1>1, <1>2 DEF ConnState
  <2>2. rest' \in Seq(Byte(n))
    BY <1>1
  <2> QED BY <1>1, <2>1, <2>2 DEF IInv, TypeOK, ConnState, Byte
<1>4. RestOK'
  BY <1>1 DEF RestOK
<1>5. Total' = Len(pipe) /\ \A i \in 1..Len(pipe) : At(i)' = At(i)
  BY <1>1, <1>2 DEF Total, At
<1>6. CASE rest = <<>>
  <2>1. Total = Len(pipe) /\ partial' = partial
    BY <1>1, <1>2, <1>6 DEF Total
  <2>2. Contiguous' /\ InOrder' /\ FramesOK' /\ HeaderSurvives'
    BY <1>1, <1>5, <2>1, SameStream
  <2> QED BY <1>3, <1>4, <2>2 DEF IInv
<1>7. CASE rest # <<>>
  <2>1. /\ partial = 0 /\ partial' = n /\ n \in Nat \ {0} /\ Whole = n /\ Whole' = n - 1
        /\ Done' = Done /\ Done \in Nat /\ Total \in Nat /\ Total = Len(pipe) + Len(rest)
    BY <1>1, <1>2, <1>7, StreamType DEF IInv, Whole, Done, Total
  <2>2. FramesOK' /\ HeaderSurvives' /\ \A k : Size(k)' = Size(k)
    BY <1>1 DEF IInv, FramesOK, HeaderSurvives, Intact, Size
  <2>3. Contiguous'
    <3>1. 1..Len(pipe) \subseteq 1..Total
      BY <1>2, <2>1
    <3>2. ASSUME NEW i \in 1..Len(pipe) PROVE (At(i).pos \in 1..Size(At(i).frame))'
      <4>1. Size(At(i).frame)' = Size(At(i).frame)
        BY <1>1, <1>5 DEF Size
      <4> QED BY <1>5, <3>1, <4>1 DEF IInv, Contiguous
    <3>3. ASSUME NEW i \in 1..Len(pipe), NEW j \in 1..Len(pipe), At(i)'.frame = At(j)'.frame
          PROVE  At(j)'.pos = At(i)'.pos + (j - i)
      BY <1>5, <3>1, <3>3 DEF IInv, Contiguous
    <3>4. (\A i \in 1..Total : At(i).pos \in 1..Size(At(i).frame))'
      BY <1>5, <3>2
    <3>5. (\A i, j \in 1..Total : At(i).frame = At(j).frame => At(j).pos = At(i).pos + (j - i))'
      BY <1>5, <3>3
    <3> QED BY <3>4, <3>5 DEF Contiguous
  <2>4. PICK off : Laid(off)
    BY <1>1 DEF IInv, InOrder
  <2> DEFINE d == Done
  <2>5. /\ off \in [Nat -> Int] /\ d \in Nat /\ d <= n /\ off[d + 1] = 0
        /\ Total = off[n + 1] /\ (d + 1 <= n => off[n + 1] = off[n] + Size(n))
        /\ \A k, l \in (d + 1)..(n + 1) : k < l => off[k] + Size(k) <= off[l]
    <3>1. /\ off \in [Nat -> Int] /\ d \in Nat /\ d <= n /\ off[d + 1] = 0 /\ Total = off[n + 1]
      BY <2>1, <2>4 DEF Laid
    <3>2. \A k, l \in (d + 1)..(n + 1) : k < l => off[k] + Size(k) <= off[l]
      BY <2>1, <2>4 DEF Laid
    <3>3. \A k \in (d + 1)..n : off[k + 1] = off[k] + Size(k)
      BY <2>1, <2>4 DEF Laid
    <3>4. d + 1 <= n => n \in (d + 1)..n
      BY <2>1, <3>1
    <3> QED BY <3>1, <3>2, <3>3, <3>4
  <2> HIDE DEF d
  <2>6. ASSUME NEW k \in (d + 1)..(n - 1)
        PROVE  /\ k \in (Done + 1)..Whole /\ off[k] + Size(k) <= Len(pipe)
               /\ \A j \in 1..Size(k) : At(off[k] + j)' = [frame |-> k, pos |-> j]
    <3>1. k \in (Done + 1)..Whole /\ n \in (Done + 1)..Whole
      BY <2>1, <2>5, SMTT(30) DEF d
    <3>2. /\ off[k] \in Nat /\ off[n] \in Nat /\ k \in 1..n
          /\ \A j \in 1..Size(k) : At(off[k] + j) = [frame |-> k, pos |-> j]
      BY <2>4, <3>1, LaidInStream DEF Laid
    <3>3. Size(k) \in Nat /\ Size(n) \in Nat
      <4>1. k \in 1..Len(frames) /\ n \in 1..Len(frames)
        BY <1>2, <2>1, <3>2
      <4>2. \A l \in 1..Len(frames) : Size(l) \in Nat
        BY StreamType DEF IInv
      <4> QED BY <4>1, <4>2
    <3>4. off[k] + Size(k) <= off[n]
      <4>1. d \in Nat /\ n \in Nat /\ k \in (d + 1)..(n - 1)
        BY <2>1, <2>5
      <4>2. n \in (d + 1)..(n + 1) /\ k \in (d + 1)..(n + 1) /\ k < n
        BY ONLY <4>1
      <4> QED BY <2>5, <4>2
    <3>5. off[n] <= Len(pipe)
      <4>1. d + 1 <= n
        BY <2>1, <2>5
      <4>2. off[n] + Size(n) = Len(pipe) + Len(rest) /\ Len(rest) <= Size(n)
        BY <1>2, <1>7, <2>1, <2>5, <4>1
      <4> QED BY <1>2, <3>2, <3>3, <4>2
    <3>6. ASSUME NEW j \in 1..Size(k) PROVE At(off[k] + j)' = [frame |-> k, pos |-> j]
      <4>1. off[k] + j \in 1..Len(pipe)
        BY <1>2, <3>2, <3>3, <3>4, <3>5, SMTT(30)
      <4> QED BY <1>5, <3>2, <4>1
    <3> QED BY <1>2, <3>1, <3>2, <3>3, <3>4, <3>5, <3>6, SMTT(30)
  <2>7. Laid(off)'
    <3>1. d <= n - 1 => off[d + 1] = 0
      BY <2>5
    <3>2. \A k, l \in (d + 1)..n : k < l => off[k] + Size(k) <= off[l]
      <4>1. (d + 1)..n \subseteq (d + 1)..(n + 1)
        BY <2>1, <2>5
      <4> QED BY <2>5, <4>1
    <3>3. \A k \in (d + 1)..(n - 1) : off[k + 1] = off[k] + Size(k)
      BY <2>4, <2>6 DEF Laid
    <3>4. n - 1 + 1 = n /\ partial' # 0 /\ Done' = d
      BY <2>1 DEF d
    <3> QED BY <1>5, <2>1, <2>2, <2>5, <2>6, <3>1, <3>2, <3>3, <3>4 DEF Laid
  <2> QED BY <1>3, <1>4, <2>2, <2>3, <2>7 DEF IInv, InOrder
<1> QED BY <1>6, <1>7

-----------------------------------------------------------------------------
(* nextMsg().                                                              *)

(* Whatever the first bytes are read as has the fields of a message.       *)
LEMMA HeadersType ==
  ASSUME IInv, Len(pipe) >= HdrLen, NEW h \in Headers
  PROVE  /\ h.tag \in Int /\ h.port \in 0..(Short - 1) /\ h.length \in Int
         /\ Aligned => /\ pipe[1].frame \in 1..Len(frames)
                       /\ h = UnpackHdr(frames[pipe[1].frame].hdr)
<1>1. /\ pipe \in Seq(Byte(Len(frames))) /\ HdrLen \in Nat \ {0} /\ MaxDataLen \in Nat
      /\ frames \in Seq(FrameType) /\ Len(frames) \in Nat
  BY StreamType, TypeParts DEF IInv
<1>2. CASE Aligned
  <2> DEFINE k == pipe[1].frame
  <2>1. pipe[1] \in Byte(Len(frames))
    <3>1. Len(pipe) \in Nat /\ 1 \in 1..Len(pipe)
      BY <1>1
    <3> QED BY <1>1, <3>1, ElementOfSeq
  <2>2. k \in 1..Len(frames)
    BY <2>1 DEF Byte
  <2> DEFINE q == frames[k].hdr
  <2>3. q \in [code : 0..(Short - 1), port : 0..(Short - 1), length : 0..(Long - 1)]
    <3>1. frames[k] \in FrameType
      BY <1>1, <2>2, ElementOfSeq
    <3> QED BY <3>1 DEF FrameType
  <2>4. h = UnpackHdr(q)
    BY <1>2 DEF Headers
  <2> HIDE DEF q
  <2>5. /\ Swap16(q.code) \in 0..(Short - 1) /\ Swap16(q.port) \in 0..(Short - 1)
        /\ Swap32(q.length) \in 0..(Long - 1)
    BY <2>3, SwapShort, SwapLong
  <2>6. Signed(Swap16(q.code), Short) \in Int /\ Signed(Swap32(q.length), Long) \in Int
    <3>1. Short \in Nat \ {0} /\ Long \in Nat \ {0}
      BY Sizes
    <3> QED BY <2>5, <3>1, SignedKeepsBits
  <2> QED BY <2>2, <2>4, <2>5, <2>6 DEF UnpackHdr, q
<1>3. CASE ~ Aligned
  <2>1. h \in Anything
    BY <1>3 DEF Headers
  <2> QED BY <1>1, <1>3, <2>1, Sizes DEF Anything
<1> QED BY <1>2, <1>3

(* Where a message came from: recv() reports numbers, whatever the header  *)
(* says, and with the port of the sender in the header connecting to what  *)
(* it reports means the sender.                                            *)
LEMMA ReplyReaches ==
  ASSUME NEW h, NEW n, h.port \in 0..(Short - 1)
  PROVE  /\ Read(h, n).ip \in Int /\ Read(h, n).port \in Int
         /\ h.port = stcp_getLocalPort(Sender) =>
              sockaddr_set(sockaddr_int2ip(Read(h, n).ip), Read(h, n).port) = Sender
<1> DEFINE a == Sender.addr
           p == Sender.port
           z == Swap32(a)
<1>1. a \in 0..(Long - 1) /\ p \in 0..(Short - 1) /\ Sender = [addr |-> a, port |-> p]
  BY InputsAssumption
<1> HIDE DEF a, p
<1>2. z \in 0..(Long - 1) /\ Swap32(z) = a
  BY <1>1, SwapLong
<1>3. Signed(z, Long) \in Int /\ Signed(z, Long) % Long = z
  BY <1>2, SignedKeepsBits, Sizes
<1>4. Swap16(h.port) \in 0..(Short - 1) /\ Swap16(Swap16(h.port)) = h.port
  BY SwapShort
<1>5. Read(h, n).ip = Signed(z, Long)
  <2>1. stcp_getIP(Sender) = Signed(z, Long)
    BY <1>1 DEF stcp_getIP, sockaddr_getIP, z
  <2>2. Swap32(stcp_getIP(Sender) % Long) = a
    BY <1>2, <1>3, <2>1
  <2>3. Read(h, n).ip = Signed(Swap32(Swap32(stcp_getIP(Sender) % Long)), Long)
    BY DEF Read, sockaddr_getIP
  <2> QED BY <2>2, <2>3 DEF z
<1>6. Read(h, n).port = h.port
  BY <1>4 DEF Read, sockaddr_getPort
<1>7. ASSUME h.port = stcp_getLocalPort(Sender)
      PROVE  sockaddr_set(sockaddr_int2ip(Read(h, n).ip), Read(h, n).port) = Sender
  <2>1. inet_aton(sockaddr_int2ip(Signed(z, Long))) = a
    BY <1>1, AddressRoundTrip DEF z
  <2>2. h.port = Swap16(p) /\ Swap16(Swap16(p)) = p
    BY <1>1, <1>7, SwapShort DEF stcp_getLocalPort, sockaddr_getPort
  <2> QED BY <1>1, <1>5, <1>6, <2>1, <2>2 DEF sockaddr_set
<1> QED BY <1>3, <1>5, <1>6, <1>7

(* The header of a frame, once read, is the one packhdr() wrote.           *)
LEMMA FrameHeader ==
  ASSUME IInv, NEW k \in 1..Len(frames)
  PROVE  LET h == UnpackHdr(frames[k].hdr) IN
         /\ h.port = stcp_getLocalPort(Sender) /\ h.length = frames[k].len
         /\ frames[k].tag \in (-(Short \div 2))..(Short \div 2 - 1) => h.tag = frames[k].tag
<1>1. frames[k] \in FrameType
  BY TypeParts, ElementOfSeq DEF IInv
<1>2. frames[k].tag \in Int
  BY <1>1, InputsAssumption DEF FrameType
<1>3. frames[k].len \in 0..(Long \div 2 - 1)
  BY SizesAssumption, Sizes DEF IInv, FramesOK
<1>4. frames[k].hdr = PackHdr(frames[k].tag, stcp_getLocalPort(Sender), frames[k].len)
  BY DEF IInv, FramesOK
<1>5. \A t \in Int : \A p \in 0..(Short - 1) : \A l \in 0..(Long \div 2 - 1) :
        /\ UnpackHdr(PackHdr(t, p, l)).port = p /\ UnpackHdr(PackHdr(t, p, l)).length = l
        /\ t \in (-(Short \div 2))..(Short \div 2 - 1) => UnpackHdr(PackHdr(t, p, l)).tag = t
  <2> SUFFICES ASSUME NEW t \in Int, NEW p \in 0..(Short - 1), NEW l \in 0..(Long \div 2 - 1)
               PROVE  /\ UnpackHdr(PackHdr(t, p, l)).port = p
                      /\ UnpackHdr(PackHdr(t, p, l)).length = l
                      /\ t \in (-(Short \div 2))..(Short \div 2 - 1) =>
                           UnpackHdr(PackHdr(t, p, l)).tag = t
    OBVIOUS
  <2>1. Short \in Nat /\ Long \in Nat
    BY Sizes
  <2>2. /\ UnpackHdr(PackHdr(t, p, l)).port = p
        /\ UnpackHdr(PackHdr(t, p, l)).length = l
    BY <2>1, HeaderRoundTrip
  <2>3. t \in (-(Short \div 2))..(Short \div 2 - 1) => UnpackHdr(PackHdr(t, p, l)).tag = t
    BY <2>1, HeaderRoundTrip
  <2> QED BY <2>2, <2>3
<1> QED BY ONLY <1>2, <1>3, <1>4, <1>5, PortType

(* As long as a whole frame is still to be handed up, the next one is in   *)
(* front, so its header is what is read.                                   *)
LEMMA FrontIsNext ==
  ASSUME IInv, conn # "dropped", Done < Whole, Len(pipe) >= HdrLen, NEW h \in Headers
  PROVE  /\ Done + 1 \in 1..Len(frames) /\ h.length = frames[Done + 1].len
         /\ HdrLen + h.length = Size(Done + 1)
         /\ Aligned
<1> DEFINE d == Done + 1
<1>1. PICK off : Laid(off)
  BY DEF IInv, InOrder
<1>2. /\ Done \in Nat /\ Whole \in 0..Len(frames) /\ Len(frames) \in Nat /\ HdrLen \in Nat \ {0}
      /\ Len(pipe) \in Nat
  BY StreamType DEF IInv
<1>3. d \in (Done + 1)..Whole /\ d \in 1..Len(frames)
  BY <1>2
<1>4. off[d] = 0 /\ \A j \in 1..Size(d) : At(off[d] + j) = [frame |-> d, pos |-> j]
  BY <1>1, <1>2, <1>3 DEF Laid
<1>5. frames[d].len \in Nat /\ Size(d) = HdrLen + frames[d].len
  <2>1. MaxDataLen \in Nat
    BY SizesAssumption
  <2> QED BY <1>3, <2>1 DEF IInv, FramesOK, Size
<1> HIDE DEF d
<1>6. ASSUME NEW i \in 1..HdrLen PROVE pipe[i] = [frame |-> d, pos |-> i]
  <2>1. i \in 1..Size(d) /\ i <= Len(pipe) /\ 0 + i = i
    BY <1>2, <1>5
  <2>2. At(i) = [frame |-> d, pos |-> i]
    BY <1>4, <2>1
  <2> QED BY <2>1, <2>2 DEF At
<1>7. Aligned /\ pipe[1].frame = d
  <2>1. 1 \in 1..HdrLen
    BY <1>2
  <2>2. pipe[1] = [frame |-> d, pos |-> 1]
    BY <1>6, <2>1
  <2> QED BY <1>6, <2>2 DEF Aligned
<1>8. h = UnpackHdr(frames[d].hdr)
  BY <1>7 DEF Headers
<1>9. h.length = frames[d].len
  BY <1>3, <1>8, FrameHeader
<1> QED BY <1>3, <1>5, <1>7, <1>9 DEF d

(* Reading takes the first m bytes out of the pipe; the others move up.    *)
LEMMA TakeShape ==
  ASSUME IInv, NEW m \in 0..Len(pipe), pipe' = SubSeq(pipe, m + 1, Len(pipe)),
         UNCHANGED <<frames, rest>>
  PROVE  /\ pipe' \in Seq(Byte(Len(frames))) /\ Len(pipe') = Len(pipe) - m
         /\ Total' = Total - m /\ \A i \in 1..(Total - m) : At(i)' = At(i + m)
         /\ Contiguous'
<1>1. /\ pipe \in Seq(Byte(Len(frames))) /\ Len(pipe) \in Nat /\ Len(rest) \in Nat
      /\ Total \in Nat
      /\ \A i \in 1..Total : At(i) \in Byte(Len(frames))
  BY StreamType DEF IInv
<1>2. /\ pipe' \in Seq(Byte(Len(frames))) /\ Len(pipe') = Len(pipe) - m
      /\ \A i \in 1..(Len(pipe) - m) : pipe'[i] = pipe[m + i]
  BY <1>1, CutShape
<1>3. Total' = Total - m
  BY <1>1, <1>2 DEF Total
<1>4. ASSUME NEW i \in 1..(Total - m) PROVE At(i)' = At(i + m) /\ i + m \in 1..Total
  <2>1. i + m \in 1..Total
    BY <1>1
  <2>2. CASE i <= Len(pipe')
    <3>1. i \in 1..(Len(pipe) - m) /\ i + m <= Len(pipe) /\ m + i = i + m
      BY <1>1, <1>2, <2>2
    <3> QED BY <1>2, <2>1, <2>2, <3>1 DEF At
  <2>3. CASE ~ (i <= Len(pipe'))
    <3>0. /\ Len(pipe') = Len(pipe) - m /\ Len(pipe) \in Nat /\ m \in Nat /\ i \in Nat
          /\ ~ (i <= Len(pipe'))
      BY <1>1, <1>2, <2>3
    <3>1. ~ (i + m <= Len(pipe)) /\ i - Len(pipe') = i + m - Len(pipe)
      BY ONLY <3>0
    <3> QED BY <2>1, <2>3, <3>1 DEF At
  <2> QED BY <2>2, <2>3
<1>5. Contiguous'
  <2>1. ASSUME NEW i \in 1..(Total - m) PROVE (At(i).pos \in 1..Size(At(i).frame))'
    <3>1. Size(At(i).frame)' = Size(At(i + m).frame)
      BY <1>4 DEF Size
    <3> QED BY <1>4, <3>1 DEF IInv, Contiguous
  <2>2. ASSUME NEW i \in 1..(Total - m), NEW j \in 1..(Total - m), At(i)'.frame = At(j)'.frame
        PROVE  At(j)'.pos = At(i)'.pos + (j - i)
    <3>1. PICK k \in 1..Total, l \in 1..Total : k = i + m /\ l = j + m
      BY <1>4
    <3>2. At(l).pos = At(k).pos + (l - k)
      BY <1>4, <2>2, <3>1 DEF IInv, Contiguous
    <3>3. l - k = j - i
      BY <1>1, <3>1
    <3> QED BY <1>4, <3>1, <3>2, <3>3
  <2>3. (\A i \in 1..Total : At(i).pos \in 1..Size(At(i).frame))'
    BY <1>3, <2>1
  <2>4. (\A i, j \in 1..Total : At(i).frame = At(j).frame => At(j).pos = At(i).pos + (j - i))'
    BY <1>3, <2>2
  <2> QED BY <2>3, <2>4 DEF Contiguous
<1> QED BY <1>2, <1>3, <1>4, <1>5

(* What is peeked at is in the pipe.                                       *)
LEMMA PeekedIsThere ==
  ASSUME IInv, Here >= HdrLen
  PROVE  Len(pipe) >= HdrLen
<1>1. arrived \in 0..Len(pipe) /\ Len(pipe) \in Nat /\ HdrLen \in Nat
  BY StreamType DEF IInv
<1> QED BY <1>1 DEF Here

(* What a message that is handed up is made of, and that the earlier ones  *)
(* stay as they are.                                                       *)
LEMMA ExtractShape ==
  ASSUME IInv, conn # "dropped", Len(pipe) >= HdrLen, NEW h \in Headers, Extract(h)
  PROVE  LET m == HdrLen + h.length IN
         /\ m \in 1..Len(pipe) /\ h.length \in 0..MaxDataLen
         /\ pipe' = SubSeq(pipe, m + 1, Len(pipe))
         /\ m <= arrived /\ arrived' = arrived - m
         /\ delivered' \in Seq(Handed(Len(frames))) /\ Done' = Done + 1
         /\ \A i \in 1..Done : delivered'[i] = delivered[i]
         /\ delivered'[Done + 1] = Read(h, m)
         /\ Read(h, m).tag = h.tag /\ Read(h, m).len = h.length
         /\ Read(h, m).of = {At(i).frame : i \in 1..m}
<1> DEFINE m == HdrLen + h.length
           d == Read(h, m)
<1>1. /\ HdrLen \in Nat \ {0} /\ MaxDataLen \in Nat /\ Len(pipe) \in Nat
      /\ pipe \in Seq(Byte(Len(frames))) /\ delivered \in Seq(Handed(Len(frames)))
      /\ arrived \in 0..Len(pipe)
  BY StreamType, TypeParts DEF IInv
<1>2. /\ h.length \in 0..MaxDataLen /\ arrived >= m /\ arrived' = arrived - m
      /\ pipe' = SubSeq(pipe, m + 1, Len(pipe)) /\ delivered' = Append(delivered, d)
  BY DEF Extract, Here
<1>3. m \in 1..Len(pipe)
  BY <1>1, <1>2, SMTT(30)
<1>4. /\ d.tag = h.tag /\ d.len = h.length /\ d.of = {pipe[i].frame : i \in 1..m}
      /\ d = [tag |-> d.tag, len |-> d.len, of |-> d.of, ip |-> d.ip, port |-> d.port]
  BY DEF Read
<1>5. d.of = {At(i).frame : i \in 1..m}
  <2>1. \A i \in 1..m : At(i) = pipe[i]
    BY <1>1, <1>3 DEF At
  <2> QED BY <1>4, <2>1
<1>6. d \in Handed(Len(frames))
  <2>1. h.tag \in Int /\ h.port \in 0..(Short - 1)
    BY HeadersType
  <2>2. d.ip \in Int /\ d.port \in Int
    BY <2>1, ReplyReaches
  <2>3. ASSUME NEW i \in 1..m PROVE pipe[i].frame \in 1..Len(frames)
    <3>1. i \in 1..Len(pipe)
      BY <1>1, <1>3
    <3>2. pipe[i] \in Byte(Len(frames))
      BY <1>1, <3>1, ElementOfSeq
    <3> QED BY <3>2 DEF Byte
  <2>4. d.of \subseteq 1..Len(frames)
    BY <1>4, <2>3
  <2> HIDE DEF d
  <2> QED BY <1>2, <1>4, <2>1, <2>2, <2>4 DEF Handed
<1> HIDE DEF d
<1>7. /\ delivered' \in Seq(Handed(Len(frames))) /\ Len(delivered') = Len(delivered) + 1
      /\ \A i \in 1..Len(delivered) : delivered'[i] = delivered[i]
      /\ delivered'[Len(delivered) + 1] = d
  <2>1. delivered \in Seq(Handed(Len(frames)))
    BY <1>1
  <2> QED BY <1>2, <1>6, <2>1
<1> QED BY <1>2, <1>3, <1>4, <1>5, <1>7 DEF Done, d

(* Bytes that are all of one frame, and as many as that frame has, are the *)
(* frame from its first byte on: they cannot be a piece from inside it.    *)
LEMMA OneFrame ==
  ASSUME IInv, NEW k \in 1..Len(frames), Size(k) <= Len(pipe),
         \A i \in 1..Size(k) : At(i).frame = k
  PROVE  Aligned /\ pipe[1].frame = k
<1> DEFINE m == Size(k)
<1>1. /\ HdrLen \in Nat \ {0} /\ m \in Nat \ {0} /\ HdrLen <= m
      /\ Len(pipe) \in Nat /\ Total \in Nat /\ Len(pipe) <= Total
      /\ pipe \in Seq(Byte(Len(frames)))
  <2>1. /\ HdrLen \in Nat \ {0} /\ m \in Nat \ {0} /\ pipe \in Seq(Byte(Len(frames)))
        /\ Len(pipe) \in Nat /\ Len(rest) \in Nat /\ MaxDataLen \in Nat
    BY StreamType DEF IInv
  <2>2. frames[k].len \in Nat
    BY <2>1 DEF IInv, FramesOK
  <2> QED BY <2>1, <2>2 DEF Total, Size
<1>2. \A i \in 1..m : At(i).frame = k /\ i \in 1..Total
  BY <1>1
<1> HIDE DEF m
<1>3. At(1).pos \in 1..m /\ At(m).pos \in 1..m /\ At(m).pos = At(1).pos + (m - 1)
  <2>1. 1 \in 1..m /\ m \in 1..m
    BY <1>1
  <2> QED BY <1>2, <2>1 DEF IInv, Contiguous, m
<1>4. At(1).pos = 1
  BY <1>1, <1>3
<1>5. ASSUME NEW i \in 1..HdrLen PROVE pipe[i] = [frame |-> k, pos |-> i]
  <2>1. i \in 1..m /\ 1 \in 1..m /\ i \in 1..Len(pipe) /\ 1 + (i - 1) = i
    BY <1>1 DEF m
  <2>2. At(i).pos = At(1).pos + (i - 1)
    BY <1>2, <2>1 DEF IInv, Contiguous
  <2>3. At(i) = pipe[i] /\ pipe[i] \in Byte(Len(frames))
    BY <1>1, <2>1, ElementOfSeq DEF At
  <2> QED BY <1>2, <1>4, <2>1, <2>2, <2>3 DEF Byte
<1>6. pipe[1].frame = k
  <2>1. 1 \in 1..HdrLen
    BY <1>1
  <2>2. pipe[1] = [frame |-> k, pos |-> 1]
    BY <1>5, <2>1
  <2> QED BY <2>2
<1> QED BY <1>5, <1>6 DEF Aligned

(* A message made of one whole frame has that frame's header.              *)
LEMMA ExtractKeepsHeaders ==
  ASSUME IInv, conn # "dropped", Len(pipe) >= HdrLen, NEW h \in Headers, Extract(h),
         UNCHANGED frames
  PROVE  HeaderSurvives'
<1> DEFINE m == HdrLen + h.length
           d == Read(h, m)
<1>1. /\ m \in 1..Len(pipe) /\ Done' = Done + 1 /\ Done \in Nat /\ Len(pipe) \in Nat
      /\ \A i \in 1..Done : delivered'[i] = delivered[i]
      /\ delivered'[Done + 1] = d
      /\ d.tag = h.tag /\ d.len = h.length /\ d.of = {At(i).frame : i \in 1..m}
  <2>1. Done \in Nat /\ Len(pipe) \in Nat
    BY StreamType DEF IInv
  <2> QED BY <2>1, ExtractShape
<1> HIDE DEF d, m
<1>2. ASSUME NEW k \in 1..Len(frames), d.of = {k}, d.len = frames[k].len
      PROVE  /\ frames[k].tag \in (-(Short \div 2))..(Short \div 2 - 1) => d.tag = frames[k].tag
             /\ sockaddr_set(sockaddr_int2ip(d.ip), d.port) = Sender
  <2>1. m = Size(k) /\ Size(k) <= Len(pipe)
    BY <1>1, <1>2 DEF Size, m
  <2>2. \A i \in 1..Size(k) : At(i).frame = k
    <3>1. ASSUME NEW i \in 1..m PROVE At(i).frame = k
      <4>1. At(i).frame \in d.of
        BY <1>1
      <4> QED BY <1>2, <4>1
    <3> QED BY <2>1, <3>1
  <2>3. Aligned /\ pipe[1].frame = k
    BY <2>1, <2>2, OneFrame
  <2>4. h = UnpackHdr(frames[k].hdr)
    BY <2>3 DEF Headers
  <2>5. /\ h.port = stcp_getLocalPort(Sender) /\ h.port \in 0..(Short - 1)
        /\ frames[k].tag \in (-(Short \div 2))..(Short \div 2 - 1) => h.tag = frames[k].tag
    BY <2>4, FrameHeader, PortType
  <2>6. sockaddr_set(sockaddr_int2ip(d.ip), d.port) = Sender
    BY <2>5, ReplyReaches DEF d
  <2> QED BY <1>1, <2>5, <2>6
<1>3. ASSUME NEW i \in 1..(Done + 1), NEW k \in 1..Len(frames), Intact(delivered[i], k)'
      PROVE  /\ frames[k].tag \in (-(Short \div 2))..(Short \div 2 - 1) =>
                  delivered'[i].tag = frames[k].tag
             /\ sockaddr_set(sockaddr_int2ip(delivered'[i].ip), delivered'[i].port) = Sender
  <2>1. CASE i \in 1..Done
    <3>1. Intact(delivered[i], k) /\ delivered'[i] = delivered[i]
      BY <1>1, <1>3, <2>1 DEF Intact
    <3> QED BY <2>1, <3>1 DEF IInv, HeaderSurvives, Done
  <2>2. CASE i = Done + 1
    BY <1>1, <1>2, <1>3, <2>2 DEF Intact
  <2> QED BY <1>1, <2>1, <2>2
<1> QED BY <1>1, <1>3 DEF HeaderSurvives, Done

(* As long as a whole frame is to be handed up, that is what is taken out; *)
(* if none is, some frame was cut short.                                   *)
LEMMA ExtractKeepsOrder ==
  ASSUME IInv, conn # "dropped", Len(pipe) >= HdrLen, NEW h \in Headers, Extract(h),
         UNCHANGED <<frames, rest, partial>>
  PROVE  /\ InOrder'
         /\ Done >= Whole => partial # 0
<1> DEFINE m == HdrLen + h.length
           d == Done
           w == Whole
<1>1. /\ m \in 1..Len(pipe) /\ Done' = d + 1
      /\ Total' = Total - m /\ \A i \in 1..(Total - m) : At(i)' = At(i + m)
  <2>1. m \in 1..Len(pipe) /\ Done' = d + 1 /\ pipe' = SubSeq(pipe, m + 1, Len(pipe))
    BY ExtractShape
  <2>2. m \in 0..Len(pipe)
    BY <2>1
  <2> QED BY <2>1, <2>2, TakeShape
<1>2. /\ d \in Nat /\ w \in 0..Len(frames) /\ Len(frames) \in Nat
      /\ Len(pipe) \in Nat /\ Len(rest) \in Nat /\ Total \in Nat
      /\ Total = Len(pipe) + Len(rest)
      /\ \A k \in 1..Len(frames) : Size(k) \in Nat \ {0}
  BY StreamType DEF IInv, Total
<1>3. Whole' = w /\ \A k : Size(k)' = Size(k)
  BY DEF Whole, Size
<1>4. PICK off : Laid(off)
  BY DEF IInv, InOrder
<1>5. /\ off \in [Nat -> Int]
      /\ d <= w => off[d + 1] = 0
      /\ \A k, l \in (d + 1)..(w + 1) : k < l => off[k] + Size(k) <= off[l]
      /\ \A k \in (d + 1)..w :
           /\ off[k + 1] = off[k] + Size(k)
           /\ off[k] + Size(k) <= Total
           /\ \A j \in 1..Size(k) : At(off[k] + j) = [frame |-> k, pos |-> j]
      /\ partial = 0 => d <= w /\ Total = off[w + 1]
  BY <1>4 DEF Laid
<1>6. d >= w => partial # 0
  <2>1. SUFFICES ASSUME d >= w, partial = 0 PROVE FALSE
    OBVIOUS
  <2>2. d = w /\ Total = 0
    BY <1>2, <1>5, <2>1, SMTT(30)
  <2> QED BY <1>1, <1>2, <2>2
<1>7. ASSUME d >= w PROVE InOrder'
  <2>1. partial' # 0 /\ Done' > Whole' /\ Done' \in Nat /\ Whole' \in Nat
    BY <1>1, <1>2, <1>3, <1>6, <1>7
  <2>2. /\ (Done' + 1)..(Whole' + 1) = {} /\ (Done' + 1)..Whole' = {}
        /\ ~ (Done' <= Whole')
    <3>1. \A a, b \in Nat : a > b => (a + 1)..(b + 1) = {} /\ (a + 1)..b = {} /\ ~ (a <= b)
      OBVIOUS
    <3> QED BY ONLY <2>1, <3>1
  <2>3. Laid(off)'
    BY <1>5, <2>1, <2>2 DEF Laid
  <2> QED BY <2>3 DEF InOrder
<1>8. ASSUME d < w PROVE InOrder'
  <2>1. m = Size(d + 1) /\ d + 1 \in (d + 1)..w /\ d + 2 \in (d + 1)..(w + 1)
    <3>1. d \in Nat /\ w \in Nat /\ d < w
      BY <1>2, <1>8
    <3>2. d + 1 \in (d + 1)..w /\ d + 2 \in (d + 1)..(w + 1)
      BY ONLY <3>1
    <3> QED BY <1>2, <1>8, <3>2, FrontIsNext
  <2>2. off[d + 1] = 0 /\ off[d + 2] = m
    <3>1. off[d + 1] = 0
      BY <1>5, <1>8, <1>2
    <3>2. off[d + 1 + 1] = off[d + 1] + Size(d + 1)
      BY <1>5, <2>1
    <3>3. d + 1 + 1 = d + 2 /\ m \in Int
      BY <1>1, <1>2
    <3> QED BY <2>1, <3>1, <3>2, <3>3
  <2>3. PICK new \in [Nat -> Int] : \A k \in Nat : new[k] = off[k] - m
    <3> DEFINE f == [k \in Nat |-> off[k] - m]
    <3>1. f \in [Nat -> Int] /\ \A k \in Nat : f[k] = off[k] - m
      <4>1. off \in [Nat -> Int] /\ m \in Int
        BY <1>1, <1>2, <1>5
      <4> HIDE DEF m
      <4> QED BY ONLY <4>1
    <3> HIDE DEF f
    <3> QED BY <3>1
  <2> HIDE DEF m, d, w
  <2>4. m \in Nat /\ m <= Total
    BY <1>1, <1>2
  <2>5. new[d + 2] = 0
    BY <1>2, <2>2, <2>3, <2>4, SMTT(30)
  <2>6. \A k, l \in (d + 2)..(w + 1) : k < l => new[k] + Size(k) <= new[l]
    <3> SUFFICES ASSUME NEW k \in (d + 2)..(w + 1), NEW l \in (d + 2)..(w + 1), k < l
                 PROVE  new[k] + Size(k) <= new[l]
      OBVIOUS
    <3>1. k \in (d + 1)..(w + 1) /\ l \in (d + 1)..(w + 1) /\ k \in 1..Len(frames) /\ l \in Nat
      BY <1>2
    <3>2. off[k] + Size(k) <= off[l]
      BY <1>5, <3>1 DEF d, w
    <3>3. off[k] \in Int /\ off[l] \in Int /\ Size(k) \in Nat
      BY <1>2, <1>5, <3>1
    <3>4. new[k] = off[k] - m /\ new[l] = off[l] - m
      BY <2>3, <3>1
    <3>5. m \in Int
      BY <2>4
    <3> QED BY ONLY <3>2, <3>3, <3>4, <3>5
  <2>7. ASSUME NEW k \in (d + 2)..w
        PROVE  /\ new[k + 1] = new[k] + Size(k)
               /\ new[k] + Size(k) <= Total - m
               /\ \A j \in 1..Size(k) : At(new[k] + j)' = [frame |-> k, pos |-> j]
    <3>1. /\ k \in (d + 1)..w /\ k \in 1..Len(frames) /\ k + 1 \in Nat
          /\ k \in (d + 1)..(w + 1) /\ d + 2 \in (d + 1)..(w + 1) /\ d + 2 <= k
      BY <1>2, <2>1 DEF d, w
    <3>2. /\ off[k] \in Int /\ Size(k) \in Nat \ {0}
          /\ off[k + 1] = off[k] + Size(k) /\ off[k] + Size(k) <= Total
          /\ \A j \in 1..Size(k) : At(off[k] + j) = [frame |-> k, pos |-> j]
      BY <1>2, <1>5, <3>1 DEF d, w
    <3>3. new[k] = off[k] - m /\ new[k + 1] = off[k + 1] - m
      BY <2>3, <3>1
    <3>4. off[k] >= m
      <4>1. CASE k = d + 2
        BY <2>2, <2>4, <4>1
      <4>2. CASE d + 2 < k
        <5>1. off[d + 2] + Size(d + 2) <= off[k]
          BY <1>5, <3>1, <4>2 DEF d, w
        <5>2. d + 2 \in 1..Len(frames)
          BY <1>2, <3>1, <4>2
        <5>3. Size(d + 2) \in Nat
          BY <1>2, <5>2
        <5> QED BY <2>2, <2>4, <3>2, <5>1, <5>3, SMTT(30)
      <4> QED BY <1>2, <3>1, <4>1, <4>2
    <3>5. ASSUME NEW j \in 1..Size(k) PROVE At(new[k] + j)' = [frame |-> k, pos |-> j]
      <4>1. PICK i : i = new[k] + j
        OBVIOUS
      <4>2. i \in 1..(Total - m) /\ i + m = off[k] + j
        <5>1. /\ off[k] \in Int /\ Size(k) \in Nat /\ new[k] = off[k] - m /\ off[k] >= m
              /\ off[k] + Size(k) <= Total /\ Total \in Nat /\ m \in Nat /\ j \in 1..Size(k)
          BY <1>2, <2>4, <3>2, <3>3, <3>4
        <5> QED BY ONLY <4>1, <5>1
      <4>3. At(i)' = At(i + m)
        BY <1>1, <4>2 DEF m
      <4> QED BY <3>2, <4>1, <4>2, <4>3
    <3>6. /\ off[k] \in Int /\ Size(k) \in Nat /\ new[k] = off[k] - m
          /\ new[k + 1] = off[k + 1] - m /\ off[k + 1] = off[k] + Size(k)
          /\ off[k] + Size(k) <= Total /\ Total \in Nat /\ m \in Nat
      BY <1>2, <2>4, <3>2, <3>3
    <3>7. new[k + 1] = new[k] + Size(k) /\ new[k] + Size(k) <= Total - m
      BY ONLY <3>6
    <3> QED BY <3>5, <3>7
  <2>8. partial = 0 => Total - m = new[w + 1]
    BY <1>2, <1>5, <2>3 DEF w, d
  <2>9. d + 1 <= w /\ (d + 1) + 1 = d + 2
    BY <1>2, <1>8 DEF d, w
  <2>10. Done' = d + 1 /\ Whole' = w /\ Total' = Total - m
    BY <1>1, <1>3 DEF d, w, m
  <2>11. Laid(new)'
    BY <1>3, <2>3, <2>5, <2>6, <2>7, <2>8, <2>9, <2>10 DEF Laid
  <2> QED BY <2>11 DEF InOrder
<1> QED BY <1>2, <1>6, <1>7, <1>8

(* nextMsg() keeps the invariant when it hands up a message.               *)
LEMMA ExtractKeepsIInv ==
  ASSUME IInv, conn # "dropped", Len(pipe) >= HdrLen, NEW h \in Headers, Extract(h),
         UNCHANGED <<blocking, frames, rest, partial>>
  PROVE  IInv'
<1>1. conn' = conn
  BY DEF Extract
<1>2. /\ HdrLen + h.length \in 0..Len(pipe) /\ delivered' \in Seq(Handed(Len(frames)))
      /\ pipe' = SubSeq(pipe, HdrLen + h.length + 1, Len(pipe))
  BY ExtractShape
<1>3. pipe' \in Seq(Byte(Len(frames))) /\ BuffersOK' /\ Contiguous'
  <2> DEFINE m == HdrLen + h.length
  <2>1. pipe' \in Seq(Byte(Len(frames))) /\ Len(pipe') = Len(pipe) - m /\ Contiguous'
    BY <1>2, TakeShape
  <2>2. m \in 0..Len(pipe) /\ m <= arrived /\ arrived' = arrived - m
    BY ExtractShape
  <2>3. /\ SendCap \in Nat /\ RecvCap \in Nat /\ Len(pipe) \in Nat
        /\ arrived \in 0..RecvCap /\ Len(pipe) - arrived \in 0..SendCap
    BY StreamType DEF IInv, BuffersOK
  <2> HIDE DEF m
  <2> QED BY <2>1, <2>2, <2>3 DEF BuffersOK
<1>4. TypeOK'
  <2>1. /\ blocking \in BOOLEAN /\ frames \in Seq(FrameType) /\ rest \in Seq(Byte(Len(frames)))
        /\ partial \in 0..Len(frames) /\ conn \in ConnState
    BY TypeParts DEF IInv
  <2> QED BY <1>1, <1>2, <1>3, <2>1 DEF TypeOK, BuffersOK, ConnState, FrameType, Byte, Handed
<1>5. FramesOK' /\ RestOK'
  BY <1>1 DEF IInv, FramesOK, RestOK, Size
<1> QED BY <1>3, <1>4, <1>5, ExtractKeepsOrder, ExtractKeepsHeaders DEF IInv

(* The receiver drops the descriptor with what it has not read.            *)
LEMMA DropKeepsIInv ==
  ASSUME IInv, Drop, UNCHANGED <<blocking, frames, rest, partial>>
  PROVE  IInv'
<1>1. conn' = "dropped" /\ pipe' = <<>> /\ arrived' = 0 /\ delivered' = delivered
  BY DEF Drop
<1>2. pipe \in Seq(Byte(Len(frames))) /\ Len(pipe) \in Nat
  BY StreamType DEF IInv
<1>3. pipe' = SubSeq(pipe, Len(pipe) + 1, Len(pipe)) /\ Len(pipe) \in 0..Len(pipe)
  BY <1>1, <1>2
<1>4. pipe' \in Seq(Byte(Len(frames))) /\ BuffersOK' /\ Contiguous'
  <2>1. pipe' \in Seq(Byte(Len(frames))) /\ Contiguous'
    BY <1>3, TakeShape
  <2>2. BuffersOK'
    BY <1>1, SizesAssumption DEF BuffersOK
  <2> QED BY <2>1, <2>2
<1>5. TypeOK'
  <2>1. /\ blocking \in BOOLEAN /\ frames \in Seq(FrameType) /\ rest \in Seq(Byte(Len(frames)))
        /\ partial \in 0..Len(frames) /\ delivered \in Seq(Handed(Len(frames)))
    BY TypeParts DEF IInv
  <2> QED BY <1>1, <1>4, <2>1 DEF TypeOK, BuffersOK, FrameType, Byte, Handed
<1>6. FramesOK' /\ RestOK' /\ HeaderSurvives' /\ InOrder'
  BY <1>1 DEF IInv, FramesOK, RestOK, Size, HeaderSurvives, Intact, InOrder
<1> QED BY <1>4, <1>5, <1>6 DEF IInv

(* A new connection: nothing was sent, nothing is on its way.              *)
LEMMA InitEstablishesIInv ==
  ASSUME Init
  PROVE  IInv
<1>1. /\ frames = <<>> /\ rest = <<>> /\ pipe = <<>> /\ arrived = 0 /\ partial = 0
      /\ conn = "open"
      /\ delivered = <<>> /\ blocking \in BOOLEAN
  BY DEF Init
<1>2. HdrLen \in Nat \ {0} /\ MaxFrames \in Nat /\ SendCap \in Nat /\ RecvCap \in Nat
  BY SizesAssumption
<1>3. TypeOK
  BY <1>1, <1>2 DEF TypeOK
<1>4. FramesOK /\ RestOK /\ HeaderSurvives
  BY <1>1, <1>2 DEF FramesOK, RestOK, HeaderSurvives
<1>5. Total = 0 /\ Done = 0 /\ Whole = 0
  BY <1>1 DEF Total, Done, Whole
<1>6. Contiguous
  BY <1>5 DEF Contiguous
<1>7. Laid([k \in Nat |-> 0])
  <2> DEFINE f == [k \in Nat |-> 0]
  <2>1. f \in [Nat -> Int] /\ f[1] = 0
    OBVIOUS
  <2> HIDE DEF f
  <2>2. /\ 0 + 1 = 1 /\ 1..0 = {} /\ \A k, l \in 1..1 : ~ (k < l)
    OBVIOUS
  <2>3. Laid(f)
    BY <1>1, <1>5, <2>1, <2>2 DEF Laid
  <2> QED BY <2>3 DEF f
<1> QED BY <1>3, <1>4, <1>6, <1>7 DEF IInv, InOrder

(* Every step keeps the invariant.                                         *)
LEMMA NextKeepsIInv ==
  ASSUME IInv, [Next]_vars
  PROVE  IInv'
<1>1. ASSUME NEW tag \in Tag, NEW len \in BodyLen, Send(tag, len) PROVE IInv'
  BY <1>1, SendKeepsIInv
<1>2. CASE Resume
  BY <1>2, ResumeKeepsIInv
<1>3. CASE Close \/ Reset
  BY <1>3, GiveUpKeepsIInv DEF Close, Reset
<1>6. CASE Moves
  BY <1>6, ArriveKeepsIInv DEF Moves
<1>4. CASE NextMsg
  <2>1. conn # "dropped" /\ UNCHANGED <<blocking, frames, rest, partial>>
    BY <1>4 DEF NextMsg
  <2>2. CASE Drop
    BY <2>1, <2>2, DropKeepsIInv
  <2>3. ASSUME Here >= HdrLen, NEW h \in Headers, Extract(h) PROVE IInv'
    BY <2>1, <2>3, PeekedIsThere, ExtractKeepsIInv
  <2> QED BY <1>4, <2>2, <2>3 DEF NextMsg
<1>5. CASE UNCHANGED vars
  <2>1. UNCHANGED <<blocking, frames, rest, pipe, arrived, partial, conn, delivered>>
    BY <1>5 DEF vars
  <2>2. Total' = Total /\ \A i \in 1..Total : At(i)' = At(i)
    BY <2>1 DEF Total, At
  <2>3. Contiguous' /\ InOrder' /\ FramesOK' /\ HeaderSurvives'
    BY <2>1, <2>2, SameStream
  <2>4. TypeOK' /\ RestOK'
    BY <2>1 DEF IInv, TypeOK, RestOK, Size
  <2> QED BY <2>3, <2>4 DEF IInv
<1> QED BY <1>1, <1>2, <1>3, <1>4, <1>5, <1>6 DEF Next

(* The invariant holds in every state of every behaviour.                  *)
LEMMA IInvIsInvariant == Spec => []IInv
<1>1. Init => IInv
  BY InitEstablishesIInv
<1>2. IInv /\ [Next]_vars => IInv'
  BY NextKeepsIInv
<1> QED BY <1>1, <1>2, PTL DEF Spec

-----------------------------------------------------------------------------
(* What the connection gives.                                              *)

(* Whatever the sizes of headers, bodies and buffers, every byte on its    *)
(* way belongs to a frame that was sent, the buffers never hold more than  *)
(* their capacity, and every message handed up has a length within bounds  *)
(* and is made of bytes of frames that were sent.                          *)
THEOREM TypeCorrect == Spec => []TypeOK
<1>1. IInv => TypeOK
  BY DEF IInv
<1> QED BY <1>1, IInvIsInvariant, PTL

(* A message that is one whole frame has the tag it was sent with and      *)
(* leads back to its sender, for every width of a byte: no byte order is   *)
(* lost between packhdr(), nextMsg() and connect().                        *)
THEOREM HeaderIsKept == Spec => []HeaderSurvives
<1>1. IInv => HeaderSurvives
  BY DEF IInv
<1> QED BY <1>1, IInvIsInvariant, PTL

-----------------------------------------------------------------------------
(* The connection implements the queue of frames.                          *)

(* Frames are accepted under their numbers.                                *)
LEMMA Numbered ==
  ASSUME NEW n \in Nat
  PROVE  /\ [k \in 1..n |-> k] \in Seq(Nat) /\ Len([k \in 1..n |-> k]) = n
         /\ [k \in 1..(n + 1) |-> k] = Append([k \in 1..n |-> k], n + 1)
<1> DEFINE s == [k \in 1..n |-> k]
           t == [k \in 1..(n + 1) |-> k]
<1>1. s \in Seq(Nat) /\ Len(s) = n /\ \A k \in 1..n : s[k] = k
  OBVIOUS
<1>2. t \in Seq(Nat) /\ Len(t) = n + 1 /\ \A k \in 1..(n + 1) : t[k] = k
  OBVIOUS
<1> HIDE DEF s, t
<1>3. t = Append(s, n + 1)
  <2> DEFINE u == Append(s, n + 1)
  <2>1. /\ u \in Seq(Nat) /\ Len(u) = n + 1 /\ u[n + 1] = n + 1
        /\ \A k \in 1..n : u[k] = s[k]
    BY <1>1
  <2> HIDE DEF u
  <2>2. ASSUME NEW k \in 1..(n + 1) PROVE t[k] = u[k]
    <3>1. k \in 1..n \/ k = n + 1
      OBVIOUS
    <3> QED BY <1>1, <1>2, <2>1, <3>1
  <2>3. t = u
    BY <1>2, <2>1, <2>2, SeqEqual
  <2> QED BY <2>3 DEF u
<1> QED BY <1>1, <1>3 DEF s, t

(* How many frames the queue has accepted.                                 *)
LEMMA AcceptedShape ==
  ASSUME IInv
  PROVE  /\ InFull \in Nat /\ InFull <= Whole /\ Len(Accepted) = InFull
         /\ \A k \in 1..InFull : Accepted[k] = k
         /\ partial # 0 => InFull = partial - 1
         /\ partial = 0 /\ rest # <<>> => InFull = Len(frames) - 1
         /\ partial = 0 /\ rest = <<>> => InFull = Len(frames)
<1>1. /\ partial \in 0..Len(frames) /\ Len(frames) \in Nat
      /\ rest # <<>> => Len(frames) >= 1
  BY StreamType DEF IInv, RestOK
<1>2. /\ partial # 0 => InFull = partial - 1
      /\ partial = 0 /\ rest # <<>> => InFull = Len(frames) - 1
      /\ partial = 0 /\ rest = <<>> => InFull = Len(frames)
  BY DEF InFull
<1>3. InFull \in Nat /\ InFull <= Whole
  BY <1>1, <1>2 DEF Whole
<1>4. Len(Accepted) = InFull /\ \A k \in 1..InFull : Accepted[k] = k
  BY <1>3, Numbered DEF Accepted
<1> QED BY <1>2, <1>3, <1>4

(* What the queue has accepted depends on the number of frames alone.      *)
LEMMA AcceptedSteps ==
  ASSUME IInv
  PROVE  /\ InFull' = InFull => Accepted' = Accepted
         /\ InFull' = InFull + 1 => Accepted' = Append(Accepted, InFull + 1)
<1>1. InFull \in Nat
  BY AcceptedShape
<1>2. ASSUME InFull' = InFull PROVE Accepted' = Accepted
  BY <1>2 DEF Accepted
<1>3. ASSUME InFull' = InFull + 1 PROVE Accepted' = Append(Accepted, InFull + 1)
  <2>1. Accepted' = [k \in 1..(InFull + 1) |-> k]
    BY <1>3 DEF Accepted
  <2> QED BY <1>1, <2>1, Numbered DEF Accepted
<1> QED BY <1>2, <1>3

(* The frame a message is one of, 0 if it is not one whole frame.          *)
NumbersOf(fr, d) == {k \in d.of : d.of = {k} /\ d.len = fr[k].len}
NumberOf(fr, d)  ==
  IF NumbersOf(fr, d) = {} THEN 0 ELSE CHOOSE k \in NumbersOf(fr, d) : TRUE

(* What was received, before and after a step, as the numbers of frames.   *)
LEMMA ReceivedNumbers ==
  /\ Received  = [i \in 1..Len(delivered) |-> NumberOf(frames, delivered[i])]
  /\ Received' = [i \in 1..Len(delivered') |-> NumberOf(frames', delivered'[i])]
BY DEF Received, NumberOf, NumbersOf, Known, Intact

(* The messages that were received stay what they are when more frames     *)
(* follow.                                                                 *)
LEMMA ReceivedKept ==
  ASSUME IInv, delivered' = delivered, \A k \in 1..Len(frames) : frames'[k] = frames[k]
  PROVE  Received' = Received
<1>1. ASSUME NEW i \in 1..Len(delivered)
      PROVE  NumberOf(frames', delivered[i]) = NumberOf(frames, delivered[i])
  <2>1. delivered[i].of \subseteq 1..Len(frames)
    <3>1. delivered[i] \in Handed(Len(frames))
      BY TypeParts, ElementOfSeq DEF IInv
    <3> QED BY <3>1 DEF Handed
  <2>2. NumbersOf(frames', delivered[i]) = NumbersOf(frames, delivered[i])
    BY <2>1 DEF NumbersOf
  <2> QED BY <2>2 DEF NumberOf
<1> QED BY <1>1, ReceivedNumbers

(* A message that is handed up is added to what was received.              *)
LEMMA ReceivedAppend ==
  ASSUME IInv, conn # "dropped", Len(pipe) >= HdrLen, NEW h \in Headers, Extract(h),
         UNCHANGED frames
  PROVE  LET d == Read(h, HdrLen + h.length) IN
         \E v \in 0..MaxFrames :
           /\ Received' = Append(Received, v)
           /\ \A k : d.of = {k} /\ d.len = frames[k].len => v = k
<1> DEFINE d == Read(h, HdrLen + h.length)
           n == Len(frames)
           num(x) == NumberOf(frames, x)
           v == num(d)
<1>1. /\ delivered' \in Seq(Handed(n)) /\ Len(delivered') = Len(delivered) + 1
      /\ Len(delivered) \in Nat /\ n \in Nat /\ n <= MaxFrames /\ MaxFrames \in Nat
      /\ \A i \in 1..Len(delivered) : delivered'[i] = delivered[i]
      /\ delivered'[Len(delivered) + 1] = d
  <2>1. Done \in Nat /\ n \in 0..MaxFrames /\ MaxFrames \in Nat
    BY StreamType DEF IInv
  <2>2. /\ delivered' \in Seq(Handed(n)) /\ Done' = Done + 1
        /\ \A i \in 1..Done : delivered'[i] = delivered[i]
        /\ delivered'[Done + 1] = d
    BY ExtractShape
  <2> QED BY <2>1, <2>2 DEF Done
<1>2. Received = [i \in 1..Len(delivered) |-> num(delivered[i])]
  BY ReceivedNumbers
<1>3. Received' = [i \in 1..Len(delivered') |-> num(delivered'[i])]
  BY ReceivedNumbers
<1>4. d.of \subseteq 1..n
  <2>1. Len(delivered) + 1 \in 1..Len(delivered')
    BY <1>1
  <2>2. d \in Handed(n)
    BY <1>1, <2>1, ElementOfSeq
  <2> QED BY <2>2 DEF Handed
<1> HIDE DEF d
<1>5. v \in 0..MaxFrames
  <2>1. CASE NumbersOf(frames, d) = {}
    BY <1>1, <2>1 DEF NumberOf
  <2>2. CASE NumbersOf(frames, d) # {}
    <3>1. v \in NumbersOf(frames, d)
      BY <2>2 DEF NumberOf
    <3>2. v \in 1..n
      BY <1>4, <3>1 DEF NumbersOf
    <3> QED BY <1>1, <3>2
  <2> QED BY <2>1, <2>2
<1>6. ASSUME NEW k, d.of = {k}, d.len = frames[k].len PROVE v = k
  <2>1. NumbersOf(frames, d) = {k}
    BY <1>6 DEF NumbersOf
  <2> QED BY <2>1 DEF NumberOf
<1> HIDE DEF num
<1>7. Received' = Append(Received, v)
  <2> DEFINE a == Len(delivered)
  <2>1. a \in Nat /\ Len(delivered') = a + 1
    BY <1>1
  <2>2. Append(Received, v) = [i \in 1..(a + 1) |-> IF i <= a THEN num(delivered[i]) ELSE v]
    BY <1>2, <2>1
  <2>3. \A i \in 1..(a + 1) : num(delivered'[i]) = IF i <= a THEN num(delivered[i]) ELSE v
    <3>1. \A i \in 1..(a + 1) : (i <= a /\ i \in 1..a) \/ (~ (i <= a) /\ i = a + 1)
      BY <2>1
    <3> QED BY <1>1, <3>1
  <2> QED BY <1>3, <2>1, <2>2, <2>3
<1> QED BY <1>5, <1>6, <1>7 DEF d

(* send() has the queue accept the frame, or break at the first one cut    *)
(* short, or leaves it alone while a part is still to be written.          *)
LEMMA SendRefines ==
  ASSUME IInv, NEW tag \in Tag, NEW len \in BodyLen, Send(tag, len)
  PROVE  [F!Next]_(F!queueVars)
<1> DEFINE n == Len(frames)
<1>1. /\ rest = <<>> /\ conn = "open" /\ n < MaxFrames
      /\ \/ partial' = partial
         \/ rest' = <<>> /\ partial = 0 /\ partial' = n + 1
  <2>1. /\ rest = <<>> /\ conn = "open" /\ n < MaxFrames
        /\ \E e \in 0..(HdrLen + len) : Adds(len, e)
    BY SendShape
  <2> QED BY <2>1 DEF Adds
<1>2. /\ n \in Nat /\ MaxFrames \in Nat /\ partial \in 0..n
      /\ blocking => partial = 0
      /\ n + 1 \in 0..MaxFrames
  <2>1. n \in Nat /\ MaxFrames \in Nat /\ partial \in 0..n
    BY StreamType DEF IInv
  <2> QED BY <1>1, <2>1 DEF IInv, RestOK
<1>3. /\ Len(frames') = n + 1 /\ IInv'
      /\ \A k \in 1..n : frames'[k] = frames[k]
  BY SendKeepsTypes, SendKeepsIInv
<1>4. Received' = Received
  <2>1. delivered' = delivered
    BY DEF Send
  <2> QED BY <1>3, <2>1, ReceivedKept
<1>5. /\ partial = 0 => InFull = n
      /\ partial # 0 => InFull = partial - 1
  BY <1>1, AcceptedShape
<1>6. /\ partial' # 0 => InFull' = partial' - 1
      /\ partial' = 0 /\ rest' # <<>> => InFull' = n
      /\ partial' = 0 /\ rest' = <<>> => InFull' = n + 1
  BY <1>2, <1>3 DEF InFull
<1> HIDE DEF n
<1>7. CASE partial # 0
  <2>1. InFull' = InFull /\ (partial' # 0) = (partial # 0)
    BY <1>1, <1>5, <1>6, <1>7
  <2> QED BY <1>4, <2>1, AcceptedSteps DEF F!queueVars
<1>8. CASE partial = 0 /\ partial' = 0 /\ rest' # <<>>
  <2>1. InFull' = InFull /\ (partial' # 0) = (partial # 0)
    BY <1>5, <1>6, <1>8
  <2> QED BY <1>4, <2>1, AcceptedSteps DEF F!queueVars
<1>9. CASE partial = 0 /\ partial' = 0 /\ rest' = <<>>
  <2>1. InFull' = InFull + 1 /\ InFull + 1 \in 0..MaxFrames
    BY <1>2, <1>5, <1>6, <1>9
  <2>2. F!Accept(InFull + 1)
    BY <1>4, <1>9, <2>1, AcceptedSteps DEF F!Accept
  <2> QED BY <2>1, <2>2 DEF F!Next
<1>10. CASE partial = 0 /\ partial' # 0
  <2>1. InFull' = InFull
    BY <1>1, <1>2, <1>5, <1>6, <1>10
  <2>2. F!Break
    BY <1>4, <1>10, <2>1, AcceptedSteps DEF F!Break
  <2> QED BY <2>2 DEF F!Next
<1> QED BY <1>7, <1>8, <1>9, <1>10

(* A blocked send() that is done has its frame accepted.                   *)
LEMMA ResumeRefines ==
  ASSUME IInv, Resume
  PROVE  [F!Next]_(F!queueVars)
<1> DEFINE n == Len(frames)
<1>1. /\ rest # <<>> /\ UNCHANGED <<frames, partial, delivered>>
      /\ partial = 0 /\ n \in Nat /\ n >= 1 /\ n <= MaxFrames /\ MaxFrames \in Nat
  <2>1. n \in 0..MaxFrames /\ MaxFrames \in Nat
    BY StreamType DEF IInv
  <2> QED BY <2>1 DEF Resume, IInv, RestOK
<1>2. Received' = Received
  BY <1>1, ReceivedKept
<1>3. /\ InFull = n - 1
      /\ rest' # <<>> => InFull' = n - 1
      /\ rest' = <<>> => InFull' = n
  BY <1>1 DEF InFull
<1>4. CASE rest' # <<>>
  BY <1>1, <1>2, <1>3, <1>4, AcceptedSteps DEF F!queueVars
<1>5. CASE rest' = <<>>
  <2>1. InFull' = InFull + 1 /\ InFull + 1 \in 0..MaxFrames
    BY <1>1, <1>3, <1>5
  <2>2. F!Accept(InFull + 1)
    BY <1>1, <1>2, <2>1, AcceptedSteps DEF F!Accept
  <2> QED BY <2>1, <2>2 DEF F!Next
<1> QED BY <1>4, <1>5

(* A sender that ends inside a send() breaks the queue; nothing that was   *)
(* accepted is lost.                                                       *)
LEMMA GiveUpRefines ==
  ASSUME IInv, GiveUp
  PROVE  [F!Next]_(F!queueVars)
<1> DEFINE n == Len(frames)
<1>1. /\ UNCHANGED <<frames, delivered>> /\ rest' = <<>> /\ n \in Nat
      /\ partial' = IF rest # <<>> /\ partial = 0 THEN n ELSE partial
      /\ rest # <<>> => partial = 0 /\ n >= 1
  <2>1. n \in Nat
    BY StreamType DEF IInv
  <2> QED BY <2>1 DEF GiveUp, IInv, RestOK
<1>2. Received' = Received
  BY <1>1, ReceivedKept
<1>3. CASE rest = <<>>
  <2>1. InFull' = InFull /\ partial' = partial
    BY <1>1, <1>3 DEF InFull
  <2> QED BY <1>2, <2>1, AcceptedSteps DEF F!queueVars
<1>4. CASE rest # <<>>
  <2>1. InFull = n - 1 /\ InFull' = n - 1 /\ partial = 0 /\ partial' # 0
    BY <1>1, <1>4 DEF InFull
  <2>2. F!Break
    BY <1>2, <2>1, AcceptedSteps DEF F!Break
  <2> QED BY <2>2 DEF F!Next
<1> QED BY <1>3, <1>4

(* As long as a whole frame is still to be handed up, the message that is  *)
(* handed up is the next one, and the last one empties the stream.         *)
LEMMA NextIsIntact ==
  ASSUME IInv, conn # "dropped", Len(pipe) >= HdrLen, NEW h \in Headers, Extract(h),
         Done < Whole
  PROVE  /\ Intact(Read(h, HdrLen + h.length), Done + 1)
         /\ Whole = Done + 1 /\ partial = 0 => Total = HdrLen + h.length
<1> DEFINE m == HdrLen + h.length
           d == Read(h, m)
           k == Done + 1
<1>1. m \in 1..Len(pipe) /\ d.len = h.length /\ d.of = {At(i).frame : i \in 1..m}
  BY ExtractShape
<1>2. Done \in Nat /\ Whole \in 0..Len(frames) /\ Len(frames) \in Nat /\ Len(pipe) \in Nat
  BY StreamType DEF IInv
<1>3. PICK off : Laid(off)
  BY DEF IInv, InOrder
<1>4. m = Size(k) /\ h.length = frames[k].len
  BY FrontIsNext
<1>5. k \in (Done + 1)..Whole
  BY <1>2
<1>6. /\ off[k] = 0 /\ off[k + 1] = off[k] + Size(k)
      /\ \A j \in 1..Size(k) : At(off[k] + j) = [frame |-> k, pos |-> j]
      /\ partial = 0 => Total = off[Whole + 1]
  <2>1. off[k] = 0
    BY <1>2, <1>3 DEF Laid
  <2>2. /\ off[k + 1] = off[k] + Size(k)
        /\ \A j \in 1..Size(k) : At(off[k] + j) = [frame |-> k, pos |-> j]
    BY <1>3, <1>5 DEF Laid
  <2>3. partial = 0 => Total = off[Whole + 1]
    BY <1>3 DEF Laid
  <2> QED BY <2>1, <2>2, <2>3
<1> HIDE DEF k, m
<1>7. ASSUME NEW i \in 1..m PROVE At(i).frame = k
  <2>1. off[k] + i = i /\ i \in 1..Size(k)
    BY <1>4, <1>6
  <2>2. At(off[k] + i) = [frame |-> k, pos |-> i]
    BY <1>6, <2>1
  <2>3. At(i) = [frame |-> k, pos |-> i]
    BY <2>1, <2>2
  <2> QED BY <2>3
<1>8. d.of = {k}
  <2>1. 1 \in 1..m
    BY <1>1
  <2>2. At(1).frame = k
    BY <1>7, <2>1
  <2> QED BY <1>1, <1>7, <2>1, <2>2
<1>9. off[k + 1] = m
  BY <1>1, <1>4, <1>6
<1> HIDE DEF d
<1>10. Intact(d, k)
  BY <1>1, <1>4, <1>8 DEF Intact
<1>11. Whole = k /\ partial = 0 => Total = m
  BY <1>6, <1>9
<1> QED BY <1>10, <1>11 DEF d, k, m

(* nextMsg() hands up the next frame that was accepted, whole, as long as  *)
(* there is one; after it anything, but only of a stream that is broken.   *)
LEMMA ExtractRefines ==
  ASSUME IInv, conn # "dropped", Len(pipe) >= HdrLen, NEW h \in Headers, Extract(h),
         UNCHANGED <<blocking, frames, rest, partial>>
  PROVE  [F!Next]_(F!queueVars)
<1> DEFINE m == HdrLen + h.length
           d == Read(h, m)
<1>1. /\ m \in 1..Len(pipe) /\ d.len = h.length /\ d.of = {At(i).frame : i \in 1..m}
  BY ExtractShape
<1>2. /\ Done \in Nat /\ Whole \in 0..Len(frames) /\ Len(frames) \in Nat
      /\ Len(pipe) \in Nat /\ Total = Len(pipe) + Len(rest)
      /\ rest # <<>> => Len(rest) \in Nat \ {0}
  BY StreamType DEF IInv, Total
<1>3. /\ InFull \in Nat /\ InFull <= Whole /\ Len(Accepted) = InFull
      /\ \A k \in 1..InFull : Accepted[k] = k
      /\ partial = 0 /\ rest # <<>> => InFull = Len(frames) - 1
      /\ partial = 0 /\ rest = <<>> => InFull = Len(frames)
  BY AcceptedShape
<1>4. PICK v \in 0..MaxFrames :
        /\ Received' = Append(Received, v)
        /\ \A k : d.of = {k} /\ d.len = frames[k].len => v = k
  BY ReceivedAppend
<1>5. Accepted' = Accepted /\ Len(Received) = Done /\ (partial' # 0) = (partial # 0)
  <2>1. InFull' = InFull
    BY DEF InFull
  <2> QED BY <1>2, <2>1, AcceptedSteps DEF Received, Done
<1>6. ASSUME Done < Whole
      PROVE  v = Done + 1 /\ (Whole = Done + 1 /\ partial = 0 => Total = m)
  <2>1. Intact(d, Done + 1) /\ (Whole = Done + 1 /\ partial = 0 => Total = m)
    BY <1>6, NextIsIntact
  <2> HIDE DEF d, m
  <2> QED BY <1>4, <2>1 DEF Intact, d, m
<1> HIDE DEF m, d
<1>7. CASE Done < InFull
  <2>1. v = Done + 1 /\ Done + 1 \in 1..InFull
    BY <1>2, <1>3, <1>6, <1>7
  <2>2. F!Deliver
    BY <1>3, <1>4, <1>5, <1>7, <2>1 DEF F!Deliver
  <2> QED BY <2>2 DEF F!Next
<1>8. CASE ~ (Done < InFull)
  <2>1. partial # 0
    <3>1. SUFFICES ASSUME partial = 0 PROVE FALSE
      OBVIOUS
    <3>2. Done < Whole
      BY <1>2, <3>1, ExtractKeepsOrder
    <3>3. Whole = Len(frames)
      BY <3>1 DEF Whole
    <3>4. rest # <<>> /\ Whole = Done + 1
      BY <1>2, <1>3, <1>8, <3>1, <3>2, <3>3
    <3>5. Total = m
      BY <1>6, <3>1, <3>2, <3>4
    <3> QED BY <1>1, <1>2, <3>4, <3>5
  <2>2. F!Garble(v)
    BY <1>3, <1>4, <1>5, <1>8, <2>1 DEF F!Garble
  <2> QED BY <2>2 DEF F!Next
<1> QED BY <1>7, <1>8

(* Every step of the connection is a step of the queue, or none.           *)
LEMMA NextRefines ==
  ASSUME IInv, [Next]_vars
  PROVE  [F!Next]_(F!queueVars)
<1>1. ASSUME NEW tag \in Tag, NEW len \in BodyLen, Send(tag, len)
      PROVE  [F!Next]_(F!queueVars)
  BY <1>1, SendRefines
<1>2. CASE Resume
  BY <1>2, ResumeRefines
<1>3. CASE Close \/ Reset
  BY <1>3, GiveUpRefines DEF Close, Reset
<1>4. ASSUME UNCHANGED <<frames, rest, partial, delivered>>
      PROVE  [F!Next]_(F!queueVars)
  <2>1. InFull' = InFull
    BY <1>4 DEF InFull
  <2>2. Received' = Received
    BY <1>4, ReceivedKept
  <2> QED BY <1>4, <2>1, <2>2, AcceptedSteps DEF F!queueVars
<1>5. CASE NextMsg
  <2>1. conn # "dropped" /\ UNCHANGED <<blocking, frames, rest, partial>>
    BY <1>5 DEF NextMsg
  <2>2. CASE Drop
    BY <1>4, <2>1, <2>2 DEF Drop
  <2>3. ASSUME Here >= HdrLen, NEW h \in Headers, Extract(h)
        PROVE  [F!Next]_(F!queueVars)
    BY <2>1, <2>3, PeekedIsThere, ExtractRefines
  <2> QED BY <1>5, <2>2, <2>3 DEF NextMsg
<1>6. CASE Moves \/ UNCHANGED vars
  BY <1>4, <1>6 DEF Moves, Arrive, vars
<1> QED BY <1>1, <1>2, <1>3, <1>5, <1>6 DEF Next

(* The connection is a queue of frames: every frame that packhdr() and     *)
(* send() write in full comes out of nextMsg() once, whole and in order,   *)
(* however it is cut up on the way and whichever end closes, until a frame *)
(* is cut short.                                                           *)
THEOREM StreamIsFrameQueue == Spec => IsFrameQueue
<1>1. Init => F!Init
  <2>1. SUFFICES ASSUME Init PROVE F!Init
    OBVIOUS
  <2>2. frames = <<>> /\ rest = <<>> /\ partial = 0 /\ delivered = <<>>
    BY <2>1 DEF Init
  <2>3. InFull = 0
    BY <2>2 DEF InFull
  <2>4. Accepted = <<>> /\ Received = <<>>
    BY <2>2, <2>3 DEF Accepted, Received
  <2> QED BY <2>2, <2>4 DEF F!Init
<1>2. IInv /\ [Next]_vars => [F!Next]_(F!queueVars)
  BY NextRefines
<1> QED BY <1>1, <1>2, IInvIsInvariant, PTL DEF Spec, IsFrameQueue, F!Spec

-----------------------------------------------------------------------------
(* The messages are the frames.                                            *)

(* Each message up to the first frame cut short is its frame, and no more  *)
(* messages than frames come out of a stream that is not broken.           *)
DeliveryInv ==
  /\ \A k \in 1..Done : k <= Whole => Intact(delivered[k], k)
  /\ partial = 0 => Done <= Len(frames)

(* Nothing that is handed up later changes a message, and a frame that is  *)
(* written later is none of those handed up.                               *)
LEMMA DeliveryKept ==
  ASSUME IInv, DeliveryInv, delivered' = delivered,
         Len(frames)' \in Nat, Len(frames)' >= Len(frames),
         \A k \in 1..Len(frames) : frames'[k] = frames[k],
         partial' = partial \/ (partial = 0 /\ partial' \in 1..Len(frames)')
  PROVE  DeliveryInv'
<1>1. /\ Done \in Nat /\ Done' = Done /\ Len(frames) \in Nat
      /\ partial \in 0..Len(frames)
  BY StreamType DEF IInv, Done
<1>2. partial' = 0 => Done' <= Len(frames)'
  BY <1>1 DEF DeliveryInv
<1>3. ASSUME NEW k \in 1..Done, k <= Whole' PROVE Intact(delivered[k], k)'
  <2>1. k <= Whole /\ k \in 1..Len(frames)
    BY <1>1, <1>3 DEF DeliveryInv, Whole
  <2>2. Intact(delivered[k], k) /\ frames'[k] = frames[k]
    BY <2>1 DEF DeliveryInv
  <2> QED BY <2>2 DEF Intact
<1> QED BY <1>1, <1>2, <1>3 DEF DeliveryInv

(* nextMsg() adds the next frame.                                          *)
LEMMA ExtractDelivers ==
  ASSUME IInv, DeliveryInv, conn # "dropped", Len(pipe) >= HdrLen, NEW h \in Headers,
         Extract(h), UNCHANGED <<blocking, frames, rest, partial>>
  PROVE  DeliveryInv'
<1>1. /\ Done \in Nat /\ Done' = Done + 1 /\ Whole \in 0..Len(frames) /\ Len(frames) \in Nat
      /\ \A k \in 1..Done : delivered'[k] = delivered[k]
      /\ delivered'[Done + 1] = Read(h, HdrLen + h.length)
  BY StreamType, ExtractShape DEF IInv
<1>2. Whole' = Whole
  BY DEF Whole
<1>3. partial' = 0 => Done' <= Len(frames)'
  BY <1>1, ExtractKeepsOrder
<1>4. ASSUME NEW k \in 1..Done', k <= Whole PROVE Intact(delivered[k], k)'
  <2>1. CASE k \in 1..Done
    <3>1. Intact(delivered[k], k) /\ delivered'[k] = delivered[k]
      BY <1>1, <1>4, <2>1 DEF DeliveryInv
    <3> QED BY <3>1 DEF Intact
  <2>2. CASE k = Done + 1
    <3>1. Intact(Read(h, HdrLen + h.length), k)
      BY <1>1, <1>4, <2>2, NextIsIntact
    <3>2. delivered'[k] = Read(h, HdrLen + h.length)
      BY <1>1, <2>2
    <3> QED BY <3>1, <3>2 DEF Intact
  <2> QED BY <1>1, <2>1, <2>2
<1> QED BY <1>2, <1>3, <1>4 DEF DeliveryInv

(* Every step keeps this.                                                  *)
LEMMA NextKeepsDelivery == IInv /\ DeliveryInv /\ [Next]_vars => DeliveryInv'
<1> SUFFICES ASSUME IInv, DeliveryInv, [Next]_vars PROVE DeliveryInv'
  OBVIOUS
<1>0. Len(frames) \in Nat /\ partial \in 0..Len(frames)
  BY StreamType DEF IInv
<1>1. ASSUME NEW tag \in Tag, NEW len \in BodyLen, Send(tag, len) PROVE DeliveryInv'
  <2>1. /\ Len(frames') = Len(frames) + 1
        /\ \A k \in 1..Len(frames) : frames'[k] = frames[k]
    BY <1>1, SendKeepsTypes
  <2>2. partial' = partial \/ (partial = 0 /\ partial' = Len(frames) + 1)
    <3>1. \E e \in 0..(HdrLen + len) : Adds(len, e)
      BY <1>1, SendShape
    <3> QED BY <3>1 DEF Adds
  <2>3. delivered' = delivered
    BY <1>1 DEF Send
  <2> QED BY <1>0, <2>1, <2>2, <2>3, DeliveryKept
<1>2. ASSUME UNCHANGED <<frames, delivered, partial>> PROVE DeliveryInv'
  BY <1>0, <1>2, DeliveryKept
<1>3. CASE Resume
  BY <1>2, <1>3 DEF Resume
<1>4. CASE Close \/ Reset
  <2>1. /\ UNCHANGED <<frames, delivered>>
        /\ partial' = IF rest # <<>> /\ partial = 0 THEN Len(frames) ELSE partial
        /\ rest # <<>> => Len(frames) >= 1
    BY <1>4 DEF Close, Reset, GiveUp, IInv, RestOK
  <2> QED BY <1>0, <2>1, DeliveryKept
<1>5. CASE NextMsg
  <2>1. conn # "dropped" /\ UNCHANGED <<blocking, frames, rest, partial>>
    BY <1>5 DEF NextMsg
  <2>2. CASE Drop
    BY <1>2, <2>1, <2>2 DEF Drop
  <2>3. ASSUME Here >= HdrLen, NEW h \in Headers, Extract(h) PROVE DeliveryInv'
    BY <2>1, <2>3, PeekedIsThere, ExtractDelivers
  <2> QED BY <1>5, <2>2, <2>3 DEF NextMsg
<1>6. CASE Moves \/ UNCHANGED vars
  BY <1>2, <1>6 DEF Moves, Arrive, vars
<1> QED BY <1>1, <1>3, <1>4, <1>5, <1>6 DEF Next

(* As long as no frame was cut short, what nextMsg() has handed up is what *)
(* send() was given, message by message: the same length, the same tag and *)
(* a way back to the sender.                                               *)
THEOREM FirstFramesIntact == Spec => []FramesArriveIntact
<1>1. Init => DeliveryInv
  BY DEF Init, DeliveryInv, Done
<1>2. IInv /\ DeliveryInv => FramesArriveIntact
  <2> SUFFICES ASSUME IInv, DeliveryInv, NEW k \in 1..Len(delivered),
                      partial = 0 \/ k < partial
               PROVE  /\ k <= Len(frames) /\ Intact(delivered[k], k)
                      /\ frames[k].tag \in (-(Short \div 2))..(Short \div 2 - 1) =>
                           delivered[k].tag = frames[k].tag
                      /\ sockaddr_set(sockaddr_int2ip(delivered[k].ip), delivered[k].port)
                           = Sender
    BY DEF FramesArriveIntact
  <2>1. Done \in Nat /\ Len(frames) \in Nat /\ partial \in 0..Len(frames)
    BY StreamType DEF IInv
  <2>2. k \in 1..Done
    BY DEF Done
  <2>3. k <= Whole /\ k \in 1..Len(frames)
    BY <2>1, <2>2 DEF DeliveryInv, Whole
  <2>4. Intact(delivered[k], k)
    BY <2>2, <2>3 DEF DeliveryInv
  <2> QED BY <2>3, <2>4 DEF IInv, HeaderSurvives
<1> QED BY <1>1, <1>2, IInvIsInvariant, NextKeepsDelivery, PTL DEF Spec
=============================================================================
