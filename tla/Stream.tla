------------------------------- MODULE Stream -------------------------------
(***************************************************************************)
(* One direction of a TCP connection between two SBuses: packhdr and send  *)
(* at one end (SMessenger.cpp, stcp_send), nextMsg at the other.           *)
(*                                                                         *)
(* A frame is HdrLen header bytes and a body.  send() puts bytes into the  *)
(* sender's socket buffer, from which the kernel moves them to the         *)
(* receiver's as long as that has room.  The receiver peeks at the header, *)
(* then at the frame, and takes it out only when all of it is in its own   *)
(* buffer.  The end that connected is in non-blocking mode, so its send()  *)
(* may write a part of a frame; the end that accepted blocks until all is  *)
(* written.  A connection ends in order, with what was sent still to be    *)
(* read, or by a reset, which recv() notices before it reads.              *)
(*                                                                         *)
(* A byte is known by its frame and its place in it.                       *)
(***************************************************************************)
EXTENDS Wire, FiniteSets

CONSTANTS
  HdrLen,       \* HDRLEN (8)
  MaxDataLen,   \* MAX_DATALEN (1 MB)
  SendCap,      \* bytes the sender's socket buffer holds
  RecvCap,      \* bytes the receiver's socket buffer holds
  Tag,          \* message tags in use, as int
  Sender,       \* the sender's end: its address and port, as the kernel has them
  BodyLen,      \* body lengths in use
  MaxFrames     \* bound: calls of send() that write anything

ASSUME SizesAssumption ==
  /\ HdrLen \in Nat \ {0} /\ SendCap \in Nat /\ RecvCap \in Nat
  /\ MaxDataLen \in 0..(Long \div 2 - 2) /\ MaxFrames \in Nat
ASSUME InputsAssumption ==
  /\ Tag \subseteq Int /\ BodyLen \subseteq Nat
  /\ Sender \in [addr : 0..(Long - 1), port : 0..(Short - 1)]

VARIABLES
  blocking,   \* whether the sender's end is the one that accepted
  frames,     \* the frames written, in part or in full
  rest,       \* bytes a blocked send() still has to write
  pipe,       \* bytes in the two socket buffers
  arrived,    \* how many of them are in the receiver's
  partial,    \* first frame cut short, 0 if none
  conn,       \* "open", "closed" by the sender, "reset", "dropped" by the receiver
  delivered   \* the messages nextMsg() has handed up

vars == <<blocking, frames, rest, pipe, arrived, partial, conn, delivered>>

-----------------------------------------------------------------------------
(* The bytes of frame k. *)
Bytes(k, len) == [i \in 1..(HdrLen + len) |-> [frame |-> k, pos |-> i]]

Init ==
  /\ blocking \in BOOLEAN      \* stcp_client() alone calls stcp_setNonBlocking()
  /\ frames = <<>> /\ rest = <<>> /\ pipe = <<>> /\ arrived = 0
  /\ partial = 0 /\ conn = "open" /\ delivered = <<>>

Room == SendCap - (Len(pipe) - arrived)
Written(s) == IF Len(s) <= Room THEN Len(s) ELSE Room

-----------------------------------------------------------------------------
(* SMessenger::send to a peer: a body that is too big is refused; what     *)
(* stcp_send() could not write is forgotten, or waited for.                *)
Send(tag, len) ==
  /\ rest = <<>> /\ conn = "open"
  /\ len <= MaxDataLen
  /\ Len(frames) < MaxFrames
  /\ LET k == Len(frames) + 1
         b == Bytes(k, len)
         n == Written(b)
     IN /\ n > 0 \/ blocking          \* else EAGAIN
        /\ frames' = Append(frames, [tag |-> tag, len |-> len,
                                     hdr |-> PackHdr(tag, stcp_getLocalPort(Sender), len)])
        /\ pipe' = pipe \o SubSeq(b, 1, n)
        /\ IF blocking
           THEN rest' = SubSeq(b, n + 1, Len(b)) /\ UNCHANGED partial
           ELSE /\ partial' = IF n < Len(b) /\ partial = 0 THEN k ELSE partial
                /\ UNCHANGED rest
  /\ UNCHANGED <<blocking, arrived, conn, delivered>>

(* Mutant: what a blocked send() wrote last is written again. *)
Resume_ByteTwice ==
  /\ rest # <<>> /\ Room > 0 /\ conn = "open"
  /\ pipe' = pipe \o SubSeq(rest, 1, Written(rest))
  /\ rest' = SubSeq(rest, Written(rest), Len(rest))
  /\ UNCHANGED <<blocking, frames, arrived, partial, conn, delivered>>

(* The kernel lets a blocked send() go on. *)
Resume ==
  /\ rest # <<>> /\ Room > 0 /\ conn = "open"
  /\ pipe' = pipe \o SubSeq(rest, 1, Written(rest))
  /\ rest' = SubSeq(rest, Written(rest) + 1, Len(rest))
  /\ UNCHANGED <<blocking, frames, arrived, partial, conn, delivered>>

(* The kernel moves bytes to the receiver's buffer, as many as the network *)
(* carries at a time.                                                      *)
Arrive(n) ==
  /\ conn \in {"open", "closed"}
  /\ arrived + n <= Len(pipe) /\ arrived + n <= RecvCap
  /\ arrived' = arrived + n
  /\ UNCHANGED <<blocking, frames, rest, pipe, partial, conn, delivered>>

Moves == \E n \in 1..RecvCap : Arrive(n)

(* The sending process ends, perhaps inside a blocked send().              *)
GiveUp ==
  /\ partial' = IF rest # <<>> /\ partial = 0 THEN Len(frames) ELSE partial
  /\ rest' = <<>>
  /\ UNCHANGED <<blocking, frames, pipe, arrived, delivered>>

Close == conn = "open" /\ conn' = "closed" /\ GiveUp

(* It had not read all it got, or was written to after its end: then the   *)
(* connection is reset.                                                    *)
Reset == conn \in {"open", "closed"} /\ conn' = "reset" /\ GiveUp

-----------------------------------------------------------------------------
(* What the first HdrLen bytes are read as.  Behind a partial frame they   *)
(* are bytes of a body or of several headers and may say anything.         *)
Aligned == \A i \in 1..HdrLen : pipe[i] = [frame |-> pipe[1].frame, pos |-> i]

Anything ==
  [tag : {0, 1}, port : {0}, length : {-1, MaxDataLen + 1} \cup (0..MaxDataLen)]

Headers ==
  IF Aligned THEN {UnpackHdr(frames[pipe[1].frame].hdr)} ELSE Anything

(* What a recvfrom() with MSG_PEEK finds: the receiver's buffer only. *)
Here == arrived

(* The message made of the first n bytes.  TCP leaves the address empty,   *)
(* so it is asked of the descriptor; the port is the header's.             *)
Read(h, n) ==
  LET from == [addr |-> Swap32(stcp_getIP(Sender) % Long), port |-> Swap16(h.port)] IN
  [tag |-> h.tag, len |-> h.length, of |-> {pipe[i].frame : i \in 1..n},
   ip |-> sockaddr_getIP(from), port |-> sockaddr_getPort(from)]

(* nextMsg() takes out a frame that is there in full. *)
(* Mutant: as soon as the header is there. *)
Extract_HeaderOnly(h) ==
  LET n == IF Here < HdrLen + h.length THEN Here ELSE HdrLen + h.length IN
  /\ h.length \in 0..MaxDataLen
  /\ pipe' = SubSeq(pipe, n + 1, Len(pipe)) /\ arrived' = arrived - n
  /\ delivered' = Append(delivered, Read(h, n))
  /\ UNCHANGED conn

(* Mutants: a negative length passes; one byte too many is waited for. *)
Extract_NegativeLength(h) ==
  /\ h.length <= MaxDataLen
  /\ Here >= HdrLen + h.length
  /\ pipe' = SubSeq(pipe, HdrLen + h.length + 1, Len(pipe))
  /\ arrived' = arrived - (HdrLen + h.length)
  /\ delivered' = Append(delivered, Read(h, HdrLen + h.length))
  /\ UNCHANGED conn

Extract_OneMore(h) ==
  /\ h.length \in 0..MaxDataLen
  /\ Here > HdrLen + h.length
  /\ pipe' = SubSeq(pipe, HdrLen + h.length + 1, Len(pipe))
  /\ arrived' = arrived - (HdrLen + h.length)
  /\ delivered' = Append(delivered, Read(h, HdrLen + h.length))
  /\ UNCHANGED conn

Extract(h) ==
  /\ h.length \in 0..MaxDataLen
  /\ Here >= HdrLen + h.length
  /\ pipe' = SubSeq(pipe, HdrLen + h.length + 1, Len(pipe))
  /\ arrived' = arrived - (HdrLen + h.length)
  /\ delivered' = Append(delivered, Read(h, HdrLen + h.length))
  /\ UNCHANGED conn

(* A length that is negative or too big for the buffer, or the end of the  *)
(* connection: an error, and recv() drops the descriptor.  An orderly end  *)
(* shows as a read of 0 bytes, so only once the pipe is empty, a reset as  *)
(* POLLERR or POLLHUP, which recv() looks at before it reads.              *)
(* Mutant: an end of the connection is taken for "no data yet". *)
Drop_NoEof ==
  /\ \/ conn = "reset"
     \/ Here >= HdrLen /\ \E h \in Headers : h.length \notin 0..MaxDataLen
  /\ conn' = "dropped" /\ pipe' = <<>> /\ arrived' = 0 /\ UNCHANGED delivered

(* Mutant: what is still to be read is given up at the end. *)
Drop_AtOnce ==
  /\ \/ conn \in {"closed", "reset"}
     \/ Here >= HdrLen /\ \E h \in Headers : h.length \notin 0..MaxDataLen
  /\ conn' = "dropped" /\ pipe' = <<>> /\ arrived' = 0 /\ UNCHANGED delivered

Drop ==
  /\ \/ conn = "reset"
     \/ pipe = <<>> /\ conn = "closed"
     \/ Here >= HdrLen /\ \E h \in Headers : h.length \notin 0..MaxDataLen
  /\ conn' = "dropped" /\ pipe' = <<>> /\ arrived' = 0 /\ UNCHANGED delivered

NextMsg ==
  /\ conn # "dropped"
  /\ \/ Drop
     \/ conn # "reset" /\ Here >= HdrLen /\ \E h \in Headers : Extract(h)
  /\ UNCHANGED <<blocking, frames, rest, partial>>

Next ==
  \/ \E tag \in Tag, len \in BodyLen : Send(tag, len)
  \/ Resume \/ Moves \/ Close \/ Reset \/ NextMsg

(* The receiving thread and the kernel go on; nothing is assumed of the    *)
(* sending application.                                                    *)
Spec ==
  Init /\ [][Next]_vars /\ WF_vars(NextMsg) /\ WF_vars(Resume) /\ WF_vars(Moves)

-----------------------------------------------------------------------------
TypeOK ==
  /\ blocking \in BOOLEAN
  /\ frames \in Seq([tag : Tag, len : BodyLen,
                     hdr : [code : 0..(Short - 1), port : 0..(Short - 1),
                            length : 0..(Long - 1)]])
  /\ \A s \in {rest, pipe} : s \in Seq([frame : 1..Len(frames), pos : Nat])
  /\ arrived \in 0..RecvCap /\ Len(pipe) - arrived \in 0..SendCap
  /\ partial \in 0..Len(frames)
  /\ conn \in {"open", "closed", "reset", "dropped"}
  /\ delivered \in Seq([tag : Int, len : 0..MaxDataLen, of : SUBSET (1..Len(frames)),
                        ip : Int, port : Int])

(* A message that is one frame, whole. *)
Intact(d, k) == d.of = {k} /\ d.len = frames[k].len

(* A message carries the tag it was sent with, as long as that fits the    *)
(* 16 bits of the header, and connecting to the address recv() reports     *)
(* (sockaddr_int2ip, sockaddr_set) means the sender's address: no byte     *)
(* order is lost between packhdr(), nextMsg() and connect().               *)
HeaderSurvives ==
  \A i \in 1..Len(delivered) : \A k \in 1..Len(frames) :
    LET d == delivered[i] IN
    Intact(d, k) =>
      /\ frames[k].tag \in (-(Short \div 2))..(Short \div 2 - 1) => d.tag = frames[k].tag
      /\ sockaddr_set(sockaddr_int2ip(d.ip), d.port) = Sender

(* Up to the first frame that is cut short, the k-th message nextMsg()     *)
(* hands up is the k-th frame that send() wrote: as long, made of no other *)
(* bytes, with its tag, and leading back to its sender.                    *)
FramesArriveIntact ==
  \A k \in 1..Len(delivered) : partial = 0 \/ k < partial =>
    /\ k <= Len(frames) /\ Intact(delivered[k], k)
    /\ frames[k].tag \in (-(Short \div 2))..(Short \div 2 - 1) =>
         delivered[k].tag = frames[k].tag
    /\ sockaddr_set(sockaddr_int2ip(delivered[k].ip), delivered[k].port) = Sender

(* The connection is a queue of frames: every frame written in full comes  *)
(* out once, in order and whole, until the stream breaks.                  *)
InFull ==
  CASE partial # 0                   -> partial - 1
    [] partial = 0 /\ rest # <<>>   -> Len(frames) - 1
    [] OTHER                         -> Len(frames)

Accepted == [k \in 1..InFull |-> k]

Known(d) == {k \in d.of : Intact(d, k)}
Received ==
  [i \in 1..Len(delivered) |->
     IF Known(delivered[i]) = {} THEN 0 ELSE CHOOSE k \in Known(delivered[i]) : TRUE]

F == INSTANCE FrameQueue WITH
  Message <- 0..MaxFrames, accepted <- Accepted, delivered <- Received,
  broken <- partial # 0
IsFrameQueue == F!Spec

(* nextMsg() can see the whole of a frame only if the receive buffer holds *)
(* it; MAX_DATALEN does not see to that.                                   *)
Fits(k) == HdrLen + frames[k].len <= RecvCap
FirstFit(n) == \A k \in 1..n : Fits(k)

(* Every frame written in full is delivered, also when its sender is gone  *)
(* or a later frame was cut short, if it and those before it fit the       *)
(* receive buffer; only a reset takes away what is not read yet.           *)
WholeFramesArrive ==
  \A k \in 1..MaxFrames :
    InFull >= k /\ FirstFit(k) /\ conn \in {"open", "closed"}
      ~> Len(delivered) >= k \/ conn = "reset"

(* A send() that waits for room goes on, if the frames before it fit the   *)
(* receive buffer and its own fits the two buffers together: the sender    *)
(* waits for the receiver to read and the receiver, which only peeks, for  *)
(* a whole frame.  (Otherwise both may wait for ever.)                     *)
SenderNotHeldUp ==
  rest # <<>> /\ FirstFit(Len(frames) - 1)
    /\ HdrLen + frames[Len(frames)].len <= RecvCap + SendCap ~> rest = <<>>

(* The end of a connection is noticed and the descriptor dropped: after a  *)
(* reset always, else unless it came inside a frame or behind one that     *)
(* does not fit the receive buffer, of which nextMsg() waits for the rest  *)
(* for ever.                                                               *)
EndIsNoticed ==
  conn = "reset" \/ (conn = "closed" /\ partial = 0 /\ FirstFit(Len(frames)))
    ~> conn = "dropped"

(* "-1 in case of an error (message was not sent)": nothing of a frame for *)
(* which send() returned -1 is in a message that is delivered.             *)
UnsentIsNotDelivered ==
  \A i \in 1..Len(delivered) : partial \notin delivered[i].of
=============================================================================
