# A verification development for SBUS

SBUS (`src/libsbus`) is a small message bus. Every process (or thread) owns an
*SBus*: it has a name, sends to everybody by UDP multicast and to one peer by TCP,
and receives through a queue that a thread of its own fills. This directory holds
TLA+ modules that model the parts of it that decide something, TLC configurations
that check them, and proofs checked by TLAPS.

## 1. Inventory

| Part | Source | State | Operations | Modelled in |
|---|---|---|---|---|
| Contact list | `SContacts.cpp`, `SPeerInfo.cpp` | four hash maps (id, address, name, socket) to records, `lastPeerId`, `lastCleanUp`, last activity per record | `add`, `find` (4), `updateSocket`, `updateName`, `erase`, `doCleanUp`, `show` | `ContactTable`, `SContacts` |
| Poll list | `SPoll.cpp`, and its C form `spoll.c` | array of `pollfd`, `size`, `capacity` | create, `add`, `remove`, `grow`, `removeit`, `doPoll`, `getpolls`, dispose | `SPoll`, `CPoll`, `SPollRace` |
| Messenger | `SMessenger.cpp`, `SMsg.cpp` | TCP server socket, multicast socket, a poll list | `recv` (accept, poll, read, repair, drop), `connect`, `nextMsg`, three kinds of `send` | `SBusNode`, `Stream`, `LifeCycle` |
| SBus | `SBus.cpp` | queue `inq` with `inMutex`, contact list, messenger, name, `alive` | `inLoop` (receiving thread); `recv`, `processSMsg`, `send`, `peer2Socket`, `setName` (application thread); construction, destruction | `SBusNode`, `Naming`, `LifeCycle` |
| TCP, UDP helpers | `stcp.c`, `sudp.c` | none; open and close descriptors | sequences of system calls | `NetHelpers` |
| Address helpers | `sockaddr.c` | none | conversions; queries of the kernel | `Wire`, `NetHelpers` |
| C interface | `sbus.c` | handle to an SBus | `sbus_create`, `sbus_dispose`; the rest passes arguments on | `LifeCycle` |
| Test programs | `testcpp`, `testc` | `active`, a counter | claim a name, loop over `recv`, give up when told | `Naming` |
| Time, log helpers, drafts | `timing.c`, `log.c`, `qbus.h`, `SObj.h` | none | clock arithmetic, output, declarations | not modelled |

How they interact. The *receiving thread* runs `SMessenger::recv` in a loop: accept
at most one connection, poll the list, handle the **first** ready descriptor, and
push the resulting `SMsg` (a message, or the notice that a descriptor was closed)
on `inq`. The *application thread* pops `inq` in `SBus::recv`; `processSMsg` looks
the sender up in the contact list (by descriptor, then by address, else it adds it),
reacts to system messages (`FIND`, `MANAMEIS`, `NAMETAKEN`) with unicasts, and hands
user messages to the caller. Sending to a peer takes the descriptor on record or
connects. The two threads share `inq` (under a mutex), the poll list (under none),
`mcsock`, and the numbers the kernel gives descriptors.

What is hard, and what makes each part correct:

* contact list: four maps that must agree after erasing by key; a cleanup that walks
  a map while erasing from it; ids the application keeps must not change meaning;
* poll list: hand-made array with a gap-closing move; a descriptor added must be
  polled until removed, and nothing else may be;
* messenger and SBus: two threads, a descriptor closed by one while the other still
  has it on record, reuse of its number, notices that travel through the queue;
  messages must reach `recv` once, in order, and with the id of their sender;
* system of several SBuses: names claimed at the same time, lost multicasts;
* stream: partial sends, frames larger than the buffers, connections that are reset;
* life cycle: system calls that fail half-way, sockets closed and made again by number
  in a process that opens others, a destructor that does not wait for the thread.

`PROJECT.json` lists every such hazard at its line with the property that covers it
or the reason why none does.

## 2. Modules

* `ContactTable` - the contact list as a value, one operator per method. A map entry
  is the record it points to (records are immutable except for the activity time,
  kept in `seen`). Two operators return *sets* because the code's result is undefined:
  `CleanUps` (the loop advances an erased iterator, so any non-empty part of the
  expired contacts is unlinked) and `UpdateSockets` (the name is copied through a
  reference into the deleted record: the old name or the empty one). A cleanup or an
  update that ends in a crash is not modelled: the process stops there.
* `Directory` - what the list promises through ids: one address per id for ever, one
  id per address at a time, no id given out twice.
* `SContacts` - the list as a component under any calls and a clock; the mapping to
  `Directory` is `DirOf`. `MCSContacts` instantiates it, `SContactsProofs` proves it.
  The lemmas about the operators of `ContactTable` are in `ContactTableProofs`, which
  `SBusNodeProofs` uses as well.
* `WatchList` - what the poll list promises: append, remove the first occurrence.
* `SPoll` - the array. `removeit` moves one entry too many, so with a full array it
  reads past the end; `Garbage` is what may be found there (zero, or something that
  is no descriptor in use). `SPollProofs` proves it.
* `CPoll` - the life of a poll list around `SPoll`'s operations: creation, a `realloc`
  that fails, disposal. `spoll.c` and `SPoll.cpp` are the same code line by line; `Cut`
  and `Swept` are the loop of the destructor, which removes by position while the array
  moves. `CPollProofs` carries the proofs over and adds when it refuses a descriptor.
* `SPollRace` - the same array used by two threads, one step per read or write of a
  shared field, without growth.
* `Mailbox` - what the receiving side promises `recv`: per source in order, once, and
  one notice after everything read from an ended connection. Only the multicast socket
  may be announced as ended without having ended (`FalseAlarm`): another descriptor that
  got its number while it was made again breaks.
* `SBusNode` - one SBus: `kernel` variables (descriptor table, connections, backlog,
  datagrams), the receiving thread (`inPc`, `inMsg`), `inq`, the application thread
  (`appPc`, `appMsg`, `job`, `contacts`). It uses `ContactTable` for the contacts and
  `WatchList`'s operations for the poll list, and is mapped to `Mailbox`.
  `SBusNodeProofs` proves it.
* `FrameQueue` - what one direction of a connection promises: messages come out in the
  order they went in, each once, until the stream breaks.
* `Wire` - the numbers in a header and in a socket address: byte orders, widths and
  signs, with a byte scaled to `Base` values.
* `Stream` - one direction of a TCP connection at the grain of bytes, with the sender's
  and the receiver's socket buffers: `Send` (what the kernel takes of a frame, the rest
  forgotten by a non-blocking end or waited for by a blocking one), `Arrive` (bytes move
  from one buffer to the other), `NextMsg` (peek at the header, peek at the frame, take it
  out, all in the receiver's buffer), `Close` and `Reset` (the two ways a connection
  ends). Mapped to `FrameQueue`. `MCStream` instantiates it, `StreamProofs` proves it.
* `Naming` - several SBuses with the test program on top of each: `Start`, `SetName`,
  `Hear` (reading, queueing and processing a message as one step, with the contact
  list of `ContactTable`), `Lose`. A connection is known by who opened and who
  accepted it. `NamingProofs` proves it.
* `NetHelpers` - the helpers of `stcp.c`, `sudp.c` and `sockaddr.c` as scripts of
  system calls over a descriptor table, any call of which may fail. A script yields the
  set of its outcomes, with the descriptors it has leaked.
* `LifeCycle` - construction, repair and destruction of one SBus with those scripts,
  the receiving thread's rounds, and a process around it with descriptors of its own.
  `LifeCycleProofs` proves it.

Correspondence in `SBusNode`:

| Action | Code |
|---|---|
| `Listen` | `listenConn`, `acceptConn`; without a free descriptor `accept` fails, `recv` returns before polling and the thread is back where it was, so the action is not enabled; `acceptConn` ignores a refusing `spoll.add`, and the connection is `lost` |
| `Idle`, `Poll` = first ready of `Read` / `Drop` | the poll loop of `SMessenger::recv`, `nextMsg`, `socketErrorHandling` |
| `Remake` | `initMCast` after the multicast socket failed; its old entry stays polled |
| `Push` | `inLoop` |
| `Pop` | `SBus::recv` under the lock |
| `ProcessError`, `ProcessSelf`, `ProcessData` | the branches of `processSMsg` |
| `UserSend`, `Resolve`, `Write` | `SBus::send`, `peer2Socket`, `SMessenger::send` |
| `Connect` | `SMessenger::connect` up to `stcp_client`: the socket is open and nobody polls it |
| `Watch` | the wait of `MAX_CONN_TIMEOUT_MS` is over: `spoll.add`, then `updateSocket` |
| `Leak` | `stcp_waitConnection` or `spoll.add` fails: -1 is returned, the descriptor stays open and is `lost` |
| `McArrive`, `McBreak`, `Remote*` | the network and the other SBuses (external) |

A step is what runs without touching shared state in between: reading a descriptor
and queueing the result are two steps, and so are taking the descriptor on record and
writing to it, because the other thread may close and reuse it in between, and opening
a connection and having it polled, because the call waits in between. The
kernel gives the lowest free number, as POSIX requires. `received` and `wrote`
are observations for the properties (what `recv` returned, until the next message is
taken, and where the last unicast went), and so are `src` and `host` of a queued message,
`conn` of a `job` (the connection that is waited for), `lost` (connections left open and
unpolled) and `moved` (the multicast socket was made again and got another number;
`LifeCycle` has one, too).

Abstractions of `SBusNode`: a frame arrives whole; the poll list's operations are atomic
(not so in `SPollRace`), and an `add` that refuses leaves the list as it was (`SPoll` and
`CPoll` show when it refuses; a failing `realloc`, which empties the list, is theirs); the
`add` of a repaired multicast socket is not refused; no contact is idle for two
hours, so no cleanup happens (`SContacts` covers them); the own name does not
change; `send` to a broken connection returns an error (the code does not mask
SIGPIPE, so the process may die there instead); `initMCast` finds a descriptor;
each other SBus has its own ip and uses one client port at a time.

Correspondence elsewhere: the actions have the names of the code's functions, or are
named for the branch they stand for with the function in their comment, and
`PROJECT.json` gives the lines of each. In `LifeCycle` the thread's place (`thread`) is
`listen` (start of `listenConn`), `reopen` (the server socket is closed and not made yet),
`poll`, `remake` (the same for the multicast socket), `test` (`while(alive)`). In
`Naming` a node is `joined` between the construction of its SBus and `setName`.

Abstractions of the others. `Stream`: garbage read as a header after a partial frame
may say anything (`Anything`), bodies are only lengths, the buffers keep their size, and
the first bytes of a frame that is sent to a full send buffer may be none (`EAGAIN`, no
step). `Naming`: one step per message
(the threads and reused descriptors are `SBusNode`'s), connections are always
accepted while the other program runs, no idle contacts. `LifeCycle`: no TCP
connections; the thread's use of freed memory after destruction is reduced to what the
`alive` flag says (`Reuse` may set it again); descriptors are closed by number
whoever owns them by then. `NetHelpers`: calls that cannot fail for an existing socket
of the right kind, such as `getsockname`, do not.

## 3. Runs

| Run | Checks | Shows |
|---|---|---|
| `contacts` | `TypeOK`, `EntriesAreLive`, `FoundByAddress`, `ActiveContactsKept`, `IsDirectory` | the contact list under any calls and cleanups |
| `poll_list` | `TypeOK`, `PolledEntriesAreDescriptors`, `TailHoldsNoDescriptor`, `RefusedForAReason`, `LostSlotIsLostForEver`, `IsWatchList`, `DisposalExitsOnlyAfterLoss` | the array from creation to disposal under any calls of one thread, with failing allocations |
| `node_receiving` | `ContactsConsistent`, `WatchedExactly`, `SocketNamesSender`, `IsMailbox`, `EverythingIsRead` | an application that only receives: the order of the queue is enough to tell the old from the new owner of a reused descriptor, and every connection is come back to unless those before it in the list, or a lack of descriptors, keep the thread busy |
| `node_sending` | `TypeOK`, `ContactsConsistent`, `WatchedExactly`, `OpenIsPolled`, `IsMailbox` | all system messages, replies and a unicast; the application connects, waits or gives up while the multicast socket is made again and may get its old number |
| `naming` | `TypeOK`, `GivesUpToRival`, `UniqueWhenSettled`, `ClashesEnd` | two programs that may want one name |
| `stream` | `TypeOK`, `HeaderSurvives`, `FramesArriveIntact`, `IsFrameQueue`, `WholeFramesArrive`, `SenderNotHeldUp`, `EndIsNoticed` | framing over a connection with two small buffers that takes parts of frames and may end or be reset anywhere |
| `lifecycle` | `TypeOK`, `SocketsInPlace`, `RobsOnlyIfMoved`, `CompleteWhenCreated`, `BrokenIsReplaced`, `ThreadStops` | construction, repairs and destruction with a call that fails |
| `node_unicast` | `UnicastReachesItsPeer` is **violated** | a unicast goes to the peer that got the reused descriptor |
| `naming_three` | `ToldOnlyIfTaken` is **violated** | a program gives up a name nobody else has |
| `stream_partial` | `UnsentIsNotDelivered` is **violated** | a frame reported as not sent is delivered in part |
| `create_fails` | `CreateReturns` is **violated** | `sbus_create` throws instead of returning `NULL` |
| `poll_race` | `AddedIsWatched` is **violated** | two threads add, one descriptor is lost |

Four more configurations show defects that the list of runs leaves out, because others
rest on the same code: `MCContactNames.cfg` (module `MCSContacts`: renaming or erasing
one of two contacts of a name hides the other), `MCSocketUpdate.cfg` (`MCSContacts`: an
updated socket may cost the contact its name), `MCSPollLost.cfg` (`SPoll`: garbage copied
by a removal makes a later add fail) and `MCSBusNodeSender.cfg` (`SBusNode`: two unknown
peers share one id, the cause of `naming_three`). TLC finds each violated. A fifth one
passes and is run by hand beside `node_sending`: `MCSBusNodeFull.cfg` (`SBusNode` with
two connections and no error of the multicast socket, 858,873 states).

Bounds. `contacts`: two addresses, two names and the empty one, two sockets, four ids
and five clock values, with the idle limit and the cleanup period scaled to 1: enough
for collisions on every key, for two cleanups with something to remove, and for an
address to be entered again after it was forgotten. `poll_list`: three descriptors
(added repeatedly), capacity 2 growing by 2 up to 6, so that an array is full, shrinks,
and grows twice; the proofs cover every size. Node runs: `node_receiving` has two other
SBuses, two connections that reuse one descriptor number (the lowest free), and one
failing call or error of the multicast socket. Its messages have no end (`Endless`): at
most two are on their way or queued at a time, and the multicast ones are the node's
own, which loop back (`Heard`); so the multicast socket may be ready for ever, and the
application must go on calling `recv` for it to be. `node_sending` has one other SBus,
which is met under two addresses (its server and its client port), one connection,
opened by either side, two messages of any kind in all, one failing call or error of the
multicast socket and one send: `connect` may take the number the multicast socket had,
and messages of the old socket may still be queued when it has a new one. `naming`: two
programs, two names, one lost datagram; every order of starting, claiming and hearing,
and every way the end of one program cuts the connections. The third program of
`naming_three` is what a misdirected answer needs. `stream`: a send buffer of 2 bytes
and a receive buffer of 5, headers of 2, bodies up to 4, three frames, so that a frame
may fit, be cut in the header or in the body, be written in full and yet be larger than
the receive buffer, or wait for room behind one that is; bytes of 4 values make tags
that do and do not fit, and addresses whose bytes all differ. `lifecycle`: four
descriptors, one failing call, two errors, one descriptor of the application: the number
of a closed socket is taken by somebody else, a repair fails, both sockets break, the
table fills up.

Fairness. `FairSpec` assumes only that the receiving thread keeps running
(`WF(InThread)`): `inLoop` is a loop without exit until the SBus is disposed of, in a
thread of its own. Nothing is assumed about the application or the network. So
`EverythingIsRead` has to say what may keep the thread from a connection for ever, and
fails in the run without it: the first ready descriptor wins, so those before it in the
list, the multicast socket first of all, starve it if they are found ready again and again
(`Overtaken`); a failing `accept` ends each round before the poll (`NoFdLeft`); and a
connection the poll list refused is not looked at (`lost`).
`LifeCycle` assumes the same of its thread (`WF(InLoop)`). `Stream` assumes that the
receiver goes on reading, that the kernels move bytes to its buffer when there is room
(TCP repeats what the network loses) and let a blocked `send` go on; nothing of the
sending program. `Naming` assumes that a program that has claimed a
name goes on calling `recv` (`WF(Hear)` for each), which both test programs do in a
loop; no program has to start or claim, and a datagram arrives unless it is lost.

What the runs say about limits. Two programs that claim a name at the same time
drive each other out (`GivesUpToRival` allows it, `UniqueWhenSettled` then holds with
nobody left). A lost claim is never repeated, so uniqueness holds only without
losses. The receiver peeks for whole frames, so one that is larger than the receive buffer
is never taken out, even when it was written in full, nor is anything behind it; a blocked
sender and the receiver then wait for each other, and the end of the connection is not
noticed, as it is not when it comes inside a frame. A reset is noticed at once, and costs
the frames that were not read yet. `WholeFramesArrive`, `SenderNotHeldUp` and
`EndIsNoticed` say exactly when not. Steady multicast traffic starves the TCP connections,
a connection that `connect` gives up or `add` refuses stays open, polled by nobody, and a
`connect` may go on for a descriptor that nobody listens to: the properties of the node
name these cases. Once the multicast socket was
made again, its old number stays polled and the library may close somebody else's
descriptor; `RobsOnlyIfMoved` says that this, and destruction under the running
thread, are the only ways. A failed repair is not tried again.

## 4. What is proved

`SContactsProofs`, for every set of addresses, names and sockets and every bound
(assuming the bounds are naturals and `Null` is neither an address nor a record):

* `TypeCorrect`, `NoStaleEntries`, `AddressesIndexed` - `Spec => []...`. The inductive
  invariant is `WellFormed(contacts)`: types, `NoDangling`, `AddrComplete`, and live
  ids below `lastPeerId`. `NoDangling` alone is not inductive: that an inserted record
  overwrites no other contact's address entry needs `AddrComplete`, and that its id is
  free needs the bound on the ids. One lemma per operator (`Show`, `Touch`, `Erase`,
  `Insert`, `Unlink`), then `AddsWellFormed` and `ReplaceWellFormed` for the methods.
* `ActiveContactsAreKept`, `ImplementsDirectory` - from `StepShape`:
  a step either leaves ids and addresses alone or unlinks expired contacts and
  enters one new address under the next id.

`SPollProofs`, for every set of descriptors, capacity and growth (assuming the fd
values 0, garbage and descriptors differ):

* `TypeCorrect`, `PolledAreDescriptors`, `TailIsClean`, `LostForEver`,
  `ImplementsWatchList`. The inductive invariant says that the array is descriptors,
  then free slots, then garbage. `HoleIsNext` (an added descriptor lands right behind
  the last) depends on that order: with a free slot behind a garbage one, the polled
  part would include the garbage and miss the new descriptor.

`CPollProofs`, under the same assumptions, for the list from its creation to its
disposal: `CPolledAreDescriptors`, `RefusalHasAReason`, `CLostForEver`,
`CImplementsWatchList`. `StepShape` says that every step of the object moves the array
as `SPoll` does or leaves it alone, so the lemmas `AddKeepsIInv`, `RemoveKeepsIInv`,
`LostStep` and `WatchStep` carry over. `RefusalFindsGarbage` is new: after making room
there is a slot behind the entries, a refusal means it is not free, hence garbage, and
garbage extends to the end of the array. `RefusedForAReason` then needs this invariant
to be inductive. `DisposalIsSafe` is about the loop of the disposal, which is a recursive
function of the slot (`SweptTo`). `Least` replaces induction: a least slot at which a
claim fails follows from the library's `WFMin` and the order of the naturals. By it the
function is what its definition says (`LoopIsDefined`), and before each slot the loop has
taken out no more entries than it has passed and left those behind the list alone
(`LeftAt`), so `size` gets below zero only at the last slot (`SlotSwept`).

`SBusNodeProofs`, for any number of other SBuses, descriptors, connections and messages
(assuming `Self` is not one of the others, the bounds are naturals, there is at least one
descriptor and `Null` is no value of the system):

* `TypeCorrect`, `ListStaysConsistent`, `NothingIsForgotten` - from the inductive
  invariant `IInv`: types; `KernelOK` (one descriptor per connection, a connection in
  the backlog has none, only the multicast socket is `mcsock`); `ThreadsOK` (what each
  thread holds where it is); `OutsideOK` (a connection that is waited for or `lost` was
  taken out of the backlog or opened here, and the one waited for is at no descriptor
  but that of `connect`: no other one can hide behind the exceptions of `OpenIsPolled`);
  `TableOK` (the contact list is well formed, its ids are the first ones, no cleanup is
  due); `OpenIsPolled`. They need one another: that a read message has a source needs
  `KernelOK`, that a unicast finds its contact needs `TableOK`, and `TableOK` needs that
  there is an id left for each new address (`RoomForNewAddress`, by counting the
  addresses in use). `NothingIsForgotten` is `OpenIsPolled`: the multicast socket and
  every connection the node has are polled, except for the connection `connect` still
  waits for and those it gave up or the list refused. The server socket is no part of
  it: `listenConn` polls it by itself.
* `WatchedExactlyUnlessMoved` - from `Tidy`, which holds until the multicast socket
  changes its number: nothing in the poll list is closed, lost or waited for (`Apart`),
  no descriptor is there twice but the multicast socket, whose old entry stays, and a
  descriptor that is waited for is still the one of its `job`.
* `QueueIsMailbox` - each step of the two threads, the kernel and the others is a step
  of `Mailbox` or leaves it alone: `Posted` is what is queued or about to be, as `Packs`
  has it.
* `SenderIfNeverConnects` - `SocketNamesSender` for behaviours in which the application
  opens no connection. `SenderInv` says, per descriptor, that the queue changes its host
  only behind a notice, that its front agrees with the contact on record and its end
  with the connection that has the number now (`Traced`). With `Connect` the property is
  false: the contact is recorded under a number while messages of its last owner are
  still queued.

`LifeCycleProofs`, for any number of descriptors, failing calls, broken sockets and
descriptors of the process: `TypeCorrect`, `SocketsStayInPlace`, `RobberyNeedsAMove`,
`CreatedComplete`. One lemma per script of system calls says what it may have opened and
closed when it ends (`Made`, `Clean`, `Grown`, `Harmless`), so that no step of the
proofs looks inside a script. `SocketsStayInPlace` is about a running SBus before a call
has failed: its two sockets are what their fields say between repairs, its poll list is
the multicast socket alone, and nothing else is open. The invariant adds `InPlace`
(while the multicast socket keeps its number the list has just that number, and it and
the server's are what they should be, but for the moments of their repair),
`NothingLeaks` (without a failed call nothing else is open) and `NoThreadYet`.

`StreamProofs`, for every width of a byte, size of header, body and buffers and any number
of frames (assuming a body's length fits the positive half of a long, as `MAX_DATALEN`
does, and that addresses, ports and tags are numbers of their widths):

* `TypeCorrect`, `HeaderIsKept`, `StreamIsFrameQueue`. The arithmetic comes first:
  `SwapShort`, `SwapLong` and `SignedKeepsBits` give `HeaderRoundTrip` (what `packhdr`
  wrote is read) and `AddressRoundTrip` (the dotted form of the reported number means
  the sender's address), from the uniqueness of quotient and remainder.
* The invariant describes the whole stream, what is in the pipe (the bytes of both
  buffers, the receiver's first) and what a blocked `send` still has to write; `TypeOK`
  says that neither buffer overflows. `Contiguous`: the bytes of a frame stand side by
  side, also of one that is cut short, so bytes that are all of one frame and as many as
  it has begin with its header (`OneFrame`): garbage behind a partial frame cannot pass
  for a frame. `InOrder`: up to the first partial frame the frames lie one behind the
  other, the next one to be handed up in front. A message then is that frame
  (`NextIsIntact`), and every step is one of `FrameQueue` or none.
* `FirstFramesIntact`: what an application sees of it. Up to the first frame cut short
  the k-th message is the k-th frame sent, in length, bytes, tag and sender;
  `DeliveryInv` adds that an unbroken stream has handed up no more messages than frames,
  so a frame written later is none of those.

`NamingProofs`, assuming that the nodes are finitely many and that the descriptors and the
missing entry are told apart:

* `TypeCorrect` for any number of SBuses. The invariant `IInv` has to know who is in a
  contact list (others that have spoken, at their server's address, with no descriptor or
  that of the connection this node opened to them), where datagrams come from, and that
  only NAMETAKEN travels on connections; then every sender has a contact to be answered
  through. The facts about the list are those of `ContactTableProofs`, whose ids suffice
  because a node has two addresses.
* `GivesUpOnlyIfClash`, for any number: no program gives up unless two on the bus have
  claimed the same name. An answer is written only to a claim of the writer's own name, by
  one that was there when it was made (`AnswerMeansClash`), even when it then goes to the
  wrong one, and whoever gives up had been answered.
* `ClashesNoticed`, for any number: when everything sent has been processed, nothing was
  lost and nobody has given up, no two active programs have one name. `ClashInv` says that
  the claim of the later one is still on its way, or somebody is being told
  (`ClaimsArrive`), and that of two programs on the bus one was there when the other made
  its claim (`Met`). An answer is lost only on a connection whose other end is gone, and
  then somebody has given up (`LinksUp`). Together the two say what a bus of any size can
  rely on: a clash makes somebody give up unless a datagram is lost, and nothing else does.
* `GivesUpOnlyToRival` and `NamesUniqueWhenSettled`, for two SBuses. With a third,
  an unknown sender is looked up under the receiver's own name and the answer may go
  to somebody else, which is what `naming_three` shows; so the hypothesis `TwoNodes` is
  needed. `RivalInv` follows a name from the claim over the answer to the program that gives
  up: each stage knows a rival that was on the bus before, and a rival stays one. Uniqueness
  then is `ClashesNoticed`: of two that are both active nobody has given up.

`NoFalseAlarm` and `ClashIsNoticed`, which the two general theorems state, are in
`NamingProofs` and belong to no configuration kept here; TLC found both, and the two
invariants behind them, true of three SBuses with the constants of `MCNamingThree.cfg`
(a million states up to symmetry), and with one name and one lost datagram.

What proving changed in the models. `WatchedExactly` and `SocketsInPlace` used to be stated
without `moved`; they held in the runs only because no run had both a repair of the
multicast socket and somebody who takes its number meanwhile. The proofs stopped there:
the number stays polled although it is somebody else's, the multicast socket's new number
is polled too, and the server socket may even be made again under the watched number. The
properties now say until when they hold, `OpenIsPolled` what holds in any case, and
`node_sending` reaches the situation. `Mailbox` got `FalseAlarm` for the same reason.

Only model-checked:

* Liveness, which is outside the prover: `EverythingIsRead`, `BrokenIsReplaced`,
  `ThreadStops`, `WholeFramesArrive`, `SenderNotHeldUp`, `EndIsNoticed`, `ClashesEnd`.
* `SocketNamesSender` is proved for applications that never connect, as in the run that
  checks it.

## 5. Not modelled

* `timing.c`: arithmetic on `gettimeofday` without state. The contact list's clock is a
  variable of `SContacts`; `recv`'s deadline shows only as the choice to go idle.
* `log.c`: output only. That a `DEBUG` line evaluates its arguments, which refreshes
  contacts, is modelled in `Show`.
* `qbus.h`, `SObj.h`: declarations nothing implements.
* `stcp_isAlive`, `stcp_soerror`, `sctp_trecv`, `sudp_bcsend`, `sudp_trecv`: never called
  by the library and without effect on its state.
* In `sbus.c`, the functions that only convert arguments and call the `SBus`.
* An array reallocated by one thread while the other polls it, and freed contacts
  read after destruction: what they read is anything, and nothing is claimed of it.
* The branch of `peer2Socket` that multicasts `FIND`: it needs a contact with address
  -1, which no caller creates.

## 6. Plan

A run of `SBusNode` with cleanups, and its proofs; that needs a clock there.

## 7. Running

    tlc -config MCSContacts.cfg MCSContacts
    tlc -config MCLifeCycle.cfg LifeCycle
    tlapm SContactsProofs.tla
    tlapm CPollProofs.tla
    tlapm SBusNodeProofs.tla
    tlapm LifeCycleProofs.tla
    tlapm StreamProofs.tla
    tlapm NamingProofs.tla

`SBusNodeProofs` takes about five minutes, `StreamProofs` about two, the others less.

Definitions whose comment starts with "Mutant" are plausible bugs of the code; each
property of a passing run is violated when one of them replaces the original.
