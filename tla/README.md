# mojo-impl in TLA+

mojo-impl is a small IPC library in the manner of Chromium's Mojo. Processes are joined by
socket pairs; a process *invites* another over one of them, and *message pipes* attached to
the invitation under a name are extracted under that name by the invited process. This
directory models the library in TLA+, model-checks the models with TLC on small instances and
proves almost all of the safety properties, and the three refinements, with TLAPS for every instance.

Paths below are relative to the repository's `src/`.

## 1. The system and its parts

```
 application thread                                        IO thread (libuv loop)
 ------------------                                        ----------------------
 Core (core.cc)                                            OnFdReadable / OnFdWriteable
  |  HandleTable, InvitationDispatcher,                      |           |
  |  MessagePipeDispatcher                                   |           | writing_protocol_
  v                                                          v           |
 NodeController  <------- shared: inviter, peers, ...  NodeChannel       |
  |       ^                pending merges, invitations     On... handlers|
  v       |                                                  |           |
 ports::Node  <---------- shared: ports_, Port objects ------+           |
  |                                                                      |
  +--> NodeChannel -> ChannelPosix::Write  ------------------------------+--> socket pair
```

| component | state | operations | correct when |
|---|---|---|---|
| `ports::Node`, `Port`, `MessageQueue` (core/ports) | `ports_`, `peer_port_maps_`; per port the peer node, the peer port and a vector of messages | CreatePortPair, MergePorts, MergePortsResponse, SendUserMessage, OnUserMessage, GetNextMessage | a merged pipe has exactly two ends that know each other; messages go to the other end, at most once |
| `NodeController` (core/node_controller.cc) | inviter name and channel, `peers_`, `pending_peer_messages_`, `pending_invitations_`, `reserved_ports_`, `pending_port_merges_` | SendInvitation, AcceptInvitation, MergePortIntoInviter, ForwardEvent, the On... handlers | the handshake runs in order, once per invitation; no reserved port and no waiting request is lost |
| `NodeChannel` (core/node_channel.cc) | the channel and the remote node's name | one send operation and one dispatch case for each message | messages are dispatched by type, with the right remote name |
| `ChannelPosix`, sock_ops (core/channel_posix.cc, sock_ops.cc) | `writing_protocol_` | Write, OnFdReadable, OnFdWriteable | a FIFO of whole messages |
| `Core` and its dispatchers (core/core.cc) | the handle table; attached ports by name | attach, extract, send, accept, write, read | the API behaves as a set of message pipes |
| `HandleTable` (core/handle_table.cc) | a counter and a map under one lock | AddDispatcher, GetDispatcher | a handle is given once, also at the end of the counter, and every dispatcher can be reached |
| wire format (protocol.h, protocols/, byte_array.*, serializer.h) | a chunked byte buffer with a position | fixed and varint integers, strings, messages | decoding inverts encoding |
| `LibuvIOTaskRunnerAdapter` | the loop, its poll handles and delegates | Start, AddFdEvent, callbacks | every registered channel is served for as long as the process lives |
| `MutexLock`, `MutexLockGuard` (base/mutex.h) | a recursive pthread mutex | Lock, UnLock | regions exclude each other; no deadlock; the guarded members are never used by two threads at once |
| the rest of base/, log/ | wrappers over pthreads; output | | |

A process has two threads: the application's and the one of the event loop. They share the
controller, the node and the ports; nine mutexes guard single fields or containers, some
accesses take none, and no handler holds a lock from its beginning to its end. This, and the
fact that the two processes of a channel learn of each other's names and ports at different
times, is where the difficulty lies: what a thread reads under one lock is stale when it is
used under the next. Messages are neither acknowledged nor repeated; nothing is persisted; there
are no timeouts. `PROJECT.json` lists the places with what can go wrong at each (`hazards`).

## 2. Modules

| module | models | proofs |
|---|---|---|
| `Ports` | ports::Node, Port, PortRef, MessageQueue, as fragments of actions | |
| `NodeController` | NodeController and NodeChannel, one action per step of a handler | |
| `Core` | the API calls of Core; composes all of the above: `Init`, `Next`, `Spec`, `FairSpec` | |
| `CoreProperties` | what is claimed of Core, and the refinement mapping to `MessagePipe` | |
| `MessagePipe` | the abstract specification: ports connected pairwise for good, messages read at most once, at the other end | |
| `Handshake` | the inductive invariants of the handshake and of the waiting merges | |
| `Merging` | the inductive invariants of peers, ports, merge requests and messages | |
| `HandshakeProofs` | | `TypeCorrect`, `HandshakeCorrect`, `AcceptFirstCorrect`, `MergesCorrect`, `NoMergeForgottenCorrect` |
| `PortProofs` | | `PeersCorrect`, `PortsCorrect`, `LinkStableCorrect`, `PeerKnownCorrect` |
| `MergeProofs` | | `RequestsCorrect`, `TwoEndsCorrect`, `ReservedOnceCorrect`, `ReservedMovedCorrect`, `AnswersCorrect`, `CrashOnlyBySecondCorrect`, `CrashOnlyByTornWriteCorrect` |
| `MessageProofs` | | `MessagesCorrect`, `AddressedCorrect`, `DeliveredToPeerCorrect`, `PlacesCorrect`, `AtMostOnceCorrect`, `ImplementsPipeCorrect` |
| `ChannelPosix` | ChannelPosix and sock_ops: one direction of a channel, byte by byte | |
| `ChannelProperties` | what is claimed of ChannelPosix, and the mapping to `MessageFifo` | |
| `MessageFifo` | the abstract channel, which is what `chan` is in `NodeController` | |
| `IoTaskRunner` | LibuvIOTaskRunnerAdapter: registration, and the libuv loop turn by turn, as operators | |
| `SocketLoop` | composes `ChannelPosix` with the event loops of its two processes | |
| `ChannelProofs` | the inductive invariants of a channel and of the loops | `ChannelTypeCorrect`, `InOrderCorrect`, `DelegateSetCorrect`, `NoneAbandonedCorrect`, `LoopsCallChannel`, `ImplementsFifoCorrect`, `LoopsImplementFifo` |
| `HandleTable` | HandleTable, InvitationDispatcher and the API calls on invitations, by several threads | |
| `HandleProperties` | what is claimed of it | |
| `HandleProofs` | the inductive invariants of the table and of the calls | `TableTyped`, `HandlesNeverShared`, `HandlesReachableCorrect`, `PairsReadableCorrect`, `OnePlaceCorrect`, `LostInTwoWaysCorrect` |
| `Mutexes` | MutexLock under any threads that run any routines | |
| `LockUse` | the routines of this program: which locks each API call and callback takes, in which order, and which members it uses | |
| `Threads` | composes the two: the threads of a process | |
| `MutexProofs` | | `MutualExclusion`, `OrderedNeverDeadlock`, `LocksOrderedCorrect`, `ProcessNeverDeadlocks`, `RacesOnlyOnCorrect` |
| `ByteArray` | the chunked buffer, one operator and one action per member function | |
| `WireFormat` | typed values, containers, messages and protocols as bytes, and their way from one end of a channel to the other | |
| `WireProperties` | what is claimed of both, and the mapping to `FlatBuffer` | |
| `FlatBuffer` | the abstract buffer: one string of bytes and a position | |
| `WireProofs` | the inductive invariant of the buffer, and what each member function does to its bytes | `CoherentCorrect`, `DiesOnlyAtEndCorrect`, `FileKeptCorrect`, `ImplementsFlatCorrect` |
| `MCCore`, `MCChannel`, `MCLoop`, `MCHandles`, `MCThreads`, `MCWire` | the instances that TLC checks | |

### State and code

*Names.* A process is an element of `Node` (its random 128-bit node name), an invitation an
element of `Inv` (one socket pair and the temporary node name of its invitee, which the code
also uses as the token). A port is named after the API call that creates its pair: `<<c, 0>>`
is port0 of call `c`, `<<c, 1>>` its port1. `None` is an invalid name or a null pointer.

*Maps and lists.* Each container of the code is a function or set indexed by process:
`peers[<<n, m>>]` is entry `m` of the `peers_` of `n`, `reserved[<<n, k>>]` entry `k` of its
`reserved_ports_`, and so on; the comment at each variable names the member it stands for.

*Threads.* `io[n]` and `app[n]` say what the two threads of process `n` are in the middle of. A
handler or API call is cut exactly where the other thread can see, or change, something in
between: `OnAcceptInvitee` is `HandleAcceptInvitee` (the lock region that sets the name),
`IoSendAccept` (the answer, on `inviter_channel_` read without the lock), `IoAddPeer`,
`IoTakePending` (the swap in HandlePendingMergePort) and `IoFlush` (one request each, with
the inviter channel looked up again); `MergePorts` is two steps because
`UpdatePortPeerAddress` makes two stores and `SendUserMessageInternal` reads the two fields
without a lock (`Write`, `WriteForward`). All else in a handler is one step.

*Crashes.* `crashed[n]` records that the process has died and why: a null port looked up by
`ports_[name]`, a null channel called, an empty PortRef dereferenced, or a channel whose last
reference has gone (`~Channel` calls the pure virtual `ShutdownImpl` and the process aborts).
A dead process takes no step. How the survivors see the end of its sockets is modelled in
`ChannelPosix` only.

*Messages of a channel.* `chan[<<i, n>>]` is everything between a `Write` at one end and the
dispatch at the other. `ChannelPosix` is the detail of it. The sending thread does not matter:
all sends of a process to one channel go through one locked queue.

*Event loops.* `at[r]` says where the IO thread of a process is in `uv_run`: not started, at the
test for active handles (`alive`), at the start of a turn (`poll`), in `epoll_wait` (`wait`), making
callbacks (`turn`), or back from it for good (`returned`). The application thread registers a
socket at any of these points and without a lock, so `active` (what `uv_poll_start` has activated)
and `told` (what epoll has been given, at the start of a turn) differ: nothing wakes a loop
that is waiting. An error on a socket stops its handle and is only logged.

*Handles.* `th[t]` is the frame of thread `t`: the API call it is in, the step it is at, and its
locals. A call is cut at each region of the locks of the table, the dispatcher and the node. Calls
are named, and each happens once; `HandleMod` stands for 2^64.

*Locks.* In `LockUse` a routine is the sequence of its steps - lock, unlock, read or write a
member - and the locks held at each, which come from the `Guard`s around it. A function with
branches becomes one routine for each branch that matters; an early return is a prefix of
another routine and adds neither an order of locks nor a use of a member. `Threads` lets every
thread be in any routine it may run, at any step.

*Buffers.* A `ByteArray` is a record of its data members; its list of chunks is a sequence, a
`Node*` an index into it, and 0 the null pointer. Every loop over chunks is `Pieces`: which part
of which chunk each turn of the loop touches; the recursive functions for these loops take one
argument, a tuple, because the provers know no others. The typed operations are put together from
`write` and `read` as the code does it; sizes (128 values of a varint digit, 2, 4 and 8 bytes)
are constants, because TLC's integers do not hold 64 bits.

*History.* `nameOf`, `offeredBy`, `written` and `got` in `Core`, and `written` in
`ChannelPosix`, are read by properties only (and keep a message from being written twice).

### Abstractions

- A map operation, and the store or load of a 16 byte name, is one step, also where the code
  holds no lock; what a race does to the inside of a container, and names half written, are not
  modelled. Where such races can happen is: `RacesOnlyOn` of `Threads` (section 3). Random names
  do not collide.
- `GetInviterChannel` takes two locks one after the other; a single read gives the same
  results, because the entry of a peer is set once and the name changes only before it.
- In `Core` the application of a process is one thread, as in `test/core.cc`. It calls the API in
  any order, but attaches pipes only to its own invitations. In `HandleTable` and `Threads` it has
  several threads, and the rest of the world is left out.
- `IoTaskRunner` is about the sockets of one direction of a channel and others that become ready or
  fail; only the other ones fail. `DelFdEvent` is called by nobody.
- `ClosePort` and `SendUserMessageInternal` lack a return statement; their results are
  used by nobody, so nothing of it is modelled.
- Handlers with empty bodies (OnAddClient, OnClientAdded, OnAcceptClient, OnAcceptPeer,
  BroadcastEvent, PortStatusChanged) and messages nobody sends have no action.
- In `ChannelPosix` a socket takes a piece whole whenever fewer than `SockBuf` bytes wait, as
  Unix stream sockets do, and a header cut short announces any length, because the rest of the
  buffer is uninitialized.

- In `WireFormat` the bytes of a protocol go from encoder to decoder whole: what a socket does
  to them is `ChannelPosix`. Floats and signed numbers of fixed width are bit patterns. The
  signed overflows of the zigzag coding wrap, as they do in the `-O0` build of CMakeLists.txt;
  in that build `read` also follows the null pointer at the end of the capacity.

## 3. What is checked

All runs are complete searches. In `Core` and `HandleTable` each call, message and invitation
happens at most once, so the instances bound themselves; the reader of `ChannelPosix` stops after
the first message that is not one; the threads of `Threads` run for ever. Applications may stop at
any time, so only `locks` has TLC check for deadlock.

| run | instance | shows |
|---|---|---|
| `pair` | A invites B; 3 calls, 2 names, 2 messages; fairness | `TypeOK`; a process dies only of a torn write (`CrashOnlyByTornWrite`); a message is read at the other end of the port it was written to (`DeliveredToPeer`), is addressed to it or, torn, to the old peer (`Addressed`), and is nowhere twice (`AtMostOnce`); a merged port stays merged (`LinkStable`); `Core` implements `MessagePipe` (`ImplementsPipe`); extraction always ends in a connected pipe (`MergeCompletes`), messages arrive (`Delivered`), unless a process dies |
| `triangle` | A invites B and C, B invites C | an attached port is always in exactly one place (`ReservedOnce`); a port is never pointed at a process that is not a peer, so `pending_peer_messages_` stays empty (`PeerKnown`); the order of the handshake (`AcceptFirst`) and its inductive invariant (`HandshakeInv`); no merge request stays behind when the inviter changes (`NoMergeForgotten`, `MergesInv`) |
| `star` | A invites B twice and C, same pipe name | merges join two ports, of the right invitation (`TwoEnds`); a missing inviter channel and a channel without references are met only after a second invitation (`CrashOnlyBySecond`), by B when it accepts it and by A when B is its peer already |
| `stream` | 3 messages, no call of send or recv split; two event loops, one with another socket | the callbacks never find the delegate missing (`DelegateSet`); a loop never leaves a socket that it watched (`NoneAbandoned`), calls each back again and again (`ServedForGood`), and so provides the fairness that `ChannelPosix` assumes (`FairnessKept`); the channel implements `MessageFifo` (`ImplementsFifo`), and everything written arrives (`DeliveredByLoops`) |
| `split` | one byte at a time, 3 bytes of buffer | types, and no message twice or out of order (`InOrder`) |
| `buffer` | chunks of 3 bytes, at most 3 of them; contents below one varint digit | the buffer behaves as a flat string of bytes (`ImplementsFlat`), position and pointer agree (`Coherent`), a null pointer is followed only at three known places (`DiesOnlyAtEnd`), files are written and read (`FileKept`, in the cases that work); every typed value is read back, from any place of any buffer (`CodecsInvert`), and so is every short message (`MessageKept`) |
| `handles` | 2 threads, 6 calls, 2 names, 3 handles | `ApiTypeOK`; no handle is given twice (`HandlesDistinct`); every dispatcher is known to the application except those of core.cc:86 (`HandlesReachable`); every pair has an end in the table (`PairsReadable`); an attached port is in one place (`OnePlace`), and is lost in two ways only: the second call of `TakeAttachPorts`, and an extraction that gets no handle (`LostInTwoWays`) |
| `locks` | an application thread, and one in any call or callback; 2 channels | the regions of a lock exclude each other (`Exclusive`); no threads wait for each other (`NoDeadlock`); only eight members are used by two threads at once (`RacesOnlyOn`) |

Each property is broken by at least one plausible bug in the code, written down as an operator
next to the definition it changes ("A bug to try") and listed under `mutants`.

The eight members of `RacesOnlyOn` (`Unguarded`): `ports_`, `peer_port_maps_`, the peer address and
the message queue of a port, `inviter_channel_`, `pending_invitations_`, `delegate_map_` and the
`handles_map_` of the runner. Of each the run reaches a state with two threads about to use it, one
of them to write. Every other member, those marked `GUARDED_BY` in
node_controller.h:119-133 and node_channel.h:105 included, is safe.

**Bounds.** The hazards of `Core` need at most two processes on one channel, a second invitation
for a conflict of roles or a change of inviter (`triangle`), a name conflict (`star`) or a repeated
invitee (`star`, `double`); two calls on the inviter's side and one extraction, or two, on the other;
two messages, so that one can overtake the other. One inviter to a process, invited
once (`pair`), is the intended use of the API. `CrashOnlyByTornWrite` and
`ReservedMoved` do not hold beyond it: with a second invitation of one process a channel can lose
its last reference or the inviter channel be missing, in the ways that `CrashOnlyBySecond` names and
run `star` reaches, and reserved ports can be lost (below); section 4 has the hypotheses
(`OneInviter`, `InvitedOnce`) under which they are proved. Two calls of one process are
interchangeable, and so are two invitations of it by the same inviter; `triangle` and `star` make
use of it.

In `ChannelPosix` a header of 2 bytes and contents of 0 to 2 stand for 11 and any; `LenMod` stands
for 65536. In `stream` the second socket is enough for a loop to be busy, waiting or stopped
apart from the channel, and its runner to be started before, between and after the registrations.
In `handles` three handles are exhausted by four calls, and the counter goes round to the invalid
one. In `locks` two threads are enough: a race is
between two, and that locks are taken in one order (`LocksOrdered`), which is about each thread alone, is
proved, and with it the absence of deadlock among any number (`OrderedNeverDeadlock`, section 4). Two
channels are there because `handles_map_` and `delegate_map_` belong to no channel.

In `buffer` one write reaches into three chunks, every place in a chunk is a possible beginning and
end, and the values of `CodecsInvert` are those around each change of length and the extremes of
each width; a chunk of 3 bytes, a digit of 4 bits and numbers of 5 and 10 bits keep what matters of
4096, 7, 32 and 64: messages span chunks, and the largest numbers do not fill their last digit. No
message of the instance ends with an empty string at the end of a chunk, as none does with the real
sizes (contents of 24 and 36 bytes).

**Fairness.** `FairSpec` of `Core` has weak fairness of each channel's handler, of the rest of
a handler once begun, and of the rest of an API call once begun. A libuv loop polls every
descriptor on each turn, the callbacks are level-triggered and run to their end, and no step waits
for another process. No fairness is given to API calls: nothing makes an application call.
`Fairness` of `ChannelPosix` adds that `Start` follows the creation of a channel, as it does in
SendInvitation and AcceptInvitation. That the callbacks of a channel are fair is not taken on
trust: `SocketLoop` assumes only that a thread inside `uv_run` goes on (`LoopFairness`), and
`FairnessKept` says that the rest follows for loops that run. A runner that is started before its
process has a socket returns at once, and nothing is ever delivered; the premise of
`FairnessKept` and `DeliveredByLoops` (`LoopsRun`) excludes this, as test/core.cc does: it
starts the runner after the channels exist (:62, :92). A loop that has begun to watch a socket is
not left that way (`NoneAbandoned`).

### Disagreements found

- `double`: when a process is invited twice by the same inviter and ports of the first
  invitation are still reserved, the `emplace` at node_controller.cc:237 does nothing and the
  `erase` at :242 drops the second invitation's ports.
- `partial`: a message that arrives in two pieces is handed over incomplete; the result of
  `Recvn` is ignored (channel_posix.cc:66), against channel.h:19-20.
- `long`: received contents are wrapped as a string before they are decoded, and one byte is
  skipped for its length (channel.h:71); contents of 128 bytes or more have a length of two. A
  user message of 92 bytes or a pipe name of 104 arrives as garbage, against protocol.h:37-38.
- `wide`: `ReadFixBufFromSocket` takes the 32-bit content length as `uint16`
  (channel_posix.cc:63), against protocol.h:50.

The end of the file does the same as `partial`: `OnFdReadable` then dispatches a message made
of uninitialized memory (channel_posix.cc:39), over and over, since the socket stays readable.

## 4. What is proved

For every value of the constants that satisfies the assumptions: any number of processes,
threads, invitations, calls, names, messages, sockets and locks. Repeated and mutual
invitations, and several inviters of one process, are included.

| theorem | statement | assumes |
|---|---|---|
| `TypeCorrect` | `Spec => []TypeOK` | `PortsAssumption`, `InvitationAssumption`: names of different kinds differ, `None` is no map of attached ports, nobody invites himself |
| `HandshakeCorrect` | `Spec => []HandshakeInv` | the same |
| `AcceptFirstCorrect` | `Spec => []AcceptFirst` | the same |
| `MergesCorrect`, `NoMergeForgottenCorrect` | `Spec => []MergesInv`, `[]NoMergeForgotten` | the same |
| `PeersCorrect`, `PortsCorrect` | `Spec => []PeersInv`, `[]PortsInv` | the same |
| `PeerKnownCorrect`, `LinkStableCorrect` | `Spec => []PeerKnown`, `LinkStable` | the same |
| `RequestsCorrect`, `TwoEndsCorrect` | `Spec => []RequestsInv`, `[]TwoEnds` | the same |
| `ReservedOnceCorrect`, `ReservedMovedCorrect` | `InvitedOnce /\ Spec => []ReservedOnce`, `ReservedMoved` | the same, and `InvitedOnce`: no process invites another one twice |
| `AnswersCorrect` | `Spec => []AnswersInv` | `PortsAssumption`, `InvitationAssumption` |
| `CrashOnlyBySecondCorrect` | `Spec => []CrashOnlyBySecond` | the same |
| `CrashOnlyByTornWriteCorrect` | `OneInviter /\ Spec => []CrashOnlyByTornWrite` | the same, and `OneInviter`: no two invitations have the same invitee, and no two processes invite each other |
| `MessagesCorrect`, `PlacesCorrect` | `Spec => []MessagesInv`, `[]PlacesInv` | the same |
| `AddressedCorrect`, `DeliveredToPeerCorrect`, `AtMostOnceCorrect` | `Spec => []Addressed`, ... | the same |
| `ImplementsPipeCorrect` | `Spec => ImplementsPipe` | the same |
| `ChannelTypeCorrect`, `InOrderCorrect` | `Spec => []TypeOK`, `[]InOrder` of `ChannelPosix` | `ChannelAssumption`: lengths and sizes are numbers |
| `ImplementsFifoCorrect` | `WholePieces /\ Spec /\ [](Len(sock) < SockBuf) => ImplementsFifo` | the same |
| `LoopsCallChannel`, `LoopsImplementFifo` | `LoopSpec => Spec`, and the above for `LoopSpec` | also `RunnerAssumption`, `LoopAssumption`: the ends are in different processes |
| `DelegateSetCorrect`, `NoneAbandonedCorrect` | `LoopSpec => []DelegateSet`, `[]NoneAbandoned` | the same |
| `TableTyped`, `HandlesNeverShared` | `ApiSpec => []ApiTypeOK`, `[]HandlesDistinct` | `TableAssumption`, `LocalsAssumption`: there is a valid handle, `None` is no record, map or name |
| `HandlesReachableCorrect`, `PairsReadableCorrect`, `OnePlaceCorrect`, `LostInTwoWaysCorrect` | `ApiSpec => []HandlesReachable`, ..., `LostInTwoWays` | the same |
| `MutualExclusion` | `MutexSpec => []Exclusive` | `MutexAssumption`: the regions of each routine nest |
| `OrderedNeverDeadlock` | `MutexSpec => [](LocksOrdered => NoDeadlock)` | the same |
| `LocksOrderedCorrect`, `ProcessNeverDeadlocks`, `RacesOnlyOnCorrect` | `Process /\ MutexSpec => []LocksOrdered`, `[]NoDeadlock`, `[]RacesOnlyOn` | the same |
| `CoherentCorrect`, `DiesOnlyAtEndCorrect`, `FileKeptCorrect` | `WireSpec => []Coherent`, `[]DiesOnlyAtEnd`, `[]FileKept` | `BufferAssumption`: chunks have a size, bytes are numbers, `Junk` and `Crash` are not (strings of) bytes |
| `ImplementsFlatCorrect` | `WireSpec => ImplementsFlat` | the same |

### Core

The proofs build on each other, each with the invariants before it as facts:

```
TypeOK -> HandshakeInv -> PeersInv -> PortsInv -> RequestsInv -> TwoEnds --+
  |           |                          |             |                   |
  |       MergesInv, AcceptFirst         |        AnswersInv, JoiningInv   |
  |                                      |          -> CrashOnlyBySecond   |
  |                                      |          -> CrashOnlyByTornWrite
  |                                  PeerKnown, LinkStable,                v
  |                                  KeptInv -> ReservedOnce, ReservedMoved |
  +------------------------------------> MessagesInv -> PlacesInv -> ImplementsPipe
                                              |             |
                                  Addressed, DeliveredToPeer   AtMostOnce
```

*TypeCorrect* is an induction with one lemma per action; `TypeOK` is inductive by itself.
`HandshakeInv` and `MergesInv` are also invariants of run `triangle`; most of the others mention all of
`Nat` and are only proved.

*AcceptFirst* says that the inviter gets AcceptInvitation before anything else on a channel, and
once. It is not inductive: why can the application thread of the invitee not send a
RequestPortMerge first, and why is the answer of OnAcceptInvitee, sent on
`inviter_channel_` after the lock was left, on the right channel although the application may
have accepted another invitation meanwhile? `HandshakeInv` answers both. Every
invitation is in one of five phases (`Unsent`, `Offered`, `Answering`, `Answered`, `Done`), and
the phase fixes what the channel carries. Nobody sends on a channel before it is in his `peers_`
map (`CanUse`), which it enters only after the answer. And replacing an inviter channel that is
not a peer's yet destroys the channel and kills the process (`AcceptedAlive`): a process
that lives on while it handles an offer still holds the channel the offer came from
(`HandlesOffer`). The proof has one lemma per action; steps outside the handshake share
`OutsideStep`, steps of another invitation's handshake share `OtherHandshakes`.

*NoMergeForgotten* follows from `MergesInv`: once the IO thread has passed
`HandlePendingMergePort`, the inviter's channel is a peer's and the waiting list is empty,
and since `MergePortIntoInviter` tests the channel under the lock of the list, nothing is
added any more. It needs `HandshakeInv` for the step that makes the inviter a peer: the channel
stored is not null.

*PeerKnown and LinkStable.* An address is read without a lock between any two steps of the other
thread, so both need to know every state in which an address can be. `PeersInv`: an entry of
`peers_` is the channel with that process at its other end, the `remote_node_name_` of a channel
is a peer's or is about to become one, and the invitee knows the inviter before the inviter hears
of it. `PortsInv`: the pair of a call is not there (`Fresh`), a pair (`Paired`), between the two
stores of `MergePorts` (`Half`, which says what the IO thread has in its locals), or `Joined` to
an end that *matches* it: extracted, under the same name, by the invitee of the invitation
it was attached to. Everything that can lead to a merge - a request waiting, flushed, sent; a
reserved port; an answer on its way; the two stores themselves - is about ends that match. The
inviter's end is joined first, and the extracted one when the answer arrives, so an end is pointed
anywhere only once.

*TwoEnds* further needs that no third port points at either end, that is, that the request of an
extracted end is granted once. `RequestsInv` lists where such a request can be (with the application
thread, in `pending_port_merges_`, with the IO thread that flushes it, in a channel, granted) and
says that it is in one of these only and there once.

*ReservedOnce, ReservedMoved* hold while no process invites another one twice (`InvitedOnce`);
`double` is the counterexample otherwise. That a port is in no two places follows from `PortsInv`;
that it is in one needs `KeptInv`: it is attached, reserved under the temporary name or under the
invitee's, extracted or used up (`SomePlace`), and a temporary entry stands for an offer that was
sent, an entry under the invitee's name for one that was answered (`KeysInv`). So when
`OnAcceptInvitation` moves the temporary entry, `emplace` finds no other one under the real name,
and `erase` drops nothing. The hypothesis is used only there.

*CrashOnlyBySecond, CrashOnlyByTornWrite.* A process dies in one of six places. Of five of them it is
shown that they are not reached, or only after a second invitation:

- `OnResponsePortMerge` finds the peer of the connector (`PeerThere`): a request that is not yet
  granted is not yet answered, the answer to a granted one is in one place, and the pair of ports that
  it is about stays whole until it is taken (`AnsweredOnce`); a whole pair has its entry in
  `peer_port_maps_` (`WholePairs`). Together these are `AnswersInv`.
- `OnRequestPortMerge` answers a peer (`AskerThere`, from `PortsInv`).
- `OnAcceptInvitation` adds a peer that is new, unless there is a second channel with the same
  process that is in use already (`NewPeer`, `TwoChannels`). Then `AddPeer` keeps the old channel, and
  the new one is destroyed under the handler.
- `Core::AcceptInvitation` replaces an inviter channel, and the flush of the waiting merges misses the
  inviter, only in a process that has accepted two invitations (`AcceptsSecond`, `InviterThere`,
  `AcceptedTwo`): who knows an inviter has accepted an invitation, and who handles an offer knows the
  inviter while he has accepted no second one (`JoiningInv`).

None of this has a hypothesis on the invitations. What was accepted stays accepted, and a channel in use
stays so (`SecondKept`), so that the reason holds for good. `CrashOnlyByTornWrite` is what is left
when no process is invited twice and none invites its inviter (`OneInviter`, `NoSecond`):
`OnUserMessage` for a port that was erased after the writer had read its name, between the two stores
of a merge.

*Addressed, DeliveredToPeer* follow from `PortsInv` and from what a writing thread has read
already: the port of the peer it read is the present one or, when the IO thread has made its
two stores meanwhile, the sibling (`WritingInv`), and its message does not reach the queue of a
port that is not the other end (`ArrivedInv`). *AtMostOnce* is the analogue of `RequestsInv` for
messages (`PlacesInv`).

*ImplementsPipe* maps a pair of joined ports to two ends connected with each other and the
place of a message (`InOnePlace`) to its state in `MessagePipe`. Each action of `Core` is one
action of `MessagePipe` or changes nothing that it sees; `StatesMean` says what each state of a
message means in terms of `written`, `got` and its places.

### Channel and loops

*InOrder.* `OrderInv` orders the bytes, not the protocols: everything in the socket or in the
buffer of `Recvn` was sent in an order that agrees with the order of the `Write`s (`SendOrder`,
`StreamOrder`), although `GiveUp` drops the rest of a protocol, and what was handed over is older
than all of it (`ReadOrder`). Once a protocol that is not one was handed over nothing is claimed
(`StopsBroken`).

*ImplementsFifo* holds under hypotheses that the code does not ensure: every protocol fits into one
piece and its length into 16 bits, the writer does not exit (`WholePieces`; without them
`partial` and `wide` have counterexamples), and a socket that is writable has room for a piece
(`[](Len(sock) < SockBuf)`; without it `GiveUp` drops the rest of a protocol). Run `stream` is an
instance of them. `Laid` gives the place in the socket at which each protocol begins that was sent
and not yet read, and `WholeInv` says that written, queued, sent and delivered protocols make up
one sequence.

*DelegateSet, NoneAbandoned.* `LoopInv` orders the sets that the application thread and the loops
grow without a lock: told to epoll, activated, registered, with a delegate. `LoopsCallChannel` says
that the loops make only calls that `ChannelPosix` allows, so that what is proved of
`ChannelPosix` holds of `SocketLoop`.

### Handles

*HandlesNeverShared* is not inductive: a thread has taken a handle from the table, and not yet
returned it, while others go on. `HInv` adds that a valid handle in a frame is in the table and
neither returned nor in another frame (`HandlesHad`), that the frames are consistent with the
steps they are at (`FramesOK`), and that while the counter is valid nothing is entered at or above
it (`NextFree`): `AddDispatcher` finds the entry of the counter free until the counter has gone
round to the invalid handle, and gives none after that.

*HandlesReachable, PairsReadable.* `CallsInv` says what a call has in its locals at each step, that
it is one thread's, and has no result before it ends; with it both are inductive (`TableInv`).
*OnePlace.* `EndsInv`: the end of a pair is in one of five places, and in none while its call has
not ended. *LostInTwoWays* is an action property: each action takes the end from a place to the
next one, but for the two of the property.

### Locks

*MutualExclusion.* The owner of a mutex alone does not tell how often it was locked, and a routine
may lock what it has already. The invariant `MInv` (types, and `Owned`: a thread owns just the locks
that its routine holds at its position) is inductive because the regions nest.

*OrderedNeverDeadlock.* In a set of threads that all wait for each other take the one that
waits for the lock of least rank. The owner of that lock, in the set too, has it and waits for
another one, which must rank lower. The least element is a fact about natural numbers
(well-founded induction), the rest `MInv`.

*LocksOrdered, RacesOnlyOn* are about the routines of this program (`Process`): the API calls and
callbacks of `LockUse`, with any channels and threads of which at most one runs callbacks.
`Good(s, n, H)` says of a sequence of steps that it takes only locks of rank below `n`, in order,
and uses every member that is not in `Unguarded` under its lock, or one in `H`. It is compositional:
`\o` keeps it, and a region of a lock turns what is good inside of it into what is good outside
(`GoodConcat`, `GoodGuard`). One lemma per level of the code goes up to the API calls and the
callbacks. `remote_node_name_` has no lock: the callbacks are good with a stand-in for one,
which only the IO thread has.

### Buffers

A whole buffer (`Whole`) has typed chunks, its position, size and capacity in order, the capacity that
of its chunks, and the pointer of the chunk of its position. Every call on one is described by its
bytes (`ByteAt`), whatever chunks they are in: `addCapacity` keeps them (`AddedCapacity`), `write`
puts a string over them (`Written`), `read` returns some (`HasRead`). `WireInv`, that the buffer is
whole and died only where it may, is then inductive, and the refinement compares bytes.

*DiesOnlyAtEnd.* Three calls follow a null pointer. `read` of no bytes at the end of the capacity looks
into the chunk before it tests the length (byte_array.cc:375). `writeToFile` of a rest of one chunk
at most from inside a chunk takes off the place in the chunk although the rest ends before the
chunk does (:461): the pieces are too short or negative, and the loop goes on, mostly off the last
chunk. And `getReadBuffers` from a position cuts the length to what is left behind the
buffer's *own* position (:578) but counts the chunks off to the position it is given, without a test
(:587-605): one that is so far behind the own position that the buffers end beyond the capacity runs
into the null pointer behind the last chunk, and so does one beyond the capacity itself. From other
calls the capacity saves the walk: what they touch is in chunks that are there (`ReadBuffersAlive`,
`ReadBuffersAtAlive`, `WriteBuffersAlive`, `StringAlive`, `BehindAlive`). Buffers from a position that end
beyond the size, but not beyond the capacity, cover bytes that were never written; `FlatBuffer` promises
nothing of them, as of calls that die and of files.

What lies between is the loop over chunks. A *run* is a sequence of pieces within their chunks, each
beginning at the address where the one before it ends (`IsRun`). `Pieces` makes a run from every place
to every other one up to the capacity (`PiecesAre`); so what is gathered from it, or scattered over it, is
contiguous, and the pointer after it is that of the place where it ends (`GatheredRun`, `ScatteredRun`,
`CoveredRun`, `RunLast`). `readFromFile` writes part after part, and by induction what it has written is
the beginning of the string (`FileRead`).

The prover has no induction scheme over an operator, so the inductions are about sets: a set of
numbers with 0 and with all successors of its elements is `Nat` (`NatSets`, from well-foundedness).
Nor does it know that a recursively defined function exists: for each loop, `FlattenSeq` and
`FoldLeft` included, it is shown by the same induction that there is a function that satisfies the
equation (`WalkExists`, `SeekExists`, `FileExists`, `FlatExists`, `IterExists`).

### Model-checked only

- The codecs (`CodecsInvert`, `MessageKept`) of `WireFormat`: digits, prefixes and containers are
  inductions over numbers and values of every type. `MessageKept` is false for long messages (`long`).
- Liveness under fairness (`MergeCompletes`, `Delivered`, `ServedForGood`, `FairnessKept`,
  `DeliveredByLoops`), for which the prover has no ENABLED.

`MutexAssumption`, that the regions of the program's routines nest, is evaluated by TLC in run
`locks`, for two channels.

## 5. Not modelled, and the plan

What can still be proved: that the
routines of `LockUse` nest, as `Good` is proved of them; `CodecsInvert`, digit by digit.

Not modelled:

- `MessageQueue` step by step. `RacesOnlyOn` shows that `push_back` on the IO thread and `back`,
  `pop_back` on the application's can happen at once; what a vector does then is undefined, and a
  model of it would be one of the library.
- Several application threads against the handshake of other processes: `Core` has one to a
  process, `HandleTable` has several and no other process.
- `DelFdEvent`, `OnLibuvFdClose` and `Close` of the runner, `Shutdown` and the destructor of a
  channel, `AssertLocked` and `holder_` of `MutexLock`: called, or read, by nobody.
- `Thread`, `Condition`, `CountDownLatch` and the atomics of base/: wrappers whose
  implementation is a prebuilt library; one thread is started with them.

`WireFormat` leaves out AcceptPeer (sent by nobody), toHexString, `read` from a position that is
not the buffer's own (called by nobody; `getReadBuffers` from one is modelled), and the containers of serializer.h:33-37 that the code
does not have (list, tuple). writeToFile goes wrong when a rest of one chunk at
most begins inside a chunk (byte_array.cc:461); `FileKept` is about the other cases, and `DiesOnlyAtEnd`
names this one.

Left out for good: log/ (output; its implementation is a prebuilt library), the process helpers of
base/, the event-buffering functions of Port, AcceptPeer and Shutdown of NodeChannel (called by
nobody), and what a delegate does with a garbled message.

## 6. Running

```
tlc -config MCPair.cfg MCCore          # likewise MCTriangle, MCStar
tlc -config MCStream.cfg MCLoop
tlc -config MCSplit.cfg MCChannel
tlc -config MCBuffer.cfg MCWire
tlc -config MCHandles.cfg MCHandles
tlc -config MCThreads.cfg MCThreads
tlc -config MCDouble.cfg MCCore        # a counterexample; likewise MCPartial, MCWide with MCChannel,
                                       # MCLong with MCWire
tlapm HandshakeProofs.tla; tlapm PortProofs.tla; tlapm MergeProofs.tla
tlapm MessageProofs.tla; tlapm HandleProofs.tla; tlapm ChannelProofs.tla; tlapm MutexProofs.tla
tlapm WireProofs.tla
```

The longest searches (`triangle`, `pair`, `handles` and `buffer`) take one to three minutes.
