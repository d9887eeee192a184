# BDT connections: TLA+ models, checks and proofs

BDT (`src/c`) gives peers behind NATs reliable connections. This directory models
its core in TLA+: how a connection is made (SYN, ACK, ACKACK over UDP and TCP), the
*package connection* that makes an ordered stream out of unreliable datagrams, how
it is closed, and the timers, threads and queues all this runs on. TLC checks
the models on small instances; TLAPS proves the main safety properties of each part for
all values of the constants.

## 1. Inventory

Paths are relative to `src/c/src`. `PROJECT.json` lists every component with its
sources and status, and every hazard with its line.

| Component | State | Operations | Correct when |
|---|---|---|---|
| SendQueue (`BDTCore/Connection/PackageConnection/SendQueue.imp.inl`) | flight and lost lists with byte counters, ack and stream positions, duplicate-ack counter; application buffers with a current one | AddBuffer, FillPayload, ConfirmRange, MarkRangeTimeout, PopCompleteBuffers | counters equal the lists, no unacknowledged byte is dropped, no block points into a returned buffer |
| RecvQueue (`.../RecvQueue.imp.inl`) | ack position, blocks ahead of it, latest block; receive buffers with read and end position | AddBuffer, WriteData (SavePayload, UpdateStreamPos), PopCompleteBuffers, GetAckInfo | an acknowledged byte is kept and handed over once, in order |
| PackageConnection (`.../PackageConnection.imp.inl`) | the two queues, trySendCnt, ready queue, rto, receive and close timer, close sub-state, rtt | Send, Recv, PushPackage, SendDrive, timers, Close, Reset | the two ends implement a byte stream; every callback comes once; a finished close has delivered everything |
| LedbatCc (`.../LedbatCc.imp.inl`) | window, delay samples, newAck | OnData, OnAck, TrySendAck | window stays in its bounds, an ack due is sent |
| Connection (`BDTCore/Connection/Connection.imp.inl`) | state, connector or acceptor, provider, connect callback, first answer, timers | Connect, SYN/ACK/ACKACK handlers for UDP and TCP, Confirm, TryEnterEstablish, Establish, Close, Reset, connect timeout | the result is reported once and is true; Close and Reset reach the provider; no connection stays CONNECTING |
| ConnectionManager (`.../ConnectionManager.imp.inl`) | table of connections, listeners, accept queue | add, find, remove, PreAccept | one connection per sequence |
| Tunnel (`BDTCore/Tunnel`) | tunnels of a pair of peers, builder with its waiting connections, response cache, build actions | ConnectConnection, ResetBuilder, SetCachedResponse, Build, connect/wait/timeout/cancel | a build ends, who waits for it is started |
| TimerHelper (`BDTCore/Global/TimerHelper.imp.inl`) | pending flag, sequence number, timer handle | Start, Stop, Restart | no timer leaks or is destroyed twice |
| Framework timers (`BuckyFramework/framework/timer_manager.c`) | state, handle and reference count of a timer; messages to timer threads | createTimeout, destroyTimeout, callback | no use after release, no leak, a timer fires |
| Package dispatch (`BuckyFramework/framework/thread_dispatch.c`) | per dispatch thread: package list, wakeup flag, semaphore | OnData, DispatchPackage, RecvDispatchMain | no lost wakeup, every datagram is dealt once |
| StreamConnection (`BDTCore/Connection/StreamConnection`), Interfaces (`BDTCore/Interface`) | boxes of a TCP stream, sockets | Send, Recv, Close, framing | a box is delivered whole, a close is ordered after the data |
| SnClient, History (`BDTCore/SnClient`, `BDTCore/History`) | ping and call sessions, key cache, peer history | Ping, Call, key lookup and update | a session ends once, a key in use is not evicted |
| Codec, crypto, peer info, stack, base library, statistics | values | encode, decode, hash, sign, lists | data without control state, not modelled |
| Super node server (`src/snserver`, TypeScript) | peer table, resend queue | ping, call | planned last |

How they interact. `BdtConnectionConnect` asks the tunnel container for a way to the
peer: a tunnel that works (a connector sends SYNs over UDP, or connects by TCP), or a
*builder* that tries all of them, or the wait for a builder already at work. At the other
end the SYN makes the manager add a passive connection, which is offered to the application;
`BdtConfirmConnection` answers. Whichever handler first moves the state to ESTABLISH
brings the provider: a package connection or a stream connection.

From then on a datagram reaches a socket thread, which queues it for a dispatch
thread (package dispatch). That thread runs `PackageConnectionPushPackage`: the ack
goes to the SendQueue, the payload to the RecvQueue, complete buffers go back to the
application by callbacks, and `TrySendPackage` may start a send loop on the same
thread. The application calls Send, Recv and Close from its own threads; the timers
call in from timer threads, through TimerHelper and the framework timers.

So one connection is used by application, dispatch, TCP and timer threads at once,
with fine-grained locks, atomics and unlocked reads, and this is what is hard: values
read before a lock and used inside it, several lock sections per handler, work handed
from one thread to another (trySendCnt, onNotifying, duringWakeup, the provider a
closed connection has yet to get, waitingConnections), packages that are lost,
duplicated and reordered, and timers that race the answer they wait for.

## 2. Modules

| Module | Models | State and actions |
|---|---|---|
| `SendQueueParams` | | the parameters of the send queue and their assumption |
| `SendQueue` | SendQueue.imp.inl | One variable per field of `sendContext` and `sendingBuffers`; both lists are sets of ranges `[start, end)`. One action per operation; FillPayload has two (new block, lost block). `acked` is history. The proofs are about this module. |
| `SendList` | the same code on lists | The block lists, the buffer list with its offsets, and `curr`. The loops of ConfirmRange, MarkRangeTimeout and MoveFlightToLost take one step per turn; `step` says which loop an operation is in. |
| `SendQueueList` | both together | EXTENDS `SendQueue`, INSTANCEs `SendList`: the lists move by the code, the variables of `SendQueue` show, after every operation, what the lists contain, and must follow the specification of `SendQueue`. |
| `RecvQueue` | RecvQueue.imp.inl, and the parts of PushPackage, RecvTimerCallback and NotifyRecvReadyBuffers that feed and drain it | A handler is a sequence of lock sections; `pc[t]` says where thread `t` is, `job[t]` holds its locals. A byte is represented by its position, so a misplaced copy shows. |
| `RecvList` | the block list of RecvQueue | Search from the latest block, the merge loops and the deletion of blocks with the `latest` pointer, each by where it stops and what it leaves. |
| `RecvQueueList` | both together | EXTENDS `RecvQueue`, INSTANCEs `RecvList`: every operation is done to the set and to the list. |
| `PackageStream` | one direction of PackageConnection end to end | INSTANCEs `SendQueue` and `RecvQueue`, adds the handlers, the send loop, the timers and the network. |
| `ByteStream` | what the connection promises (abstract) | written, accepted, handed and completed bytes. |
| `PackageClose` | how a package connection ends, on both sides | Close, the FIN handshake, Reset, the sends that race with them, rto, FIN and TIMEWAIT timer. A package holds one unit of the stream or none; the send queue is reduced to sets of units. |
| `TrySend` | PackageConnectionTrySendPackage | `trySendCnt` and the local `v` of each thread. |
| `PackageDispatch` | thread_dispatch.c | socket threads and dispatch threads, cut at lock, semaphore and atomics. |
| `DispatchDrive` | the two together | EXTENDS `TrySend`, INSTANCEs `PackageDispatch`: dealing a datagram asks for the send loop on the same thread, and a thread that drives deals nothing. |
| `Connection` | Connection.imp.inl, with what ConnectionManager and TunnelContainer do for it | `conn[e]` for both ends, connector, acceptor, builder slot, both networks; `pc[e][t]` says where a thread is in its call. One action per section under `stateLock` or unlocked read. |
| `TimerHelper` | TimerHelper.imp.inl | Start and Stop cut at their lock sections. |
| `FrameworkTimer` | timer_manager.c | State, handle and reference count per timer, message queue per timer thread; the callback cut where it tests and where it stores the state. |
| `TimerStack` | TimerHelper on the framework timers | EXTENDS `TimerHelper`, INSTANCEs `FrameworkTimer`: Create and Destroy of the helper are the framework's, and timer threads call the helper from inside a callback. |
| `SendQueueProofs`, `SendQueueListProofs`, `RecvQueueProofs`, `PackageStreamProofs`, `PackageCloseProofs`, `DispatchDriveProofs`, `ConnectionProofs`, `TimerStackProofs` | | theorems and proofs about the module of the same name; `RecvQueueProofs` also about `RecvQueueList`, `DispatchDriveProofs` also about `TrySend` |

`MC*` modules give the constants values. Definitions introduced by "Mutant of" are
plausible faults of the definition they name; they are in no specification and exist to
show that each property fails on a wrong version of the code.

Abstractions.
- Payload contents are positions. Send times and the rto estimate are abstracted:
  any set of blocks in flight may time out. The congestion window is at least two mtu
  (`CONGESTION_LEDBET_MIN_CWND`) and otherwise any size.
- Where the code reads a shared field before it takes the lock, the model takes any
  value the field had since, or makes the read a step of its own.
- In `SendList` a loop holds `lockSendContext`, so no operation on the block lists comes
  between two turns. The buffers have a lock of their own: in the code AddBuffer and
  PopCompleteBuffers may fall between two turns; the model has them between operations.
  AddBuffer touches nothing that a loop reads. A pop reads `ackStreamPos`
  (`PackageConnection.imp.inl:741`), which ConfirmRange raises (439) before its walk, so in
  the code it may return a buffer while blocks that the walk has yet to reach point into
  it. The walk looks at their positions only and frees every one of them, for they lie
  below the ack position, and who fills a package needs the lock that the walk holds: a
  pop in the middle is the same as one right after. `BlocksInQueuedBuffers` is therefore a
  statement about the moments when no walk is under way.
- `PackageStream` has one direction only; the reader sends nothing of its own.
- `PackageClose` joins the ack and the SACK ranges of a package into the set of units
  received. A compare and swap of the sub-state, the call of `closeTimer` that follows it,
  and the rest of the handler (`Push`, with `remoteCloseStreamPos`) are separate steps, and
  so are the firing of the FIN timer, the start of its callback (Stop and the look at the
  sub-state) and its end (Restart), and the two halves of Close and of Reset. Merged are
  - a package that moves no sub-state, with its handler: its failed compare and swaps have
    no effect, and they would fail at any later moment too, for a FIN has moved the
    sub-state once and no FINACK comes before the FIN it answers;
  - Stop and the look in the FIN callback (688, 689): if an answer is taken between them,
    the outcome is that of the merged step right after the compare and swap that took it,
    before the Stop or Begin that follows;
  - the compare and swap before a first FIN is sent and BeginFinTimer (669, 674): nothing
    can answer that FIN yet. `FinIsRepeated` holds in the code but for this instant;
  - Stop and Start of a Restart: whichever other call comes between, the timer left is the
    one that the merged steps leave in one of the two orders (`TimerStack` has them apart);
  - the Close that a FIN causes when the connection is not half open, with the compare and
    swap for the FIN: its race with other threads is that of the application's Close.
- In `Connection` the UDP network is the set of packages ever sent, which covers loss,
  repetition, delay and resending. There is one TCP connection, one passive connection
  and, of the container, only the slot of the builder. A use of a freed or NULL pointer,
  and a call of a provider that was replaced by one of the other type, may set `crashed`
  and end the execution, since nothing is known of what follows. `TryEnterConnecting`, the
  first SYN, the TCP connect, the start of a builder and its cancelling are steps of their
  own; the builder is started even when the connection had been refused. What `AckTimer`
  and `ReverseSynTimer` read without lock is a step apart from the section that follows.

## 3. Runs

State counts are distinct states. Every run takes about two and a half minutes or less on
two workers.

| Run | Checks | Bounds | Result |
|---|---|---|---|
| `send_queue` | counters, nothing forgotten, no block outside a queued buffer, lists in order, one fast retransmission per position; the lists, moved one turn of a loop at a time, refine the set view of `SendQueue` | four bytes, mtu 2, two SACK ranges, counter modulo 6 | holds, 644393 |
| `recv_queue` | order and completeness of delivery, acknowledged is stored, list and set agree; nothing is stranded when the threads are done; everything acknowledged is delivered | four payloads of six bytes, buffers of 1 and 4 bytes, two threads | holds, 66454 |
| `package_stream` | refines `ByteStream`; the writer drops only what the reader has; complete buffers have a handler that gives them back; when nothing is due on either side everything was delivered and reported, unless the lost list stalls | three bytes, mtu 2, a buffer of 2, two packages under way | holds, 487562 |
| `package_delivery` | everything is handed over and reported unless the lost list stalls | two bytes, a buffer of 1, two packages | holds, 34406 |
| `package_stall` | everything is handed over | same | **violated** |
| `package_close` | a finished close has delivered everything and called every callback; the ack position never passes the FIN; an unanswered FIN is repeated; a TIMEWAIT timer runs to its end | one end sends one unit, and may close and reset; not half open, so its FIN closes the other; two dispatch threads and the FIN timer at the first end, one thread at the other, one package under way; constraint `TwoAtWorkAlone` | holds, 2160847 (the two threads are alike) |
| `close_answered` | one of two ends that close gets the answer to its FIN | both close, no data, one dispatch thread (`EndOf`) and a FIN timer at each end, not half open, one package under way; constraint `NoFinAnswered` | holds, 25768 |
| `connection` | a closed connection is settled, the result is reported once and is true, confirmation and TCP do not miss each other, a provider is replaced only by a thread that `TryEnterEstablish` refused, CONNECTING ends unless the connection was refused | all four connectors, both ends close and reset, one dispatch thread beside the application, TCP and timer threads of each end | holds, 150883 |
| `builder_idle` | who waits for a builder waits for one at work | package and builder connectors, an SN called package added or refused | **violated** |
| `dispatch_drive` | one driver, no request forgotten, no lost wakeup; every datagram is dealt and answered by the loop | two socket and two dispatch threads, a timer and an application thread, two datagrams, four requests | holds |
| `timer_stack` | no timer lost, destroyed twice, overwritten or used without reference; a started timer fires | an application and two timer threads, two timers, three stops | holds |
| `timer_leak` | a timer nobody uses is deleted | one timer | **violated** |

Why these bounds. Four bytes with mtu 2 give buffers of less than, exactly and more
than one mtu, up to four blocks, a SACK with a gap, and partly acknowledged blocks;
the duplicate-ack threshold is 4, so a counter modulo 6 both hits it and wraps. Four
adjacent payloads are the fewest that put two separate blocks ahead of the ack
position; a buffer shorter than a payload makes a payload span buffers and be
saved in part. In `package_stream` two packages under way are enough for reordering,
since a received package stays in the network and may come again at any later time. In
`send_queue` the acks and SACKs are all those a peer could send, not just those a
RecvQueue produces; `package_stream` joins the two. In `package_close` one unit is
enough for a FIN before, with and after the data it closes, and one package under way
still arrives any number of times and is overtaken by its successors. What the sub-state and
`closeTimer` race over is two dispatch threads and a FIN timer at one end (`EndOf`,
`FinTimeouts`). Data adds nothing to that race, so two threads are at work there at a time
only while no unit was sent and no Reset called (`TwoAtWorkAlone`); one thread at a time
meets everything else. Two more searches found no violation and are too long or too
similar to keep: half open with both applications closing and one thread per end
(6459357 states, four minutes), and without data, half open, both closing, with two threads
and a FIN timer at each end (1759200 states up to the symmetry of ends and threads).
`close_answered` has the constraint `NoFinAnswered`: TIMEWAIT is left for CLOSED only and
CLOSED never, so what `SomeFinAnswered` promises is not taken back, and an execution that
violates it never leaves the constraint. In `connection` each handler that
may race is on a thread of its own; two dispatch threads were searched without SN called
packages (1210756 states, safety only), without a violation. Restart needs two threads to race,
and a third lets a start, a stop and a callback overlap.

Deadlock is checked in `send_queue` and `recv_queue`. In the others the model may
really stop: all bytes are written, delivered and reported, both ends are closed, all
timers are used, all datagrams are dealt.

Fairness.
- Threads inside a handler run on (weak fairness of their steps): no handler waits
  for anything but a mutex.
- `RecvQueue`: an armed timer fires (strong, as arriving packages may keep both
  threads busy in between; the loop serves its timers on each turn), and a payload
  that is sent again and again arrives.
- `PackageStream`: the rto timer is periodic, so blocks that stay in flight grow
  older than the rto; the application offers its buffers again, as the test nodes
  do; the network does not lose every copy of the first unconfirmed payload, nor
  every ack that is news to the writer. Without this last assumption no protocol
  delivers anything.
- `PackageClose`: the same for payloads and acks, and for the FIN at the end of the
  stream and its FINACK, which are repeated; FIN and TIMEWAIT timers fire, and a
  callback or handler that has begun goes on to its end.
- `Connection`: threads go on, the connect timeout fires once it was started, and a
  builder that was started finishes, because it has a timeout of its own. No package has
  to arrive and no application has to call anything.
- `TimerStack`: timer threads run their messages and call back timers that stay
  armed, and a thread inside Start or Stop leaves it.
- `DispatchDrive`: a thread that can run does. A dispatch thread that became the
  driver is kept as long as a request comes during every drive, so `ArrivedIsServed` is
  stated for executions where the requests run out again and again.

## 4. What the runs found

- `package_stall` (`PackageConnection.imp.inl:776`). An ack that confirms a block
  in part, or the fourth duplicate ack, moves the block to the lost list without
  confirming anything, so `SendQueueConfirmRange` returns NOT_CHANGED and the send loop
  is not started. The rto timer starts it only when a block *in flight* times out.
  With nothing in flight the lost block stays unsent until the application sends or
  closes. `package_delivery` shows that this is the only way the stream can stop.
- `timer_leak` (`timer_manager.c:163`). A timer cancelled after it was set loses one
  of two references: the other was to be released in the callback, which
  `BfxClearTimer` prevents. The timer and the reference it holds on the connection stay.
- `builder_idle` (`TunnelContainer.imp.inl:1442`). When an SN called package comes for a
  connection that is known or refused, the new builder takes the slot of the container
  but is never started. Connections that come later wait for it, without a connect
  timeout. `connection` shows that with started builders no connection waits for ever.

Facts of the code that properties name as exceptions, or that the models reach:

- Close sets CLOSING before `selfCloseStreamPos` is known, so a send turn of another
  thread may attach a FIN to an earlier position (history variable `early`), and a Send
  that checked the state before may append after it (`late`); the bytes behind are lost.
  `ClosedMeansReceived`, `AckStopsAtFin` and `ClosedMeansReported` hold for all other
  executions.
- A connection may stay in TIMEWAIT for ever, because a call of `closeTimer` that began
  before takes the TIMEWAIT timer away. `PackageConnectionFinTimerCallback` stops whatever
  `closeTimer` holds (`PackageConnection.imp.inl:688`) before it looks at the sub-state,
  and restarts it (697) long after: a FINACK or FIN handled between the firing and the
  Stop, or between the look and the Restart, loses its timer. And a dispatch thread that
  entered FIN2 (643) stops the timer later (647), when another one may have entered
  TIMEWAIT (634) and started it (638). `TimewaitKept` names these calls, a FIN callback and
  a pending Stop, as its exceptions, and says that there is no third: once neither is
  under way, the timer (or the thread about to start it) is there until the connection is
  closed. That it then fires is the fairness of timers.
- `BdtTunnel_ConnectConnection` refuses build parameters without the remote's constant
  information (`TunnelContainer.imp.inl:1176`), after `BdtConnectionConnect` has set
  CONNECTING (`Connection.imp.inl:852`). Nothing takes that back, and only the connectors
  start the connect timeout (896): the connection stays CONNECTING until the application
  closes it. `ConnectingEnds` names it (history variable `refused`).
- The last of the two ends to close may repeat its FIN to an end that is gone; hence
  `SomeFinAnswered` says "one end".
- `BdtConfirmConnection` publishes its answer before its section. It may return
  INVALID_STATE for a connection that is established, and then no callback is set;
  `ResultReported` names the case.
- `BdtConfirmConnection` calls `Bdt_ConnectionEstablishWithStream` whatever
  `TryEnterEstablish` returned (`Connection.imp.inl:2586`). When a builder connects by UDP
  and TCP at once, an ACKACK may establish the passive end with a package provider between
  the section of the confirmation and that call, which then puts a stream provider in its
  place, although the comment at the field (line 48) says the provider "must not change
  after assigned"; the old one is never released. `ProviderKept` names the case (history
  field `anyway`) and shows that nothing else replaces a provider.
- `BdtConnectionClose` and `BdtConnectionReset` take the provider's type under the lock
  (489, 553) and read its pointer later (526, 601). If the provider was replaced meanwhile
  it may be taken for one of the other type (`crashed`).
- The TCP ACK of a reverse stream is handed to `ConnectionOnTcpFirstAckPackage` with
  whatever `Bdt_GetConnectionByRemoteSeq` found, NULL for a connection that is gone
  (`TunnelContainer.imp.inl:685`); `crashed` again.
- `reverseStream.established` is never set: a reverse stream established before the
  confirmation gets no answer, and both ends run into their connect timeout.
- `BdtConnectionReset` below ESTABLISH frees the connector or acceptor and leaves the
  pointer; a SYN, reverse SYN or ACK timer, or the thread that connects, may follow it
  (`crashed`). `BdtConnectionClose` below
  ESTABLISH keeps the connector, and the SYN is resent for as long as the program runs.
- The response cache answers a SYN for a connection that is gone.
- `SendQueueFillPayload` returns a pointer into the application's buffer that is used after
  the unlock; it relies on the application keeping the buffer until its callback has run
  and no package of it is being encoded. `BlocksInQueuedBuffers` covers the queue only.
- With less than one mtu of window left and a FIN to send, the send loop
  (`PackageConnection.imp.inl:529`) sends packages without payload until the window
  opens; `Room` in `PackageClose` has this case, and it breaks no property.
- The 31 bit sequence number of TimerHelper wraps to 0, which Start takes for a refused
  start (`TimerHelper.imp.inl:41`): 2^31 stops of one timer are beyond any run.
- `ConnectionUninit` asserts CLOSED, while a close that finished leaves CLOSING; the last
  release needs the reference counts, which are not modelled.
- Restart is Stop and Start in two lock sections. When two threads restart one timer the
  second Start may reach `BLOG_CHECK(false)` (`TimerHelper.imp.inl:50`); `timer_stack`
  shows that the timer itself stays consistent.
- `_destroyTimer` may cancel a timer between the test and the store of
  `_baseTimerCallback` (`timer_manager.c:72`): FIRED overwrites CANCELED, and the timer
  fires although it was destroyed. `OwnedAndCovered` shows that the references still come
  out right.

## 5. Proofs

`SendQueueProofs` proves, for every `InitStreamPos`, `Mtu`, stream length, number of
SACK ranges and modulus above the threshold (`SendQueueAssumption`), that the
specification of `SendQueue` keeps: the types (`TypeCorrect`), the counters
(`AccountingCorrect`), disjoint blocks (`DisjointCorrect`), nothing forgotten
(`NothingForgotten`), no block outside a queued buffer (`NoDanglingPayload`), a
current buffer while bytes are unsent (`UnsentCorrect`), and one fast retransmission
per position (`FastRetransmitCorrect`). The run `send_queue` checks the same definitions
but the types on what the lists of the code contain; `SendQueueListProofs`, below, carries
them over to the lists for all constants.

The inductive invariant `IndInv` adds to these
- the order of positions, and that everything from the ack position to the end of
  the last buffer lies in a queued buffer: needed because a new block's home must
  be a buffer, and popping removes only buffers below the ack position;
- that no block lies below the ack position as a whole: without it popping could
  remove a buffer a block points into. ConfirmRange keeps it because the walk
  reaches every such block before it can stop (`CoveredIsAcked`);
- that the duplicate-ack counter is either about the present ack position or reset:
  without it a hit could go back to an earlier position.

Lengths are cardinalities of sets of positions; the lemmas `LengthSplit`,
`LengthAdd` and `LengthOne` say how they change when ranges move.

`SendQueueListProofs` proves, under the same assumption, that the lists of the code do to
their blocks what `SendQueue` says: `ListSpec` implements `Spec`
(`ListsImplementSendQueue`), so all theorems above hold of the lists, and the lists stay
in stream order (`ListsStayAscending`). No induction over lists is used: a loop takes one
step per turn, and the inductive invariant `ListInv` says how far the loop has come.
- `ListsSorted`: every list in use, the remainders that a loop has swapped out or put
  aside included, is in stream order without overlap. `SortedInsert`, `SortedRemove`,
  `SortedConcat` and the like say what each list operation does to order and contents.
- `BuffersShown`: the buffers follow one another without gap up to the stream position,
  `curr` is the first with bytes left, and those behind it are untouched.
- `WalkInv`: in the walk of ConfirmRange all blocks already taken lie before all that are
  left, each went where the verdict of `SendQueue` sends it, the two counters have moved
  by the sums of the verdicts, and the duplicate-ack hit was used at most once
  (`HitOnce`). When the loop ends, what it has taken is what `SendQueue` says the walk
  reaches: all blocks before the first one out of range, whichever list that is on
  (`WalkedIs`).
- `MarkInv`, `SpliceInv`: the blocks put aside as late are in order and are exactly those
  gone from the flight list; each is spliced behind `prev`, and everything up to `prev`
  lies before what remains to be spliced. So one pass over the lost list is enough.

`RecvQueueProofs` proves, for every first position, mtu, set of payloads, set of
receive buffers and set of threads, that the stream is handed over in order
(`DeliveryInOrder`), that what was acknowledged is kept (`AcknowledgedIsKept`), that no
block is left behind the ack position (`NoBlockLeftBehind`), that nothing is stranded when
all threads have returned (`NothingIsStranded`) and the types (`RecvTypeCorrect`).
`RecvQueueAssumption` says what the peer's send queue guarantees: payloads are not empty,
not longer than one mtu and do not overlap. The inductive invariant `RecvCutInv` adds
- what a buffer may hold (`Fits`), and that everything acknowledged, in a block, or saved
  by a thread that has yet to enter it is stored: the payload is copied under one lock and
  entered under another, so between them only the thread's package says it is there;
- `AsCut`: blocks begin where a payload begins. Only then is it enough that
  `RecvQueueUpdateStreamPos` tries the first block: a payload that reaches over a
  second one would have to have a block begin inside it. This is all the queue needs to
  know of its peer, and the only part that mentions `Segments`; `RecvInv` is the rest;
- that `latest` is a block of the list or none (`LatestIsBlock`): a SACK names it;
- that the pieces popped and not yet handed over form a chain from `readyStreamPos` to
  `readStreamPos` (`Chain`), and that what one thread popped is a run no other piece lies
  in (`Runs`): so insertion by the start of the run alone keeps the ready queue in
  order, and its head, when the right buffer is there, is the right buffer;
- that a cleared `onNotifying` means that the head has to wait (`HeadWaits`).

Where a buffer begins is written as a cardinality (`BufferBegin`), which the prover can
reason about by the lemmas on finite sets; `BeginLaid`, `Locate`, `OneHome` and
`BeginShift` are the facts all others use. By force, `RecvQueuePopCompleteBuffers` takes
buffers that are not full; `PopPositions` shows that it then takes all that holds
anything, so that what is left begins at the new read position.

`NothingIsStranded` is the safety half of "what was acknowledged is delivered". The
timer is one-shot, a pop by force takes nothing while bytes ahead of the ack position are
saved, and the ack position is read before the lock, so a pop may see an old one.
`RestInv` says why this leaves nothing behind. The byte saved furthest is acknowledged, in
a block, or about to be entered by a thread (`EndCovered`): so a forced pop that takes
nothing has a block or such a thread ahead of it. And acknowledged bytes that were not
popped have the timer armed, a block or such a thread ahead, or a thread that is to pop by
force and has read the ack position of now (`UnreadIsTimed`): when the position moved
after the thread read it, the one that moved it has armed the timer.

The same module proves of `RecvQueueList`, with the same assumption, that the list of the
code contains the blocks of `RecvQueue`, in order and with gaps between them, and that the
latest pointer points to the block it should (`BlocksAreListed`). The set joins a range
with all it touches at once. The list searches on from the latest block, or from the
front, widens the block found and then merges forwards and backwards: `SearchPlace` shows
that every block the search passes ends before the range, and so do all blocks before a
new one, wherever the search began; `MergeNextEffect` and `MergePrevEffect` that each loop
joins precisely the blocks that the range touches on its side, a run of the list because
the list has gaps; `InOrderListed` that the head of the list is the block `RecvQueue` tries
first. That all blocks lie ahead of the ack position comes from `RecvInv`.

`PackageStreamProofs` joins the two. It proves, for every first position, mtu, stream
length, number of SACK ranges, modulus above the threshold, set of receive buffers, set of
threads and network capacity (`StreamAssumption`), that the connection implements the
abstract stream `ByteStream` (`ImplementsByteStream`), that the writer drops only what the
reader has (`WriterDropsReceived`), that a complete send buffer has a handler on its way
that gives it back (`CompletionIsReported`), and that when nothing is due or outstanding on
either side and the lost list has not stalled, no send buffer is queued and everything
written was delivered (`RestIsDone`). This is the safety half of what `package_delivery`
checks: for delivery it is then enough that the two sides come to rest. Here `Segments` is
empty and nothing is assumed of payloads or acks: that payloads do not overlap and that
acks are true is proved. `PipeInv` is `IndInv` of the send queue, `RecvInv` of the receive queue, and
- `CutOnce`: of all ranges that the stream was cut into, on a list of the writer, under
  way, or in the hands of a thread, none begins inside another, and no block of the reader
  does. Payloads saved in part (`CutPrefix`), sent anew (`CutNew`) and joined
  (`CutJoined`) keep it; it takes the place of `AsCut`;
- `AcksTrue`: every position that an ack or SACK names, processed or under way, was
  received, and no ack position was ever SACKed: while the reader is at a position it does
  not have that byte, and when the byte comes the position moves past it at once. So at
  the ack position of the writer there is an outstanding block unless all is acknowledged;
- with `BuffersApart` this shows that an ack which confirms no block completes no buffer
  (`NothingCompleted`): popping only after an ack that confirmed something is enough;
- `UnsentHasDriver`: bytes that are unsent have a send loop that is due or an outstanding
  block. With the facts above a writer at rest has nothing queued (`NothingQueued`): the
  block at the ack position is never confirmed by a SACK, so while acks of it are lost it
  stays outstanding, and when nothing is outstanding the ack position is at the end. Then
  the reader's is too, with no block left (`NothingMissing`), and `RestInv` of the receive
  queue, which every step of the connection keeps (`ReaderRests`), gives the rest.

The steps of the queues are those proved about in `SendQueueProofs` and `RecvQueueProofs`;
`SendSteps`, `ConfirmStep`, `RecvSteps` and `RecvCalls` relate the two ways to name them.
For the refinement, writing is `Write`, entering a payload in order is `Accept`, a receive
callback is `HandOver`, popping complete send buffers is `Complete`, everything else is
invisible (`StepView`).

That the theorems about the send queue alone hold in a connection is a theorem as well:
`PackageStream` implements `SendQueue` (`WriterIsSendQueue`). `SendQueue` lets a peer send
any position that was sent and up to `MaxSackRanges` separate ranges above it; `AcksFit`
says that the acks under way, made by the RecvQueue of the peer and reordered by the
network, are of this kind, and `FirstAreFew` that the first blocks and the latest one do
not exceed the number of ranges.

`PackageCloseProofs` proves, for two ends, half open or not, any number of units, dispatch
threads and packages under way: an unanswered FIN is repeated (`UnansweredFinIsRepeated`),
a TIMEWAIT timer that no older call can reach is kept (`TimewaitIsKept`), a finished close
has reported every buffer (`CloseReportsBuffers`) and delivered everything
(`CloseDelivers`), and the ack position does not pass the FIN (`AckNeverPassesFin`), the
last three outside the races `early` and `late` of section 4. `CloseInv` adds what a package
under way may say: a FIN names the end of its sender's stream, a FINACK stands for all of
it, an ack for units that arrived; how the sub-state, the close position and the timers fit
together; and what a thread that has moved the sub-state finds when it goes on (`StepFits`):
who is about to start the TIMEWAIT timer finds TIMEWAIT or CLOSED, however long it waited.

`DispatchDriveProofs` proves, for any set of threads, that one thread at most is inside the
send loop (`DriverUnique`), that no request is forgotten (`RequestsKept`) and that
the count stays in its type (`TypeCorrect`). Its `IndInv` adds that a driver accounts
for at least one and at most all counted requests, and that a count above zero has
a driver: subtracting `v` then never goes below zero and reaches zero only when
nothing came meanwhile. It proves further that this stays so when dispatch
threads drive (`DriveLoopSafe`) and that no wakeup is lost (`WakeupKept`): a set wakeup
flag is backed by the semaphore or by a thread about to clear it (`WakeupUnderWay`).

`ConnectionProofs` proves that a closed connection is settled (`CloseReachesProvider`),
that the result is reported once and is true (`ResultIsReported`), that confirmation
and TCP do not miss each other (`AnswerOnItsWay`) and that a provider is not replaced
(`ProviderIsKept`), for any number of dispatch threads.
`Inv` says of every end what the thread that moved its state still has to do (bring
the provider, close or reset it, report), and which of the two threads that meet at a
confirmation has seen the other. A call that Close or Reset has decided on carries the
provider's type along, so the invariant says too that nobody has such a call under way
before there is a provider, and that the close of a connection was made, or is about to be,
on the provider it has, or will be by the thread that brings one. For `ProviderIsKept` a
second invariant is needed, `BringsAlone`: until a thread goes on although it was refused,
at most one thread of an end is between entering ESTABLISH and bringing the provider, and
none is while there is one.

`TimerStackProofs` proves that no timer is lost or destroyed twice (`NoTimerLeaks`), that
one start at most is current (`StartIsUnique`) and that references cover every use
(`TimerObjectsCovered`), for any threads and timers. `SeqFits` assumes fewer stops of one
helper than its sequence number has values, 2^31 in the code (see section 4).
`StackInv` relates the sequence number to the stops, what each thread holds to its step,
and the reference count to the owner, the messages and the timer thread that use the timer.

Only model-checked: the liveness properties, `AcknowledgedIsDelivered`,
`HandedOverUnlessStalled`, `ReportedUnlessStalled`, `SomeFinAnswered`, `ConnectingEnds`,
`ArrivedIsServed` and `StartedFires`. Fairness and ENABLED are out of the prover's reach. `NothingIsStranded` and `RestIsDone` are the safety halves of the first
three: they leave to fairness only that the queues come to rest. Every invariant and action
property of a passing run is a theorem.

## 6. Not modelled

- PackageConnection: the rtt estimate. LedbatCc: delay samples and window arithmetic;
  they choose among answers the models all allow.
- SendQueue: the block cache, `OnClose` and `FillPayloadFromOld`, which nothing calls.
- Connection: the acceptor of an SN called builder, the reference counts, and Send and
  Recv, which call the provider. ConnectionManager: listeners, backlog and accept queue;
  a second passive connection with the same sequence after the first was removed.
- Tunnel: build actions, default tunnel, keep alive.
- Framework: failures of `BfxPostMessage` and `BfxSetTimeout`, immediates, the stop flag
  of the dispatch threads, the wrappers around libuv.
- StreamConnection, Interfaces, SnClient, key manager, super node server: see the plan.
- Codec, crypto, peer information, storage, base containers and statistics are data
  layout or I/O without control state of their own. The vendored libraries (`src/c/3rd`)
  are not part of BDT.

## 7. Plan

1. `TunnelBuild`: build actions with connect, wait, timeout and cancel, and the acceptor
   of an SN called builder; a build ends and has one winner.
2. `StreamConnection`: boxes, its close and the race of Close with a pending Send.
3. `SnClient` ping and call sessions, the key manager, and the resend queue of the super
   node server.
4. Proofs for the modules of 1 to 3. Of the modules there are, every safety property
   that a run checks has a theorem; the liveness arguments wait for a prover that knows
   fairness.
