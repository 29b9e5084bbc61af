# ControllerSystem: a TLA+ verification project

ControllerSystem connects *controllers* (boxes that switch power ports and
collect access logs) to a *control center* over a small binary protocol, CMP.
This directory models its programs in TLA+, checks the models with TLC on small
instances and proves the main results with TLAPS.

Contents: 1 the system, 2 hard behaviours and correctness, 3 the modules, 4 the
runs, 5 fairness, 6 the proofs, 7 what is not modelled, 8 plan.

## 1. The system

Five C++ programs share most of their code by copying it.

| program | role |
|---|---|
| `ControlCenter` | the server (port 6607): registry of bound controllers, enquire-link monitor, requests of clients |
| `ControllerServer` | an older copy of the same server (no export-log thread, acknowledges an access log before storing it) |
| `Controller`, `ControllerAw2401` | device side: a server for local clients, a client of the center, for Aw2401 also the driver of an Areawell power strip |
| `ControllerClient` | older device side: the same, every packet through the message queue |
| `ControllerClient-Windows64/WMSClient` | a GUI that speaks CMP |

`ControlCenter` is the reference copy here; map entries name its files unless
the device side is meant.

| component | state | operations | talks to |
|---|---|---|---|
| session registry (`controlCenter/CControlCenter.cpp`) | table `controller` (id, socket_fd), `vEnquireLink` | `onReceiveMessage`, `onCMP`, `cmpBind`, `ackPacket`, `getControllerSocketFD`, `runEnquireLinkRequest` | queue (in), sockets (out), SQLite |
| socket server (`socketHandler/CSocketServer.cpp`) | listening socket, `m_nClientFD`, one thread per connection | `runSocketAccept`, `smsHandler`, `runSMSHandler`, `threadJoin` | kernel, queue |
| message queue (`messageHandler`, `objectHandler`) | one System V queue for all message types of a process | `sendMessage` (blocks when full), `run` | every thread |
| requests (`cmpPowerPort`, `cmpAccessLog`, `cmpInitial`, `cmpSignup`, `cmpMdm...`, `CSignup`, ...) | databases | one handler per command id, called by the main thread | SQLite, MongoDB, HTTP |
| CMP codec (`cmpHandler/CCmpHandler.cpp`) | none | `parseBody`, `formatHeader`, `isAckPacket` | |
| supervision (`main/main.cpp`) | `child_pid`, `flag` | fork, waitpid, restart, signals | |
| export log | `extListLog` | `printLog` (every thread), `runExportLog` | file |
| device side (`controller/Controller.cpp`) | table `device`, `vEnquireLink`, the socket to the center | client requests on socket threads, disconnects through the queue, reconnecting | center, clients, Areawell |
| Areawell driver (`areaWellHandler/CAreawell.cpp`) | UDP socket, last state of two wires | `getPortStatus`, `setPortState` | device |

Threads of a center: the main thread (`CObject::run`, every CMP request), the
enquire-link thread (every 10 s), the accept thread, the socket server's message
thread, a handler thread per connection, the export-log thread. They share the
descriptor table of the process, the SQLite connection, the vector and the
queue. The only mutex protects the hand-over of `m_nClientFD`.

## 2. Hard behaviours, and what correctness means

* **Descriptor numbers stand for controllers.** Messages, rows, the vector and
  handler threads all keep an `int`, which the kernel gives to the next
  connection as soon as *any* thread closes it. Correct: what is made from a
  message denotes the connection it came from, or a closed one (`EventOrigin`,
  `RouteToBinder`); a handler serves one connection (`OneHandlerPerDescriptor`).
* **A disconnect is only logged.** The row stays until the enquire-link monitor
  finds out. Correct: it does find out (`DeadRowRemoved`).
* **The monitor races everything**: answers in flight, new binds, closes by
  handlers, and the main thread's `erase` in the vector it is walking. Correct:
  it drops only those who owe an answer, unless that `erase` drives it past the end
  of the vector (`DropOnlyOwing`), and all of them (`SilentDropped`).
* **Accepted descriptors travel through four hands** (accept thread, queue,
  message thread, the member `m_nClientFD`) to a thread of their own, and its id
  travels back to be joined. Correct: an open number is in exactly one hand
  (`OneClaim`, `OpenIsClaimed`), an id is joined for the thread that posted it
  (`JoinOnce`), the end of a connection is announced between its messages and
  those of the next one on its number (`DisconnectLast`), the threads do not block
  each other (`NoOtherStandstill` of `SocketServer`), and nobody waits for ever
  (`AcceptedServed`, `ThreadJoined`).
* **Failures**: SQL statements fail one by one, the queue is full, peers vanish,
  the process dies and is restarted with an empty queue and table.
* **The parent must not lose its child.** It forks, waits, removes the queue and
  forks again, while signals run its handler between any two of these steps.
  Correct: it watches every live child (`ChildrenWatched`, up to those it leaves
  when they are stopped), replaces one that dies (`Replaced`), never removes the
  queue of a running service (`ServiceHasQueue`), and a signal that tells it to
  end ends both (`TermEndsBoth`).
* **TCP has no packets.** The handler takes a header with one `recv` and a body
  with another. Correct: it is never out of step with its peer (`InStep`), loses
  nothing a closing peer has sent (`NothingLost`), takes or refuses all of it
  (`Handled`), and refuses only when a segment ended inside a packet
  (`RefusesOnlySplit`).
* **Every hand on a request's way blocks.** The only thread that takes messages
  out of the queue also sends to peers, one of which may wait for the queue.
  Correct: each request gets one response, in order (`OneResponseEach`), and the
  center goes on unless a client owed a response does not read or the circle of
  main thread, controller and handler is closed (`NoOtherStandstill` and, under
  fairness, `Answered` of `Requests`).
* **The device side keeps the same numbers, on more threads.** Clients are served
  on their own threads and their disconnects go through the queue; the link to the
  center is one field that three threads write. Correct: a bound row outlives its
  connection only until its disconnect is handled (`StaleRowNoticed`), an id has
  one row (`OneRowPerId`) and a disconnect unbinds nobody else
  (`UnbindsOnlyClosed`), as far as one thread handles binds; the field never
  denotes a client, but while a failed dial has closed its number and not yet reset
  it (`LinkDenotesCenter`), never keeps a number that nobody will take out of it
  (`LinkHeld`), and the link comes back (`LinkRestored`), unless a link's receiver
  could not be created.
* **A port is set by reading four and writing four**, over a UDP socket that all
  threads share and a TCP connection nobody waits for. Correct: a set changes its
  port and no other, a read is true (`PowerStrip`), every request is answered
  (`Answered` of `PowerPort`). It holds for requests one at a time only.

`PROJECT.json` lists each hazard at its line with the properties that cover it.

## 3. The modules

### ControlCenter.tla

The session core of one center process.

| variable | in the code |
|---|---|
| `fd` | the kernel's table: which connection a number denotes |
| `peer`, `owed`, `wire` | the far end: its state, the enquiries it has not answered, PDUs not yet received |
| `tpc`, `tfd`, `ton` | a handler thread in `runSMSHandler`: where it is, its `nClientFD`, the socket its blocked `recv` holds |
| `queue` | messages of type `EVENT_FILTER_CONTROL_CENTER` |
| `job` | the main thread in `cmpBind` between its two statements |
| `table`, `older` | the rows of `controller` and the order they were inserted in |
| `vEnquire`, `epc`, `eidx`, `elist` | `vEnquireLink` and the locals of `runEnquireLinkRequest` |
| `binder`, `fresh`, `tainted` | history variables, read by properties only |

Each step of a thread between two accesses to shared state is an action:
`HandlerCall`/`HandlerReceive`/`HandlerEnd`/`HandlerPostDisconnect`/`HandlerClose`
for a handler; `OnDisconnect`, `AckPacket`, `BindDelete`, `BindInsert` for the
main thread; `EnqWake`, `EnqDelete`, `EnqClose`, `EnqClear`, `EnqSelect`,
`EnqPush`, `EnqSend`, `EnqRest`, `EnqOverrun` for the enquire-link thread. `Restart` is the
death of the process and the parent's restart.

Choices a reader should know:

* `*it` is read again by `close( *it )`, so `EnqDelete` and `EnqClose` read the
  vector separately: the main thread's `erase` between them changes what is
  closed. When `erase` moves `end()` past the iterator the loop runs over
  memory behind the vector: `EnqOverrun` deletes and closes any number, whether or
  not its connection owes anything. It is the same loop as `EnqClose`; properties of
  the loop speak of both (`DropCloses`).
* A vector operation itself is one step. `push_back` of one thread against a
  scan by another can also touch freed memory when the vector grows; that is
  not modelled.
* `close()` by another thread does not end a `recv()` that is already blocked:
  the thread keeps the socket (`ton`) and its next call uses whatever the number
  denotes then. This is how a number gets two handlers.
* Receiving a PDU, which takes a `recv` for the header and one for the body, and
  posting it is one step, taken only when the queue has room: `msgsnd` blocks, and
  between these calls the thread touches nothing that others see. Frames are whole
  here, as `Framing` justifies; short reads end like a disconnect (`PeerStop`). That
  the number changes hands between the two `recv` calls is thereby left out.
* The 10 s sleep may end at any time: nothing in the code orders it against the
  peers. `accept` may return any free number.
* A controller binds once per connection, as `Controller::connectCenter` does.
* `SELECT` returns rows in insertion order (rowid; the table has no primary key
  or index), or, when it fails, a prefix.
* Requests other than bind and enquire-link response leave all this alone; they
  are in `Requests`. Unbind is one of them: it only answers, the row stays.

### SocketServer.tla

The threads of `CSocketServer` that `ControlCenter` takes for granted: there a
connection has a handler as soon as it is accepted.

| variable | in the code |
|---|---|
| `fd`, `accepted` | the kernel's table; the connections `accept` has returned |
| `apc`, `afd` | `runSocketAccept` and its `nChildSocketFD` |
| `inq`, `exq` | the process's message queue, by message type: the server's own filter, and the center's |
| `mpc`, `marg` | `runMessageReceive`: the message it is handling and its `nId` |
| `lock`, `clientFD` | the mutex of `CThreadHandler`, `m_nClientFD` |
| `tpc`, `tfd` | `threadSMSHandler` and `runSMSHandler`, by thread id; "ended" is a thread that waits to be joined |

Choices a reader should know:

* `start()` opens the center's queue again by the same key, so both message types
  share one capacity (`Room`); `msgrcv` picks by type, each type in order. A `msgsnd`
  that fails outright, because the queue has been removed under the threads, is left
  out: that is the end of the service (`Watchdog`).
* `smsHandler` is one step: after `pthread_mutex_lock` nobody reads `m_nClientFD`
  or the mutex before the thread it creates. The new thread unlocks a mutex that
  another thread locked, which works for the default mutex of Linux.
* `pthread_create` may fail at any time, and does when no id is left. Its result
  is not looked at: the mutex stays held with the number in `m_nClientFD`
  (`HandLost`), the next accept message blocks the message thread for ever, and
  in time the accept thread and every handler block as well. The model keeps
  this; runs that exclude it say so.
* A PDU is posted in one step after its receive, as in `ControlCenter`; a handler
  ends at any time, for a closed connection and a malformed frame alike, through
  the same three steps: post the disconnect, close, post the thread's id.
* Thread ids are reused as soon as they are joined, which is what makes the join
  of a wrong one possible.
* The enquire-link thread's closes, which break the ownership stated here, are
  in `ControlCenter`. `stop()`, the UDP and the `AF_UNIX` path are not used by
  the center.

### ConnectionService.tla

The abstract specification: connections are accepted on a free number, served,
announced as gone and released, one step each; the program behind sees a single
sequence of events. No threads, no internal messages. `SocketServer` implements
it: `Stage(c)` reads a connection's stage off the descriptor table and the
thread serving it; everything between `accept` and the handler's first read of
`m_nClientFD`, and everything after `close`, is a stutter.

### Watchdog.tla

`main.cpp`: the parent (`Watching`) and the children it forks (`runService`).

| variable | in the code |
|---|---|
| `ppc` | the parent: before `fork`, before `signal`, in `waitpid`, before `closeMessage`, in `sleep(3)`, ended |
| `childPid`, `newPid` | `child_pid`, and what `fork` has returned until it is assigned |
| `flag`, `status` | `flag` of the parent; the status `waitpid` wrote |
| `installed`, `handler`, `terms` | the `signal` calls are made; `PSigHander` is in its `sleep(3)`; signals received |
| `st` | a child: before its `signal` calls (`boot`, or `heir` if it has inherited `PSigHander`; `heirkill` inside that handler), starting, serving, after `run()`, `deaf` when its main thread has ended, dead, waited for (`free`) |
| `stopped`, `report`, `cause` | the kernel's view of a child that `waitpid` reads |
| `port`, `attached` | who listens; whose `msqid` names the queue that exists |
| `turned` | history: children `waitpid` has returned for although they lived |

Choices a reader should know:

* `fork` and the assignment to `child_pid` are two steps (`Fork`, `Setup`), and the
  handler runs between any two: closing the queue is one step, killing
  `child_pid` a later one. A handler does not interrupt another.
* `signal` calls stay in force over the loop, so from the second round on a child
  starts with its parent's handler and with `child_pid` 0. `kill( 0, SIGKILL )`
  then kills the process group (`GroupKill`). For the few instructions before the
  child's own assignment `child_pid` is still that of the process the parent has just
  turned away from; a handler that ran then would kill that one, which is dead but for
  a child left when it was stopped, and is not told apart.
* A signal to a serving child has an effect only when its main thread is in
  `msgrcv` on a queue that exists: `CSigHander` sets a flag nobody reads, and
  `sleep( 5 )` after a failed receive is simply cut short (`TermServe`).
* `stopServer` ends its own thread (`StopServer`); the others keep the process.
* A pid is not given out again before its process has been waited for, nor at
  once after it (`p # childPid` in `Fork`).
* `init`, `initMessage` and `startServer` are one step, `StartFail` any failure
  of theirs. A second service cannot listen while the first does.
* After `StopServer` only a signal that cannot be caught ends a service: `Crash`.

### Framing.tla

How `runSMSHandler` cuts the octets of one connection into packets. Octets are
counted, not stored: `first[i]` is where packet i begins, `arrived` and `read` are
positions in the stream, and what a `recv` returns follows from them. `pc`, `need`
and `cur` are the handler between its two `recv` calls (`nBodyLen`, the header it
has); `taken` are the packets it answered or posted; `verdict` says how it ended
(closed, "Please use CMP to communicate", "Invalid Packet").

* A handler that reads a header where no packet starts would find anything
  (`Means`): that it never does is `InStep`, not an assumption.
* An enquiry is a header with no body: the handler answers it without reading one.
* Peers are honest about lengths, and a body fits `cmpBody`: a longer one is not
  bounded by the code, nor is `recv` returning -1 told from an end by all of it.
* The device side's copies of this loop, `runSMSHandler` of the Areawell
  controller and `runSMSSocketReceive`, are the same without the answer to an
  enquiry and without the two texts.

### Requests.tla

The requests of clients, on their way through handler threads, the queue and the
main thread of the center, and the commands it passes on.

| variable | in the code |
|---|---|
| `toCenter`, `toPeer` | a connection's messages, each way, `MaxSocket` at most |
| `hold` | `cmpPacket` of a handler, until it is posted or answered |
| `queue`, `job` | messages; the request the main thread is in, and whether it has to reply, to forward or to try |
| `asked`, `got` | requests a client has sent, responses it has read |
| `row`, `up` | a controller's row; its connection is up |
| `result`, `enquired` | a controller's link thread has a response to send; enquiries it has made |

* `cmpPowerPort` replies first and forwards then, `cmpPowerPortState` the other way
  round, all others ("other": access log, initial, sign-up, MDM, SDK tracker,
  unbind, unknown commands, and requests refused for their body) send one response.
* A controller answers a command on the thread that reads its connection
  (`LinkReceive`, `LinkRespond`), so it does not read while it cannot send.
* A connection that breaks loses what is on it; `send` to it fails. The row stays
  until `Sweep`, the enquire-link round of `ControlCenter`.
* Descriptors are not reused here; that is `ControlCenter`.

Seen on the way: the response to `power_port_state` carries a fixed text, "1111"
(`CControlCenter.cpp:390`), not what the controller answers; `mdm_operate_request`
is answered with the command id of `mdm_login_response` (573); `sdk_tracker` is
acknowledged before it is stored (486), an access log after (426).

### Controller.tla

The registry of the device side and its link to the center. Two programs share it:
in the Areawell controller (`direct`) a PDU is handled on the thread that received
it (`ServerReceive`, `ClientReceive`), in `ControllerClient` by the main thread.

| variable | in the code |
|---|---|
| `fd`, `peer`, `center`, `known` | the kernel's table, the far ends, whether the center accepts, links whose bind it has |
| `tpc`, `tfd`, `ton` | a client's handler thread, or the receiver thread of a link |
| `queue`, `job`, `device` | messages, a bind between its `DELETE` and its `INSERT`, the rows of table `device` |
| `asked`, `epc`, `todo`, `hand`, `elist` | `vEnquireLink` and `runEnquireLinkRequest` |
| `sockfd`, `dpc`, `dial` | `m_nSocketFD` of `cmpClient`, and `connectCenter` on the main and the enquire-link thread |
| `tainted` | history: numbers a thread has closed while another one served them |

* `vEnquireLink` is a bag: what the drop loop has left is `todo`. (`ControlCenter`
  keeps the order of the vector; here only which numbers can be reached matters.) An
  `erase` while the loop runs brings its iterator and `end()` one entry nearer to each
  other, whichever entry it stands on then (`Shift`); when there was none left, the
  loop misses the end and deletes and closes any number from then on (`EnqOverrun`).
* `createSocket` writes `m_nSocketFD` before `connect`, and the receiver thread learns
  its number from it when it starts. Two functions take the number out again, each in
  two steps that others get between: `socketClose( n )` resets the field and then
  closes `n` (`HandlerReset`, `HandlerClose`), `socketClose()` after a failed `connect`
  closes the number first and resets the field, whatever it holds by then
  (`DialRefused`, `DialReset`). `Resetting` names that second window, in which the
  number may already be a client's.
* `pthread_create` may fail for a link's receiver, whose result is ignored
  (`DialConnected`): `tpc` is "failed", the link stays in the field and is `Unserved`. The
  message thread that `start` creates for each link besides is never ended. It touches
  none of this and is not in the model; that they pile up is a reason for such a
  failure, which the model allows at any time.
* `tainted` marks a number that a thread has closed while another one goes by it. A
  receiver that is about to read the number from the field goes by it already
  (`GoesBy`). Properties leave tainted numbers out.
* The enquire-link thread's first round is ten seconds after its creation, by when
  the main thread has come to `connect` (`DialCheck`).
* The code ignores the results of its SQL statements. They do not fail here: not the
  `DELETE` and `INSERT` of a bind, nor the `UPDATE` of an unbind or a disconnect.
* The two `recv` calls of a packet are one step, as in `ControlCenter`.
* `EVENT_COMMAND_SOCKET_CLIENT_CONNECT`, which is logged, is left out, and so are
  requests that touch neither registry nor link.
* `cmpEnquireLink` answers the center on `m_nSocketFD`; in `ControllerClient` the
  receiver thread answers on its own number (`Answers`).

### PowerPort.tla, PowerStrip.tla

`PowerPort` is `cmpPowerPortSet` and `cmpPowerPortState` of the Areawell controller
with `sendCommand` and `setPortState`. `ports` and `writes` are the strips, `air` and
`sock` the datagrams on their way and in `udpsockfd`, `pc`, `request`, `got` and
`tries` a thread in `sendCommand`, `woken` the threads whose edge-triggered epoll
has an event, `reply` the last response. `calm` is history: requests have come
one at a time, and strips have answered in time from applied writes.

* The first datagram is taken, whoever asked for it and whichever strip it is from.
* The strip applies a write when it pleases: the code closes the connection after
  `send` and reads no HTTP response.
* `sendCommand` returns an empty string for an unknown wire, a refused `sendto` and
  after three waits of a second; then both requests are refused.
* A set whose parameters are missing gets no response at all; it is left out.
* `ControllerClient` serves these requests on its main thread, opens and closes a
  socket for each query and keeps the last of up to three answers; it is not
  modelled.

`PowerStrip` is the abstract specification: each request is served in one step. It
is what a client may believe; `StripSpec` says when it is true.

### The proof modules

`ControlCenterProofs`, `SocketServerProofs`, `WatchdogProofs`, `ControllerProofs`,
`PowerPortProofs`, `FramingProofs`, `RequestsProofs`: the theorems of section 6.

### The MC modules

`MCControlCenter`, `MCSocketServer`, `MCWatchdog`, `MCController`, `MCPowerPort`,
`MCRequests`, `MCFraming`: model values, symmetry, and the liveness properties that
name an element, for one id, number, connection, thread or process.

## 4. The runs

| run | instance | shows |
|---|---|---|
| `center_session` | 2 numbers, 2 connections, 2 ids, queue 1, SQL may fail | types; `EventOrigin`, `RouteToBinder`, `OneHandlerPerDescriptor`, `DropOnlyOwing` |
| `center_liveness` | 2 numbers, 2 connections, 2 ids, queue 1, fair | `DeadRowRemovedOne`, `SilentDroppedOne` |
| `server_handover` | 2 numbers, 3 connections, 2 thread ids, queue 3, `pthread_create` may fail, fair | types; `OneClaim`, `OpenIsClaimed`, `JoinOnce`, `DisconnectLast`, `NoOtherStandstill`; `ServiceSpec`; `AcceptedServedOne`, `ThreadJoinedOne` |
| `watchdog_restart` | 2 pids, 2 signals to the parent, children may be stopped, fair | types; `ChildrenWatched`, `ServiceHasQueue`; `ReplacedOne`, `TermEndsBoth` |
| `controller_registry` | both programs, 2 clients, 2 numbers, 1 id, queue 1, no center | types; `OneRowPerId`, `StaleRowNoticed`, `UnbindsOnlyClosed` |
| `controller_link` | the direct program, 1 client that does not bind, 2 links, 3 numbers, a center that goes and comes, `pthread_create` may fail, fair | `LinkDenotesCenter`, `LinkHeld`, `LinkRestored` |
| `power_strip` | 2 threads, 1 strip, 2 ports, 2 waits, 1 datagram and 1 write under way, fair | types; `StripSpec`; `Answered` |
| `framing_step` | headers of 2 octets, bodies of 0 to 2, 4 packets, fair | types; `InStep`, `NothingLost`, `RefusesOnlySplit`; `Handled` |
| `requests_served` | 2 clients (one reads), 1 controller, queue 1, connections of 1 message, 5 and 2 requests, 1 enquiry, fair | types; `OneResponseEach`, `NoOtherStandstill`; `Answered` |
| `center_closes_answering` | 1 number, 2 connections, 1 id | **violated**: the comment above the drop loop |
| `power_lost_set` | as `power_strip`, 2 datagrams | **violated**: "Power Port Setting Success!!" (`UndoesNothing`) |
| `requests_status` | as `requests_served` | **violated**: the command status "indicates the success or failure" (`StatusTellsOutcome`) |

Bounds. `FD`, `Conn` and `Id` are the instance; `MaxQueue` is the capacity of
the queue (8 MB in the code; what matters is that it fills), `MaxWire` the PDUs a
peer sends ahead of the receiver. In `ControlCenter` a number is reused while a
stale thread, a stale row and a queued message still go by it; two ids on two
numbers are the least where the vector has two entries, so that an `erase` can move
the iterator. A connection binds once and answers once per enquiry, so no other
counter grows; larger instances are what the theorems are for.
In `SocketServer` three connections on two numbers reuse a number while the
other is still in the hand-over, two thread ids let a handler run while another
waits to be joined, and queue 3 holds the messages of two connections on one
number with a disconnect between them, and still fills.
In `Watchdog` two pids are a child that was left when it was stopped or is to be
waited for, and the one that replaces it; `MaxTerm` 2 lets a signal find the parent
at one point of its loop and a second one at a later point. The rounds are not
bounded: pids are used again.
In `Controller` two clients bind one id from two numbers, or follow each other on one
of them, while the drop loop deletes, closes and overruns (`controller_registry`). Two
links let the receiver of an old link end while the new one is dialled and served, and
three numbers leave one for a client to be given (`controller_link`); there the client
does not bind, so nothing closes a number but the thread that serves it and a dial
that fails. Binds and the drop loop beside the link are left to the theorems, which
hold of all of it together. A link is used again once nothing refers to it, so the
center may go and come for ever.
In `PowerPort` two threads, two ports and one strip are the least for a lost set;
`MaxAir` 1 makes a query fail while the other's datagram is under way, and 2, in the
violation run, lets two sets read the same state. `Tries` 2 stands for 3.
In `Framing` a header of two octets can be split; four packets follow each other in
every combination of enquiry, empty and split body.
In `Requests` the full circle takes five commands, one in each hand and one more,
and a client that does not read is owed a second response.
Deadlock is not checked where the system may stop: a connection that was served, a
center that was told to end, a server whose `pthread_create` has failed, clients
that have asked all they ask.
The sets of `center_session` are symmetric: no definition names an element. The
runs that check liveness use no symmetry.

Two runs check a `NoOtherStandstill`. It says of a state in which no thread that has
to can take a step what TLC's own deadlock check cannot say of a system that may
stop: that everything asked for is done, but for the exceptions it names. The
predicates it is made of (`MainWaits`, `HandlerWaits`, ...) say when a thread waits,
which is when its actions are not enabled.

What the violations mean. `ClosesOnlySilent`: a controller that reconnects and is
given the number of its dead connection, before a round has removed the stale
row, is closed by that round without having been asked anything. `DropOnlyOwing`
is the part of the claim that holds: a connection that was there when the
round's requests were made is closed only if it owes an answer or has stopped, as long
as the loop has not run past the end of its vector.

`UndoesNothing`: two clients set two ports; both threads read the state before
either has written, and the second write puts the first port back. Both clients are
told of success. It also takes no more than a strip that answers late, from before
an earlier write. `StripSpec` is what holds.

`StatusTellsOutcome`: `cmpPowerPort` answers with `STATUS_ROK` and then finds no row
for the controller, or a row whose connection is gone.

Some things are in the models that no run shows as a violation.

* *The overrun.* If the main thread acknowledges an entry while the loop stands on the
  last one or has just passed it, `end()` moves past the iterator, and the loop deletes and closes
  what the memory behind the vector names, until it faults. `DropOnlyOwing` names this
  exception and says that nothing but an acknowledgement leads there.
* *The half drop.* If the main thread acknowledges an entry between the loop's
  `DELETE` and its `close( *it )`, the iterator names the next entry: the first
  connection has lost its row and stays open, never asked again, and the next one is
  closed. `DropOnlyOwing` speaks of the one that is closed.
* *Stopped children.* `waitpid` asks for stopped and continued children too, and the
  parent treats its return as the end of the child: it removes the queue under the
  stopped service and forks another. `ChildrenWatched` says that children are lost
  in this way only.
* *stopServer.* A SIGTERM to the service ends `run()`, and `stopServer` then ends the
  main thread with `pthread_exit` in its first lines. The process lives on with its
  port and a queue nobody reads; only the SIGKILL of the parent's handler ends it.
* *The process group.* A SIGTERM to a child in the few instructions between `fork`
  and `signal`, in any round but the first, kills parent and child together
  (`GroupKill`); `Replaced` allows for it.
* *A lost signal.* Between the test of the loop and the assignment of `child_pid` the
  parent's handler kills the child of the round before, or nobody, and the parent
  then waits for the new one with `flag` set. `TermEndsBoth` is about every other
  point.
* *Direct binds.* In the Areawell controller a client that is given the number of one
  that has just gone can bind before the disconnect is handled, and is then unbound
  by it; and two threads that bind one id at once can leave it two rows.
  `UnbindsOnlyClosed` and `OneRowPerId` are therefore claimed for `ControllerClient`.
* *The failed dial.* Between the `close` and the reset of `socketClose()` the number in
  `m_nSocketFD` may be given to a client, and another thread that answers the center
  sends to it. `LinkDenotesCenter` and `LinkHeld` name the window (`Resetting`).
* *The unserved link.* A link whose receiver `pthread_create` refused stays in
  `m_nSocketFD`. When the center drops it nobody notices, and the controller does not
  connect again. `LinkHeld` and `LinkRestored` name it (`Unserved`, `LinkUnserved`).
* *Gridlock.* The main thread waits for a controller to read, the controller for its
  handler to receive, and the handler for the main thread to make room.
  `NoOtherStandstill` and `Answered` of `Requests` name it (`Gridlock`), because the code has it.

## 5. Fairness

`FairSpec` assumes weak fairness of the main thread, the enquire-link thread and
each handler thread: the scheduler runs them, and a thread blocked in `recv` or
`msgsnd` is not enabled. An overrun of the vector ends in a fault, after which the
parent restarts the process. Nothing is assumed of peers, of `accept`, or of
spontaneous crashes.

`FairSpec` of `SocketServer` assumes weak fairness of the message thread and of
each handler. Nothing is assumed of peers, of the accept thread or of the main
thread: joining a thread that has posted its exit, and starting one for a queued
accept message, need neither. What needs the main thread is room in the
queue, and `msgsnd` promises no order among blocked senders; so the liveness
properties begin when the message is in the queue. A handler's `sleep(1)` ends.
`HandLost` is the exception both properties name, because the code has it.

`FairSpec` of `Watchdog` assumes weak fairness of the parent and of each child; a
stopped child is not enabled, and `sleep` ends. Signals, crashes, stops and
continues are never assumed to happen.

`FairSpec` of `Controller` assumes weak fairness of the main thread, the
enquire-link thread and each handler or receiver thread, and that a center that is
up drops a link whose enquiries go unanswered, which is what `ControlCenter` does in
every round. Clients and the center's outages are free. `LinkRestored` is checked for
the direct program: in `ControllerClient` the receiver thread needs room in the queue
to announce its end, clients that never stop sending can keep it full, and `msgsnd`
promises no order among blocked senders. It has two premises besides a center that
stays up: no thread closes a number another one goes by, and the drop loop does not
overrun its vector, which ends in a fault. Threads that were not created are an
exception it names: nothing says that `pthread_create` succeeds.

`FairSpec` of `PowerPort` assumes that threads run and waits end, `FairSpec` of
`Framing` that what is sent arrives, as TCP promises, and that the handler runs.
`FairSpec` of `Requests` assumes the threads of the center and of the controllers,
and that the clients in `Reader` go on reading; the others are free to stop.

## 6. The proofs

### The session core

`ControlCenterProofs.tla`, for all values of the constants under the four named
assumptions of `ControlCenter` (None is no id, number or connection; `Id` is
finite; the bounds are positive; SQL can succeed):

| theorem | statement |
|---|---|
| `TypeCorrect` | `Spec => []TypeOK` |
| `EventOriginHolds` | `Spec => []EventOrigin` |
| `RouteToBinderHolds` | `Spec => []RouteToBinder` |
| `OneHandlerHolds` | `Spec => []OneHandlerPerDescriptor` |
| `DropOnlyOwingHolds` | `Spec => DropOnlyOwing` |

`TypeOK` is not inductive by itself: a handler posts its number and reads from
`ton`, so `ThreadShape` (a running thread has a number, one in `recv` has a
connection) is added.

`OriginInv` is the invariant behind the next three. Its idea: a connection is
accepted under one number, for good (`tfd[c]`), so every copy of a number can be
compared with the connection it was made for. `NumberOwner`: a number in the
kernel's table denotes a connection accepted under it. `RecvOwner`: a thread
receives only from connections accepted under its own number, even when it is no
longer the first owner. `EventOrigin`, `JobOrigin` and `RowOrigin` follow the
number from the queue through `cmpBind` into the row; `UnbornIdle` gives that
`accept` disturbs none of them. `RouteToBinder` follows from `RowOrigin` and
`NumberOwner`. `OneHandlerPerDescriptor` is inductive next to them because a
`close` by a thread that is not the handler taints the number.

`DropOnlyOwing` is an action property: it speaks of the number the loop closes, which
may not be the one it deleted, inside the vector (`EnqClose`) or past its end
(`EnqOverrun`), where `Overrun` is the exception. Lemma `OverrunByAck` proves its second
half: of all steps only `AckPacket` takes the loop past the end. `MonitorInv` says nothing of positions in
the vector; it counts. `DueInv`: a watched number (open since before the round, its
peer not stopped) has no more entries than its connection owes answers, where an
answer is owed while it is with the far end, on the wire or in the queue, and one
more while the entry is in and the request is not yet out (`Pending`). Every step
then moves one unit from term to term: `EnqPush` adds an entry, `EnqSend` turns
`Pending` into a debt, a peer's answer, the handler and the queue carry it on, and
`AckPacket` takes both away. `RoundInv` says that a round begins with an empty
vector. At the close the number has an entry, so something is owed. The lemmas on
`Count` (what an append, a tail and an `erase` do to it) stand before it.

### The socket server

`SocketServerProofs.tla`, for all values of the constants under the three named
assumptions of `SocketServer` (None is no number, connection or thread; the queue
holds something; `CreateFails` is a set of Booleans):

| theorem | statement |
|---|---|
| `ServerTypeCorrect` | `Spec => []TypeOK` |
| `OneClaimHolds` | `Spec => []OneClaim` |
| `OpenIsClaimedHolds` | `Spec => []OpenIsClaimed` |
| `JoinOnceHolds` | `Spec => []JoinOnce` |
| `ServerImplementsService` | `Spec => ServiceSpec` |
| `DisconnectLastHolds` | `Spec => []DisconnectLast` |
| `NoOtherStandstillHolds` | `Spec => []NoOtherStandstill` |

`HandInv` is inductive and gives the first four. Besides `OneClaim` and
`OpenIsClaimed`, which need each other (a number `accept` returns is in nobody's
hand because it is free), it has `Shape` (what a program counter says of the
thread's number, and that the member is in use while its thread starts),
`Distinct` (an accept message occurs once in the queue), `ExitInv` (what `JoinOnce`
says, plus that a thread leaves only through its exit message) and `KernelInv` (a
connection has one number). The proof has one step per action; the lemmas on
posting, receiving and consuming messages are shared.

`ServerImplementsService` rests on `StageOf`, which turns `Stage(c)` into the
program counter of the one thread that serves `c`, and on `SameStage`, for the
steps that move no stage.

`DisconnectLast` speaks of positions in the queue. `OrderInv` adds that a queued
message's connection, if still open, is open under that number (`Owned`), that
only a thread about to close has announced an open connection
(`EndOnlyIfClosing`), and that it has done so after everything else it posted
(`ClosingAnnounced`): then `close` and `accept` preserve it.

`NoOtherStandstill` follows from `HandInv` and `JoinInv`, the converse of what
`ExitInv` says: a thread that is leaving has its exit message queued or in the message
thread's hand (without it an ended thread would be joined by nobody). If the mutex
is held and no thread is about to release it, the number in `m_nClientFD` is open
(`OpenIsClaimed`) and nobody else's (`OneClaim`): the hand is lost. A join waits only
for a thread that has still to end by itself. Otherwise the queue is empty, so there
is room for whoever posts.

### The watchdog

`WatchdogProofs.tla`, for all values of the constants under the three named
assumptions of `Watchdog` (None is no process; `MaxTerm` is a natural number;
`Stops` is a set of Booleans):

| theorem | statement |
|---|---|
| `WatchTypeCorrect` | `Spec => []TypeOK` |
| `ChildrenWatchedHolds` | `Spec => []ChildrenWatched` |
| `ServiceHasQueueHolds` | `Spec => []ServiceHasQueue` |
| `OneServiceUnlessStopped` | `ASSUME TRUE \notin Stops PROVE Spec => [](\A p, q \in Proc : Alive(p) /\ Alive(q) => p = q)` |

`WatchInv` is inductive. `ChildrenWatched` alone is not: at `Reap` one must know that
the parent holds no second pid, and at `Fork` that the pid is not one it has left
(`ParentShape`, `TurnedStay`). `ServiceHasQueue` needs it: `CloseMessage` takes the
queue from everybody, so nobody else may be serving then, which is
`ChildrenWatched` at `ppc = "clean"`. A child that has inherited `PSigHander` removes the
queue as well; `HeirAlone` says that no other child lives beside it. Lemma `Calm`
covers the steps that change no process's life, `DieCalm` those that end some.

`OneServiceUnlessStopped` is what `ChildrenWatched` leaves open: it holds whether or not
the parent is still up. Of two live children one has been left (`OneLive`, inductive
because before a fork every live child is one that was left, and nothing but a fork
makes one live), and where nobody stops a child none is left. The assumption is a
choice of environment, not of the code: with stops the statement is false.

### The controller

`ControllerProofs.tla`, for all values of the constants under the five named
assumptions of `Controller` (the names are distinct; the queue holds something;
`Direct`, `Reachable` and `CreateFails` are sets of Booleans):

| theorem | statement |
|---|---|
| `ControllerTypeCorrect` | `Spec => []TypeOK` |
| `OneRowPerIdHolds` | `Spec => []OneRowPerId` |
| `LinkDenotesCenterHolds` | `Spec => []LinkDenotesCenter` |
| `StaleRowNoticedHolds` | `Spec => []StaleRowNoticed` |
| `UnbindsOnlyClosedHolds` | `Spec => UnbindsOnlyClosed` |
| `LinkHeldHolds` | `Spec => []LinkHeld` |

`TypeOK` is strengthened by `Shape`, what program counters say of numbers. `Single`
adds to `OneRowPerId` that between `DELETE` and `INSERT` of the main thread no row
has the id, and that no other thread is in a bind. `DialInv` says who connects when:
the enquire-link thread only in the last stage of its round, and not before the main
thread's own dial is over, so that two are never under way at once; and a client never
resets the field (`NoClientResets`).
`OwnerInv` says whose a number is while it is untainted: the thread that goes by it,
and for `m_nSocketFD` the link being dialled, or its receiver, or nobody while a failed
dial is about to reset it; no receiver learns its number in that window
(`NoneLearns`). `HeldInv` says that the number of a bound row, of a
pending bind or of a queued one belongs to a client's thread that has still to post
its disconnect, or that the disconnect is queued behind it; lemma `TailEnds` says
what taking a message does to "queued behind". The main thread is the only one that
takes messages, so a disconnect posted after a bind is handled after it.

`UnbindsOnlyClosed` looks the other way: what a disconnect that *is* taken may hit.
`PlaceInv` says that a client is denoted by its own number only, and that its thread
leaves `recv` on an untainted number only when the connection has ended. `FitInv`
then follows a bind from the queue through the main thread into its row: it goes by
the number of the client that sent it, and once a disconnect with that number waits
behind it that client is gone (`Fit(k, c, f)`, by position `k` in the queue). It needs
`Single` and `OwnerInv`. `Forward` and `Onward` say once what no step takes back.

`LinkHeld` is what the field must satisfy for `LinkRestored` to be possible at all:
a number in it denotes a link that is being connected, or whose receiver has still to
reset the field, or was not created; and no link while a failed dial resets it. It is
inductive next to `DialInv` and `OwnerInv`: a link `Kept` by a dial or its receiver stays
so until the field is reset, and `connect` hands it from the one to the other, or
leaves it `Unserved`.

### The power ports

`PowerPortProofs.tla`, for all values of the constants under the three named
assumptions of `PowerPort`:

| theorem | statement |
|---|---|
| `PowerTypeCorrect` | `Spec => []TypeOK` |
| `PowerImplementsStrip` | `Spec => StripSpec` |

`CalmInv` is inductive: as long as `calm` holds, at most one thread is busy, at most
one write is pending, and every datagram and whatever the thread has read
is the state its strip will have once its write is applied. A step then maps to a
step of `PowerStrip` (`Receive` to `Begin`; `Write`, `Report`, `Refuse` and
`WriteFails` to the response) or to a stutter.

### Framing

`FramingProofs.tla`, for any header length above 0, any set of bodies and any number
of packets:

| theorem | statement |
|---|---|
| `FramingTypeCorrect` | `Spec => []TypeOK` |
| `InStepHolds` | `Spec => []InStep` |
| `NothingLostHolds` | `Spec => []NothingLost` |
| `RefusesOnlySplitHolds` | `Spec => []RefusesOnlySplit` |

`FrameInv` is inductive: packets lie end to end (`Layout`), a handler at a header is
at the start of the packet after those it has taken (`AtHeader`), one at a body has
read just the header of that packet (`AtBody`), and while no segment has ended inside
a packet `arrived` is a boundary (`Network`).

### The requests

`RequestsProofs.tla`, for all values of the constants under the named assumptions of
`Requests` (clients and controllers are different peers and `None` is nothing else;
the capacities are positive; each client has its bound of requests):

| theorem | statement |
|---|---|
| `RequestsTypeCorrect` | `Spec => []TypeOK` |
| `OneResponseEachHolds` | `Spec => []OneResponseEach` |
| `NoOtherStandstillHolds` | `Spec => []NoOtherStandstill` |

`Inv` is `TypeOK`, `Shape` (clients send requests, controllers results and enquiries,
so the main thread only ever works on requests) and `OneResponseEach`, which is
inductive next to them: it numbers the requests of a client from the response it reads
next to the request it sent last, and says which of them each hand has, so that every
step hands over the first number of one stage as the last of the next. Types and order
need each other: that a client reads no more than it asked for (`got <= asked`, in
`TypeOK`) is an instance of the order. `Queues` states the order of the queue by
positions, not by filtering the queue, since what a filter returns is an induction
over data.

`NoOtherStandstill`: with an idle main thread and an empty queue a handler that waits
holds nothing, so by `OneResponseEach` everything asked is answered (`IdleAnswered`);
a main thread that waits for a controller, with that controller and its handler
waiting too, is the circle (`PassBlocked`).

### Only model-checked

Every safety invariant, action property and refinement that a passing run checks is
proved, and is a theorem for all constants; TLC's part in those is to find out
first, and to keep the mutants honest. What stays with TLC:

* all liveness (`DeadRowRemoved`, `SilentDropped`, `AcceptedServed`, `ThreadJoined`,
  `Replaced`, `TermEndsBoth`, `LinkRestored`, `Handled`, `Answered` twice), which rests on
  fairness. Safety properties that some of it takes for granted are proved:
  `NoOtherStandstill` of both modules, `LinkHeld`;
* that `MainWaits` and its like are the negations of `ENABLED`, which the prover
  cannot state; in the model they repeat the guards of the actions they are about;
* the three properties that the runs show violated.

## 7. Not modelled

The byte layout of CMP (messages are records); logging, and the export-log thread,
which copies lines to a file from a list it shares with every thread without a lock
(`CControlCenter.cpp:760-781`); the sequence counter (`getSequence`, two threads
without a lock), whose numbers nothing in the center reads back; the contents of the
databases behind sign-up, initial data and MDM; MongoDB, HTTP and JSON handlers;
configuration files and key-value containers, which are read at start-up or local
to a request; growth of `vEnquireLink` under a reader; what the message threads that
`CSocketClient` starts for each link do (they join receivers that have ended); the Areawell broadcast, which nothing calls;
`ControllerServer`, an older copy of the center; the power ports of
`ControllerClient`; the testers and the Windows GUI, which are peers of the system.

The repository's line count is that of its vendored code: libpng, the MongoDB driver
and qrencode under `src/ControllerClient/extLibs`, and copies of cJSON. The five
programs are a few thousand lines, and they share most of those by copying;
the models follow one copy of each.

## 8. Plan

Done: the session core (`ControlCenter`), the hand-over (`SocketServer`,
`ConnectionService`), supervision (`Watchdog`), packets (`Framing`), the center's
requests (`Requests`), the device side's registry and link (`Controller`), the power
ports (`PowerPort`, `PowerStrip`). What is left, in order of importance:

1. `LinkMonitor`: the abstract monitor (asked, answered, dropped), implemented by
   `ControlCenter` as long as the vector is not overrun, and by `Controller`.
2. `SocketServer` with a close by another thread, which relates its ownership to
   the tainted numbers of `ControlCenter`.
3. `Requests` composed with the rows and numbers of `ControlCenter`, so that a
   command can meet a reused number.
4. `EnquireVector` (the vector at element level), `ExportLog`, `Codec`.

Theorems worth proving next: the steps of `LinkMonitor`, for which `MonitorInv` is the
start; for the direct program, that a row a disconnect unbinds wrongly is one whose
client bound after that disconnect was posted.
