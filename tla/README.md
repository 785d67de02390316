# Formal verification of libstream

TLA+ models, TLC model-checking runs and TLAPS proofs for libstream, the openDAQ
library of byte streams over TCP, Unix domain sockets, websockets and files.
Source paths below are relative to the repository root.

## 1. The system

libstream wraps boost asio and boost beast behind one interface, `Stream`. An
application makes a client stream or receives one from a server, initializes
it, reads through its buffer and writes to it. Everything asynchronous runs as
handlers on an `io_context`. The library has no locks: it relies on the
application to run the context on one thread and to call from there.

| Component | State | Operations | Talks to |
|---|---|---|---|
| `Stream` (`src/Stream.cpp`) | `m_buffer`, `m_initCompletionCb` | `asyncRead`, `read`, `asyncReadSome`, `readSome`, `consume`, `copyDataAndConsume` | the subclass's `(async)ReadAtLeast`; the application's read callback |
| `TcpStream`, `LocalStream` | `m_socket` | `asyncReadAtLeast`, `readAtLeast`, `asyncWrite`, `write`, `asyncClose`, `close` | asio's composed reads and writes |
| `TcpClientStream` | resolver, `m_connectTimer`, timeout, `m_initCompletionCb` | `asyncInit`, `init`, handlers `onResolve`, `onConnect`, `connectTimeoutCb` | resolver, timer and socket through queued handlers |
| `LocalClientStream` | endpoint name | `asyncInit`, `init` | socket |
| `TcpServer`, `LocalServer` | acceptor, `m_newStreamCb` | constructor (binds and listens), `start`, `stop`, accept handler | acceptor; the application's new-stream callback |
| `TcpServerStream`, `LocalServerStream` | - | `asyncInit` (answers in place) | the server's accept handler |
| `WebsocketServer` | two acceptors (IPv4, IPv6) | `start` (opens, binds, listens), `stop`, `onAccept`, `onUpgrade` | acceptors, beast's upgrade, new-stream callback |
| `WebsocketClientStream` | websocket, resolver, one timer for two phases | `asyncInit`, `init`, `onResolve`, `onConnect`, `onUpgrade`, `asyncTimeoutCb`, close | as TcpClientStream, and beast |
| `WebsocketServerStream` | shared websocket | `asyncInit`, reads, writes, close handshake | beast |
| `FileStream` | file handle | `asyncInit`, `init`, reads, writes, close | the file system |

What is hard here, and seldom reached by the tests in `test/`:

* **Queued handlers.** Asio completes an operation, queues its handler and runs
  it later. A `cancel()` or `close()` in between changes nothing for it. Timer,
  connect, upgrade and accept handlers all meet this.
* **One buffer, several parties.** `asyncRead` looks at `m_buffer`, asks the
  socket for the missing part, and is answered later; meanwhile the application
  may consume, the peer may write in small pieces, close or break.
* **State that outlives an attempt**: an open but unconnected socket, a timer,
  an acceptor that a failed `start` left open, the one stored callback.
* **Loops that must go on**: an accept loop lives only as long as each handler
  starts the next accept, past exceptions and stops from inside the callback.

Properties that make each part correct:

* *Stream*: bytes come once, in order and none is lost; a read that waits lacks
  data; success means the data is there; end of file hides nothing; every read
  that can be answered is.
* *Client streams*: one answer per initialization, always one, the truth; every
  connect and upgrade watched by a timer; nothing left behind.
* *Servers*: exactly one accept loop per listening acceptor; `stop` ends it;
  nobody waits behind somebody else's failure.
* *Closing a websocket*: the peer learns of it and gets everything written before;
  the close is answered, also by a dead peer.
* *A session over several connections*: a reconnect costs the tail of a connection and
  nothing else; a reader is served or told the end.
* *Files*: a reader gets the file in order and whole, what was written stays, and every
  descriptor has an owner.

The list of hazards with the line each bites at is in `PROJECT.json`.

## 2. Plan

Most important behaviour first. All steps are built.

1. `ByteChannel` (abstract) and `Stream` with a TCP or Unix socket under it.
2. `StreamProofs`: type, order, truth of the answers, refinement of `ByteChannel`.
3. `TcpClientStream` and `TcpClientStreamProofs`.
4. `TcpServer`, `WebsocketServer`: accept loops, restart, upgrade beside the loop.
5. `WebsocketClientStream`: one timer for two phases.
6. `LocalClientStream` (overlapping initializations) and `FileStream` (opening and
   reopening, a reader beside a writer).
7. `WebsocketClose`: both ends of a websocket from the first message to the end of
   the closing handshake, with dead peers and the reduced timeout.
8. `LocalSession`: the composition of an accept loop, the streams it gives away and
   a client that reconnects on a buffer that is not empty.
9. `LocalSessionProofs`, `WebsocketServerProofs`: the accept loops,
   the composition as an implementation of `TcpServer`, and `NoGaps`.
10. `WebsocketCloseProofs`, `WebsocketClientStreamProofs`, `LocalClientStreamProofs`,
   `FileStreamProofs`: the remaining invariants and action properties.
11. `Initialization` (abstract), one answer per call: the three client streams implement it.

## 3. Modules

| Module | Models | Role |
|---|---|---|
| `ByteChannel` | - | abstract: what was delivered is a prefix of what was sent |
| `Initialization` | - | abstract: each initialization is answered with one code, once and at last |
| `Stream` | `Stream.cpp`, `TcpStream.cpp` | one direction of a connected stream |
| `TcpClientStream` | `TcpClientStream.cpp`, close of `TcpStream.cpp` | initialization of a TCP client |
| `WebsocketClientStream` | `WebsocketClientStream.cpp` | initialization of a websocket client |
| `LocalClientStream` | `LocalClientStream.cpp`, close of `LocalStream.cpp` | initialization of a local client |
| `FileStream` | `FileStream.cpp` | a writing and a reading stream on one file |
| `TcpServer` | `TcpServer.cpp`, `asyncInit` of `TcpServerStream.cpp` | accept loop |
| `WebsocketServer` | `WebsocketServer.cpp` | two accept loops and the upgrades |
| `WebsocketClose` | `WebsocketServerStream.cpp`, reads, writes and closes of `WebsocketClientStream.cpp` | an upgraded connection and its closing handshake |
| `LocalSession` | `LocalServer.cpp`, `LocalServerStream.cpp`, `LocalStream.cpp`, `LocalClientStream.cpp` | extends `TcpServer`: the loop, its streams and a client that reconnects |
| `XProofs` | - | theorems about `X` and their proofs, for every `X` above but two: `LocalSessionProofs` holds those of `TcpServer` as well, and the modules of `Stream` and of the client streams hold the refinements of `ByteChannel` and `Initialization` |
| `MC*` | - | one per specification, for TLC; each `.cfg` gives the bounds |

### Stream

The k-th byte the peer's socket accepts is the number k, so order, loss and
repetition are visible. `wire` is what the two kernels hold, `staged` what an
asynchronous read has received but whose handler has not run, `m_buffer` the
`streambuf`, `consumed` (history) everything the application took.
`asyncRead`/`read` are `Read(blocking, size)`, `asyncReadSome`/`readSome` are
`ReadSome(blocking)`: the first disjunct of each is the early answer from the
buffer, the second calls `(async)ReadAtLeast` with `Missing(size)`. Asio's
composed read (`transfer_at_least`) is `Receive`, `OnRead`, `ReadFails`: it
receives, commits, and starts over until `min` bytes have come. `readCb` is the answer whose
callback runs in that step; every other action clears it, so an invariant about
`readCb` speaks of the moment of the callback. Blocking calls take the thread
(`Free`): only the peer and the kernel act meanwhile. A `consume` during a read is
allowed or not by `ConsumeWhilePending`. `copyDataAndConsume` has the caller's duty as guard
("No check whether enough is available", `Stream.hpp:90`).

### TcpClientStream and WebsocketClientStream

`pending` holds operations that wait, `ready` the queued handlers with their
result. Completing moves an operation from one to the other; a cancel or close
does so with "aborted" and leaves `ready` alone. No order is assumed between
queued handlers: asio promises one only within a strand, and the code uses none.
Host and port are abstracted; a resolver finds or does not find the host, a
connect succeeds, is refused, or stays pending for ever. The timeout is a
`TimerExpires` at any moment after it was set. `asyncInit` on an open socket
either runs its completion at once (`dispatch` from the context's thread) or
queues it. `m_initCompletionCb` holds the number of the call whose callback is
stored, `result` what each call was answered. `struck` (history) holds the calls
whose timeout has closed the socket.

In the websocket client the lowest layer (`socket`) and the websocket
(`m_stream`) are separate: `is_open()` asks the latter, so a failed attempt can be
repeated. The two waits for the one `m_asyncOperationTimer` are told apart as
`connectTimer` and `upgradeTimer`, so that a stale handler of the first can meet
the second. A close is one step here; what it is made of is `WebsocketClose`.

### LocalClientStream

Built like `TcpClientStream` without resolver and timer. The handler of a connect
is the callback itself, bound by value (`BoundCb`), so initializations may overlap:
a close and a new `asyncInit`, or a new `asyncInit` alone, while connects wait or
their handlers are queued. Only the completion on an open socket uses
`m_initCompletionCb`; whether a later call may overtake such a queued
completion is the constant `OvertakesDispatch`. `outcome` (history) is how the
connect of each call ended, to be compared with what its callback was told (`result`).

### FileStream

One file with two streams on it, "writer" (`writable`) and "reader". `Initialize`
is `init` with its error paths: an open stream returns at once, `::open` creates,
empties or fails, `assign` takes the descriptor over or leaves it to nobody
(`assignFailed`, history). `asyncInit` is `init` and a dispatched completion. A read of a
file does not wait, so `ReadAtLeast` is one step. `descriptors` counts what the
process holds, `truncated` and `taken` (history) let the reader's bytes be compared with the file.

### TcpServer

`accepts` counts the waiting asynchronous accepts, `failures` the queued handlers
of failed ones, `client[k] = "accepted"` is a queued handler of a successful one. The
accept handler with all it calls (new stream, its `asyncInit` in place, the
application's callback with its exception swallowed, the next
`startTcpAccept`) is `OnAccept`; `OnAcceptStops` is the same when the callback
stops the server. `NewStream` stands for the `asyncInit` of the new stream, which answers in place and
never fails, and for what the application does with it: it keeps the stream or throws, as
`endPointUrl()` and `remoteHost()` do when the client is gone already. An accept may fail
at any time (`AcceptFails`), which ends the loop for good; `broken` (history) remembers it. `CloseStream` is the
application's close of a stream it was given; `LocalServer` is the same code on another
acceptor (next section).

### LocalSession

`LocalServer`'s actions are those of `TcpServer` beside unchanged streams. The "clients"
of that module become the successive connections of one `LocalClientStream`:
`connection` is what `m_socket` holds, `wire[k]` what the server has written to
connection k and the client has not received, a byte is a pair of connection and number. The
client's read is the one of `Stream`, without the early answers: `Receive`
takes a part of the wire, `OnRead` is the queued handler, which commits whatever
connection the socket has by now. `ClientCloses` empties the socket
and leaves `m_buffer` and a queued handler alone, as the code does. `lastTaken`
(history) is the last byte the application consumed. Every step is a step of
`TcpServer` or leaves it alone, which is proved.

### WebsocketServer

Per address family: the acceptor ("open" is opened but not bound), its waiting
accepts and failed handlers. `Start` goes through IPv4 and then IPv6 as the code
does: an acceptor that does not open is skipped, a failing `bind` throws and ends
`start`. The upgrade (`Upgrades`) is the client's and may never come.
An accept may fail on an acceptor that listens (`AcceptFails`), for instance when clients that
are silent in their upgrade have used up the descriptors: `onAccept` returns and the loop of that family ends.
`broken` (history) holds the families this has happened to since `start` bound their
acceptor; both properties of the loops say what holds until then.

### WebsocketClose

Two ends, "client" and "server", run the same code. `status` is that of beast's
stream, `wire[e]` the frames e has sent and its peer has not processed, `unsent` an
outstanding write and so beast's write lock. `RequestClose` is `asyncClose` and
`close` up to beast's call: the reduced handshake timeout is set first. beast sends
the close frame behind the outstanding message (`SendClose`), discards messages while it
waits for the frame of the peer (`DiscardMessage`), and either the close or a
read meets that frame (`FinishClose`). A peer sees a close frame only in a read
and replies in it (`ReplyClose`). `TimerExpires` exists for asynchronous closes only:
beast's timeouts do not watch blocking calls. `Dies` is a process that ends or a host
that hangs, after which its peer may learn nothing. `told`, `closeEc`, `written`,
`received` (history) hold the answers and what they are compared with.

## 4. Runs

| Run | Shows | Bounds |
|---|---|---|
| `stream_safety` | order, no loss, no over-waiting, true answers, refinement of `ByteChannel`, with consumes during a read | 5 bytes, requests up to 3, wire of 2 |
| `stream_live` | success finds the data when nobody consumes during a read; every answerable read is answered | 4 bytes, requests up to 3, wire of 2 |
| `tcpclient_safety` | implements `Initialization` with its fairness (answered once and always), watched connect, nothing left, failures true | 3 initializations |
| `tcpclient_timeout` | counterexample: expired timer and finished connect queued together | 1 initialization |
| `tcpclient_retry` | counterexample: retry after a refusal | 2 initializations |
| `wsserver` | a started server listens; it is served until an accept fails, and again after a restart, through failed binds and leftover handlers; until then no client is held up by another | 2 clients, 3 starts, accept errors |
| `wsclient` | both phases watched, implements `Initialization` with its fairness, nothing left | 2 initializations |
| `localclient` | overlapping initializations are each answered once with their own result; implements `Initialization` with its fairness | 4 initializations |
| `file` | the reader gets the file without gaps, end of file hides nothing, only opening a closed writer loses data, no descriptor leaks while `assign` works | 3 bytes, 4 initializations |
| `session` | one accept loop, ended by stop, every client served; bytes of successive connections without gaps; no reader left waiting | 3 connections, 2 bytes each, requests up to 2, accept errors |
| `wsclose` | the end of the stream hides no message, a close without error has delivered, an asynchronous close is answered, a reading peer hears of it | 2 messages each way, requests up to 2, wire of 1 |
| `wsclose_blocking` | counterexample: the blocking close towards a dead peer | 1 message, wire of 1 |

Why the bounds are enough: a request of 3 over a wire of 2 needs two receptions
with a write in between, and 5 bytes leave room for a buffer with surplus before
and after it. Three client calls let a handler of the first be queued in the third.
Three connections of a local client fill every place of the accept loop at a stop:
one accepted and queued, one in the backlog, one yet to come. Two bytes of a connection and a request of two
let a read go on in the next connection, which is how bytes of two meet in a buffer.
Two messages over a wire of one let a close find the wire full and a message
unsent, at both ends at once. Two clients of the websocket server
are one that is silent in its upgrade, or has a handler queued, and one that comes after it. Three starts are two restarts, so a handler can outlive
a stop and a start and meet the next. Four local
initializations are two overlapping pairs with closes between them. Four initializations of files open both
streams twice, and three bytes allow a read that ends at the end of file and one after it. Bytes, calls and address families are ordered or
distinct, so no symmetry is used; the client sets are small enough without it.

The bounds are `MaxBytes`, `MaxRequest`, `WireCapacity` (Stream), `MaxCalls` (client
streams), `MaxStarts` (WebsocketServer), `MaxBytes` and `MaxInits` (FileStream), `Clients`,
`MaxBytes` and `MaxRequest` (LocalSession), `MaxMessages`, `MaxRequest` and `WireCapacity`
(WebsocketClose). `CHECK_DEADLOCK FALSE` is set for the websocket client, the session
and the two runs of `WebsocketClose`: when the last call is answered, the last
connection read or both streams closed, nothing has to happen any more.

### Fairness

Weak fairness is assumed of what the code's environment does by itself: the kernel
moves bytes and accepts, the `io_context` runs every queued handler, timers expire,
the resolver answers, and a local connect succeeds or is refused. Nothing is assumed of applications, of the remote host (it
may never answer a connect or an upgrade) or of the peer (it may stop writing).
`run()` of the context takes handlers from a queue, so none is passed over for ever.
That the resolver answers is an assumption: it is outside the timeout. In
`WebsocketClose` the handshake timer is fair only when it is the reduced one: 30 s,
the default the code takes care to avoid, count as never. Neither end
is assumed to read, so a close must be answered without the peer's help.

### Findings

* `tcpclient_timeout` - when the timer expires while the handler of a successful
  connect is queued, `onConnect`'s `cancel()` comes too late: success is reported and
  `connectTimeoutCb` closes the socket, before or after. The header promises
  `operation_canceled` on a timeout. The websocket client has the same race in both of
  its phases; it is in the model, and not stated a second time.
* `tcpclient_retry` - `init`/`asyncInit` take an open socket for a connected one.
  After a refused attempt the socket is open, so the second attempt "succeeds".
* `wsclose_blocking` - `close` of a websocket reduces the handshake timeout and then
  closes synchronously. beast watches asynchronous operations only, so a dead
  connection holds the caller for ever; the comment above says the reduction is for that case.

Two more limits are in the models without a run that ends in them. `asyncRead(size)`
requests what is missing at the call; with `ConsumeWhilePending` a callback may find less
than `size` (`SuccessHasData` is checked and proved without it). With
`OvertakesDispatch` a later local initialization overtakes a queued completion, and
its callback is executed twice and the earlier one never.

## 5. Proofs

The proof modules are checked by TLAPS for every value of the constants, from the named
assumptions on them only (bounds are natural numbers, `WireCapacity`, `MaxRequest` of a
session and `MaxBytes` of a file are positive, `Clients` is finite, and in a session it is 1..n).
Every safety invariant and every action property that a passing run checks is a theorem.

**Stream.** `InOrder` and `NothingLost`, whose conjunction is `NoLossInOrder`, are nearly inductive. The invariant
`IInv` adds `ReadBalance` (what was available at the call plus what came since is what is
available now, and a pending read still needs `min - got` bytes, so
`Available < size`), `StagedIsForRead` (received bytes
belong to the outstanding read) and `AnswerHolds` (the answer being given is true
now). Without `ReadBalance` the truth of an answer could not be derived in `OnRead`:
the step knows `got >= min`, and only the balance turns this into `size` bytes.
Results: `TypeCorrect` (the `size_t` subtractions never underflow), `BytesInOrder`
(`NoLossInOrder`), `ReadsWaitForData`, `AnswersAreTrue` (`AnswersTrue`), `SuccessMeansData` (when nobody consumes during
a read) and `Refinement`: the specification implements `ByteChannel` under
`delivered <- consumed`; each step is a send, a delivery or a stutter.
The lemmas `FollowsJoin`, `FollowsCut`, `FollowsNew`, `FollowsEmpty` say how runs of
consecutive bytes behave under concatenation and cutting; all actions that move bytes use them.

**TcpClientStream.** `WatchedConnect` and `NothingLeftPending` depend on
one another through what is queued. `IInv` makes this explicit: `OneStep` (besides
the timer there is at most one operation, waiting or with its handler queued), `InProgress` (only the last call is unanswered and it is the one stored),
`TimerForConnect` (a timer waits only for a connect that waits or is queued), `SocketState` and
`Results`. From it: `TypeCorrect`, `ConnectIsWatched`, `AnsweredLeavesNothing`, `FailureIsTrue` (a failure is not
reported while the socket is connected; no run checks it any more)
and the action property `AnswerIsFinal` (no initialization is answered twice). `Refinement` is
the same for `Initialization`, which knows neither resolver nor socket, timer, handlers or close: `calls`, `result` and `answer`
are mapped to themselves, an `asyncInit` or `init` is `Call` (`CallRefines`), a handler that answers is `CallBack`
(`AnswerRefines`), every other step `GoOn` or a stutter. What it needs from `IInv` is that a handler finds the callback
of a call that is not answered. `AnswerIsFinal` is still worth stating: the same answer given again in the next step would not change
the three variables and so be a stutter of `Initialization`. The theorem is about `Initialization!Spec`;
its fairness, and with it that each call is answered at last, is left to TLC.

**TcpServer** (in `LocalSessionProofs`). `OneLoop` alone is not inductive: it says nothing of a server that is
stopped or not started. `IInv` adds `OneAtATime` (a waiting accept and the queued handler
of one client exclude each other) and `Quiet` (no accept waits on a closed acceptor or
before the start), and says "exactly one" without a cardinality, which
`CountsOne` puts back. Result: `LoopIsSingle`.

**LocalSession.** `SessionImplementsServer` maps each step to one of `TcpServer` or a
stutter, so `OneLoop` carries over (`SessionLoopIsSingle`). `NoGaps` speaks of what has
been received; the invariant `SessionIInv` ties it to what has not: `WireIsTail` (the wire
of a connection holds the last bytes sent on it) and `Reached` (the last byte
seen is the one before the head of the wire, or of an older connection if none has
left it). The lemmas `JoinedBytes` and `ChainGrows` say what the reader sees when
bytes are added. Results: `SessionTypeCorrect`, `ReadsHaveNoGaps`.

**WebsocketServer.** `StartedListens` holds because a stopped server has no acceptor open
(`StoppedIsClosed`), so that the next start opens each one. `LoopGoesOn` is `LoopAlive` without
counting. That the number of waiting accepts stays within the number of starts needs
`LoopBound`, which counts the queued handlers too, and the cardinality
lemmas `CountAfterAccepted` and `CountAfterOnAccept`. Results: `TypeCorrect`,
`StartedServerListens`, `LoopStaysAlive`, which holds of every family no accept has
failed on since its acceptor was bound; `AcceptFailsStep` shows that an error leaves the other family alone.

**WebsocketClose.** Both properties say that messages arrived, which follows only if
each message is accounted for at any time: `Accounted` (what an end wrote is received, in the wire or
unsent; less only if it failed or the peer discards because it closes itself). `Frames`
(a close frame is the last of its wire) and `Handshake` (nothing is written behind the own
close frame, an end is closed only after the frames of both) let a close frame stand for all messages
before it. `ToldTheEnd` and `Replied` keep the moment of the end of the stream: what a read was
told stays true, and the frame that answers a close was sent by a peer that had read
everything. `SentFrame` and its companions say what sending and taking a frame does to the counts. Results: `TypeCorrect`, `ClosedIsTheEndHolds`, `CloseDeliversHolds`.

**WebsocketClientStream.** As for the TCP client, with two phases: `OneStep` counts resolve, connect and
upgrade as one operation, `TimerHasReason` replaces `TimerForConnect` (a waiting timer
has a connect or an upgrade, waiting or queued). Handlers of the timer are left out of
`InProgress`: stale ones of earlier phases and calls are what the proof has to allow. Results:
`TypeCorrect`, `OperationIsWatched`, `AnsweredLeavesNothing`, `AnswerIsFinal`, `Refinement`.

**LocalClientStream.** Here several calls are unanswered at once. `Own` says that a call
has a waiting connect or one queued handler, never both, that the handler tells the outcome of its own connect, and
that a dispatched completion finds its own callback stored. The last holds only without
`OvertakesDispatch`, so `OwnAnswer` and `Refinement` have that as their assumption; `Made` and the
types hold with it too (`TypeCorrect`).

**FileStream.** `ReadsFromTheStart` speaks of the position, so the proof needs it to be
in the file (`Within`: unless the file was replaced), and `EofHidesNothing` follows from both. `Descriptors` is `OwnedDescriptors` without
cardinality and also bounds the descriptors that nobody owns. The lemmas `ReadingOn`, `Consuming` and
`Appending` say that reading on where the last read ended leaves no gap, that consuming loses no byte, and
that writing leaves what is there. Results: `TypeCorrect`, `ReaderMissesNothing`, `EofIsTheEnd`,
`DescriptorsAreOwned` and the action property `OnlyOpeningReplaces`. The invariant showed
that the model needs `MaxBytes` positive: the file may hold a byte at the start.

**Only model-checked**: the liveness properties (`ReadAnswered`, the fairness in `ImplementsInitialization`,
`StopEndsTheLoop`, `EveryClientServed`, `ReaderServed`, `EveryClientAccepted`, `CloseAnswered`,
`PeerHearsClose`), which are out of the prover's reach as they rest on fairness and
ENABLED. So are the induction over data (what a recursive definition computes for
every input) and modules with RECURSIVE operators, of which there is none here. The three
runs that end in a counterexample have no theorem.

## 6. Assumptions and limits

* One thread runs the context and calls the streams, as in the tests' callbacks.
* One read is outstanding at a time, and one write of a websocket; initializations of one stream do not overlap,
  except in `LocalClientStream`.
* A websocket is closed once; a blocking close is called with nothing outstanding. An
  `asyncClose` behind a write that cannot proceed waits with it: the handshake timer
  does not run yet.
* The local client of `LocalSession` does not call `asyncInit` on an open stream and does
  not consume during a read; a refused connect is left out there (it is in `LocalClientStream`).
* A file is opened for reading with an empty buffer: `m_buffer` survives a close.
* Objects outlive their handlers (they bind `this`); use after destruction is not modelled.
* An accept that fails ends its accept loop, whatever the error (`TcpServer.cpp:42`, `LocalServer.cpp:48`,
  `WebsocketServer.cpp:74`), and the server goes on listening without serving anybody; only the
  websocket server can be restarted. Nothing in the repository promises otherwise, so
  `OneLoop`, `EveryClientServed`, `ReaderServed`, `LoopAlive` and `EveryClientAccepted` except the case by `broken`.
* `TcpServer::start` is called once; `WebsocketServer::stop` follows a `start` that threw.
* Asio, beast, the kernel, the resolver and remote hosts are modelled from how `src/`
  uses them and marked external in `PROJECT.json`.
* Callbacks are atomic with the step that calls them, so the nesting of callbacks
  that read again in place (`Stream.hpp:61`) is not visible.

Not modelled: message framing of websockets (beast's), pings and beast's idle timeout
(minutes at a server, none at a client), which counts as never like the 30 s do; the server's decorator option, which has
no effect after the upgrade; the Windows branch of `FileStream`, which its header
refuses to compile, and character devices; `boost_compatibility_utils` (one-line
forwards without state); names of endpoints, logging, build files.
