# A TLA+ model of JDMB

JDMB is a single-threaded network program in C++: an epoll event loop, TCP
client and server handles registered with it, and a node server that takes
packets out of the connections. This directory models the parts that carry its
logic, model-checks them with TLC, and proves their safety properties with TLAPS
for every value of the constants. Source paths below are relative to the
repository; line numbers are those of the commit the modules were written from.

## 1. Inventory

| component | state | operations | interacts with |
|---|---|---|---|
| `EventLoop` (`src/event/event_loop.*`) | `m_hdls`: descriptor → (handle, weak timer); the epoll descriptor | `add`, `start`, `epoll_add`, `epoll_del` (by handle, by iterator) | calls `on_data` of handles; handles call `add` from inside `on_data`; Timers call `epoll_del` |
| `FD`, `IOHandle` (`src/event/fd/`) | `m_fd_result`, event mask | constructor, `get`, `~FD` closes | kernel's descriptor table |
| `Timer` (`src/event/timer.*`) | a timerfd, `m_timeout_cb`, `m_timeout_ms` | constructor, `disable`, `on_data` | its callback holds a `shared_ptr` to the handle it bounds |
| `tcp::Server` (`src/net/tcp/server.*`) | the listening socket, callbacks | constructor (resolve, bind, listen), `on_data`, `accept` | creates `Server::Connection`s, adds them to the loop |
| `tcp::Client` (`src/net/tcp/client.*`) | host, port, callbacks; per attempt `m_connected`, `m_addrs`, `m_curr_addr` | `get_conn_hdl`, `is_connected`, `connect_next`, `disable_timeout` | adds the next attempt to the loop; disables the Timer |
| `tcp::Connection` (`src/net/tcp/connection.*`) | `m_send_ready`, `m_flushing`, `m_send_queue`, callbacks | `send`, `flush_send_queue`, `recv`, `on_data` | kernel socket buffers, the application's callbacks |
| `node::Server` (`src/node/server.*`) | `m_connections`, a packet sequence per connection | `on_connect`, `on_message`, `on_disconnect` | `tcp::Server`'s callbacks, `stream::packet` |
| packet readers (`src/stream/`) | a reader per stage, `m_curr_offset`, `m_total_read`, `m_curr_data` | `ValueReader::read`, `HeaderReader`, `DataReader`, `SequenceReader` | fed by `on_message` |
| `JDMB`, `main` (`src/jdmb.*`, `src/main.cpp`) | arguments, the loop, the exit status, two counts of descriptors | `read_args`, `start`, once | create the loop and the node server, destroy them again when a step fails |
| `Config`, `Logger`, `util` | configuration values, log level | `load`; formatting | used by `main` and by every component's log lines |

**How they interact.** Everything runs on the loop's thread. `start` takes a
batch of events from the kernel and calls, for each, the handle found under the
descriptor's number. A handler may add handles (accepted connections, the next
connection attempt) and, through a Timer's callback, remove others. Removing the
last reference to a handle destroys it and closes its descriptor at once.

**What is hard.** No two handlers interleave; what interleaves with the thread
is the kernel and the peers:

* descriptors are edge-triggered, so an event that is not used up is gone;
* a batch is a snapshot: handlers earlier in it change what later events mean,
  and closed numbers are reused within the batch;
* timeouts race with the events of the attempt they bound, and a retry leaves
  the old timer armed;
* a send can be cut anywhere, and the rest must wait for the next EPOLLOUT;
* TCP segments have nothing to do with packets;
* descriptors are a bounded resource, and several error paths ignore results;
* attempts at the addresses of one host share a list by raw pointers, while
  their lifetimes depend on timers that are still armed;
* constructors report failure in `m_fd_result`, which is looked at much later.

`PROJECT.json` lists each hazard at its line with the property that watches it.

## 2. Modules

| module | models | role |
|---|---|---|
| `EventLoop` | event loop, descriptor lifetime, Timers, listening socket, accepted connections, connection attempts, `node::Server`'s map | component (composition of the handles with the loop) |
| `MCEventLoop` | – | `EventLoop` with the symmetry of its identities, for the safety run |
| `EventLoopProofs` | – | theorems about `EventLoop` |
| `Reactor` | what the loop promises its handles: one call for each signal | abstract specification, implemented by `EventLoop` |
| `ReactorProofs` | – | `EventLoop` implements `Reactor` |
| `Connection` | `tcp::Connection` with its socket and its peer | component |
| `SendStream` | what `send` promises: a FIFO of bytes | abstract specification, implemented by `Connection` |
| `ConnectionProofs` | – | theorems about `Connection`, its refinement of `SendStream` among them |
| `PacketStream` | `node::Server::Connection::on_message` and the readers | component |
| `PacketStreamProofs` | – | theorems about `PacketStream` |
| `ServerSocket` | the constructor of `tcp::Server`, and its socket until `~FD` | component |
| `ServerSocketProofs` | – | theorems about `ServerSocket` |
| `Startup` | `main`, `Config::load`, `JDMB::start`, `node::Server::create` | composition with `ServerSocket`, which it extends |
| `StartupProofs` | – | theorems about `Startup`; it implements `ServerSocket` |
| `TimerFd` | the conversion of `timeout_ms` to an `itimerspec` | operators, used by `ClientAttempts` |
| `ClientAttempts` | all attempts that follow from one `get_conn_hdl`, their timers, their address list | component |
| `ClientAttemptsProofs` | – | theorems about `TimerFd` and `ClientAttempts`, its refinement of `ConnRequest` among them |
| `ConnRequest` | what `get_conn_hdl` promises the application | abstract specification, implemented by `ClientAttempts` |
| `ConnRequestProofs` | – | what `ConnRequest` amounts to |

### EventLoop

One action per handler. `Listen` and `Connect` are the application's `add`s
before `start`; `EpollWait` takes a batch; `OnTimer`, `OnListener`, `Served`,
`Closed`, `Established`, `Failed` and `Retry` are the outcomes of one
`on_data`, each with the removal the loop performs when it returned false.
The accept loop is the one handler whose iterations are separate steps
(`AcceptOne`, `AcceptDropped`, `AcceptExhausted`, `AcceptDone`), because peers
can connect while it runs.

Objects are identities from `SConn`, `CConn` and `Timer`. `m_fd_result` says
which descriptor an object owns. At the end of every step `Settle` destroys what
nobody refers to any more, that is closes its descriptor, and takes closed
descriptors out of the kernel's lists; a free identity may be used for the next
object. The owners are the loop's map, the callbacks of armed Timers and
`node::Server`'s map (`Keeps = TRUE`).

The kernel is `interest` (epoll's list), `ready` (its ready list), `pending`
(connections whose socket has something to report that `on_data` has not seen)
and `backlog`. The events of a batch remember the handle they were raised for
(`events[f]`), which the code does not: comparing it with the handle the loop
finds is what `EventReachesItsHandle` and `StrandedByItsTimeout` do. A spurious
or stale event is dispatched like any other.

Left out: the contents of the connections (module `Connection`), the clock
(`Expire` may happen at any time after the Timer was added), failures of
`epoll_create1` (module `Startup`), `epoll_wait` returning early (`EINTR` makes an empty batch,
which changes nothing) and failures of `EPOLL_CTL_DEL`, which a registered
descriptor does not give.

### Reactor

`Reactor` is the loop as its handles see it: no descriptors, no batches, no epoll.
A listed handle is called once for each time it was signalled, nobody else is
called, and a handle leaves the list by its own call or, while it is still
connecting, by the timeout it was added with. `ReactorSpec` is that specification
under a mapping of `EventLoop`'s state:

| `Reactor` | `EventLoop` |
|---|---|
| `listed` | the handles in `m_hdls` |
| `due` | for each of them, one if its descriptor is in the ready list and one if the batch names it; a Timer's descriptor, level-triggered, may be in both and counts once |
| `bounds` | `m_timeout_cb` |
| `connected` | `m_connected` |
| `strays` | the number of events in the batch whose descriptor has no entry |

The one exception the code makes is part of the promise: a timeout may remove an
attempt whose own event is in the batch already. That event is then a stray: it
is dropped, or a handle that joins on the same number takes it for its own and is
called once too often (a new connection, or a new Timer, which then fires early).
`due` and `strays` count, so that a batch that lost an event, handled one twice or
named a handle that is not listed has no step of `Reactor` to match.

### Connection and SendStream

One action per system call: the peer can acknowledge, send, close and reset
between any two. A vector of bytes is the interval of the positions of its bytes
in the order of all `send` calls. `pc` is the place in `on_data`, in `send` or in
`recv`; `cur` and `ret` are the locals of a running `send`, called by the
application or by `flush_send_queue`. `sock` is the kernel's socket: the bytes in
its send buffer, the bytes to be received, whether the peer has gone, and epoll's
view: `raised` (in the ready list) and `nospace` (the flag that makes an
acknowledgement raise EPOLLOUT). Room in the send buffer is a count of bytes;
Linux reports EPOLLOUT only once a third of it is free, which changes when, not
whether. The application may send wherever its code can run: inside the message
callback and in callbacks of other handles.

`SendStream` has three variables and says that bytes reach the socket in order,
once each, some time after they were accepted, until the socket reports an error.
`StreamSpec` is that specification under the mapping `accepted <- written`.

Left out: SIGPIPE (`::send` without MSG_NOSIGNAL after a reset), the callbacks
themselves, what happens to an object after it left the loop.

### PacketStream

`OnMessage(n)` is one call of `on_message` with a segment of `n` bytes, `n = 0`
included (the receive loop does call it with an empty vector). The first part of
the module is the arithmetic of `ValueReader::read`, translated as it stands:
where it reads in the segment (`m_total_read` is skipped on top of the offset),
where it stores (always from the start of `m_curr_data`), when it stops (after
the store, on a count that does not include the current call). A byte is its
position in the peer's stream; a header that was not assembled from its own four
bytes decodes to any length.

### ServerSocket and Startup

`ServerSocket` is the constructor of `tcp::Server`, one action per system call
and outcome. Its three failure paths leave three different things in the local
`fd`: `socket` leaves -1, a failed `setsockopt` the number it has just closed, a
failed `bind` resets it. `Continue` is the loop's step to the next address, or
out of the loop to the test of `fd`. Whether a number is open is the kernel's
descriptor `table`, so that `listen` on a closed number fails and a number that
was closed can be another one's again. Before and after the constructor the rest
of the program opens and closes descriptors (`Elsewhere`); during it the thread
does nothing else.

`Startup` extends it with `main`: the arguments, read one by one, as the token
sequences `util::str::split` makes of them; the outcome of `Config::load` (any
set of members may be right; a document that is not an object fails an assertion
of rapidjson); `EventLoop::create`, whose `EpollFD` may have failed unnoticed;
the server's constructor, `add`, and the loop. When a step fails, the server, the
loop and `main`'s exit follow in the order of the scopes, with the two counters
of opened and closed descriptors. In stage `serving` module `EventLoop` takes
over. A behaviour of `Startup` is one of `ServerSocket`: that is a theorem.

### TimerFd and ClientAttempts

`ClientAttempts` follows one call of `get_conn_hdl` until the last attempt is
destroyed. Attempt `i` is the `Client::Connection` at the `i`-th address; its
state is whether the loop lists it, whether the application holds it, and what
became of its Timer. The actions are the outcomes of `connect_next`
(`Established`, `NoAnswer`, and `Refused` with `Exhausted` or `TryNext`), the two
ways a Timer ends, the end of a connection, and the application's letting go.
Every handler ends with `Settle`, which destroys what nobody refers to any more,
the later attempt first; the destructor reads `ai_next` and may free the list.
Reading a freed list gives the old value or a null pointer, sets `touched`, and
allows the process to crash from then on; `connect_next`'s own look at `ai_next`
counts like the destructor's. An address that is read as another
non-null value is left out: the same crash stands for it.

`EventLoop` has the same attempts with their descriptors and the batches of
events; there the list is a choice between "next" and "last". Here there are no
descriptors, but the list, its lifetime and the callbacks. `ConnRequest` is what
the application may rely on: the addresses are tried one at a time, in order, and
each attempt has a fate with the callback that belongs to it. `RequestSpec` is
that specification under `total <- n`, `fate <- Fates` (each attempt's state, read
off the handles, the callbacks and the Timers) and `broken <- touched`. What is
not promised is named there: fates without a callback (`timedout`, `unadded`,
`dropped`), and the use of a freed list. `TimerFd` is the
arithmetic of the Timer's constructor, with what `timerfd_settime` accepts.

## 3. Runs

All bounds are constants of the cfg files. Deadlock is checked in every run;
the loop's return is the explicit `Terminated` step, a closed connection the step
`Closed`.

| run | what it shows | bounds |
|---|---|---|
| `EventLoop_client` | type invariant; map, epoll and descriptors agree; timeouts only hit attempts; no edge lost; nothing left at exit; an event loses its handle only to the timeout of its own attempt; `Reactor` is implemented | 2 attempts, 2 timers, 2 accepted connections, 5 descriptors, batches of 3, backlog 2; identities of a kind are interchangeable; 271,000 states |
| `EventLoop_server` | a full descriptor table is for good; nobody starves; the accept loop returns | 4 accepted connections, 5 descriptors, batches of 2, backlog 2 |
| `EventLoop_live` | an attempt with a timeout is resolved | 2 attempts, 2 timers, 3 accepted connections, 4 descriptors, batches of 1 |
| `EventLoop_stale` | finding: a stale event reaches a new connection | 1 attempt, 1 timer, 1 accepted connection |
| `EventLoop_leak` | finding: closed connections stay in `m_connections` | 2 accepted connections |
| `Connection_stream` | type invariant; no byte lost, repeated or reordered; `m_send_ready` tells the truth, `m_flushing` is stale only after an error; `SendStream` is implemented; the thread will be woken for whatever is left to do; taken bytes are delivered; a close loses only the failing call's bytes; the queue drains; a close or reset is noticed | vectors of 0, 1 and 3 bytes, 4 bytes out and 4 in, buffer of 2, chunks of 2, batches of 3, queue of 2 (and what `send` adds), transient send errors; 471,000 states |
| `Connection_batch` | finding: `recv` exceeds its maximum | 4 bytes in |
| `PacketStream_node` | type invariant; one verdict per connection; a header in one piece is decoded right; a packet is finished only after more than twice its data, and refused only after a whole buffer | header 2, buffer 4, lengths 0 to 5, segments up to 9, 14 bytes |
| `PacketStream_large` | finding: a short packet is "too large" | header 4, buffer 5 |
| `PacketStream_intact` | finding: a finished packet's first byte is another's | header 4, buffer 8 |
| `Startup_main` | type invariants; the server listens on the address it bound; no socket is left behind; no address is skipped; what serves is registered; a failed start closes everything and reports an error; start-up ends | 2 arguments, 3 addresses, 3 descriptors, one host and one path |
| `ClientAttempts_chain` | type invariant; `ConnRequest` is implemented; outcomes explained; timeouts inherited and cut to whole seconds; the timers keep the list; a chain with timeouts ends; attempts are released | 3 addresses; timeouts of 0 (none), 500, 1500 and 2000 ms |

**Why the bounds are enough.** `EventLoop`: the interesting coincidences are two
events of one batch that concern each other (an attempt and its timer, a timer
and the listener, a retry and the old timer) and a number that is reused; they
need two attempts, two timers, a listener and one more connection than fits. A
stray that another handle takes needs three events in one batch: the Timer, the
attempt it removes, and the handle whose call adds the other one. Five
descriptors make room for all of an attempt and its retry at once and can still
run out. In the liveness runs there are as many identities for accepted
connections as descriptors, so that descriptors, the resource the program really
has, run out first. In `EventLoop_server` up to four descriptors are ready when
the thread is in `epoll_wait` (with a fifth it would not leave the accept loop),
and a batch takes two, so that descriptors are left out of it: `PendingIsServed`
fails there without the strong fairness of `epoll_wait`. A handler's step that
would need a fresh identity and finds none is disabled; identities are the
bound, and the safety runs are complete up to it. Nothing in the specification or in the properties of `EventLoop_client`
tells two connections of a kind, or two Timers, apart, so exchanging them
(`MCEventLoop`) is sound; the liveness runs do without it. `Connection`: a vector larger than the buffer, one that is
smaller, one that is empty and two queued behind a partial one all occur, input
needs several chunks and more than one batch, and both directions interleave. `PacketStream`: the
lengths 0, below, at and above the buffer size occur with every cut of the
stream into up to nine bytes, which holds a packet and the next one's header.
`Startup`: three descriptors are enough for epoll, the socket and one that a path
might lose (none does); that a call finds no descriptor is one of its outcomes
anyhow; three addresses have a first, a middle and a last
one; two arguments let one flag override another.
`ClientAttempts`: three attempts allow one that has gone, one that frees the list
and one that still walks it; the timeouts are none, below a second, a whole
second, and a second with a rest.

**Fairness.** `EventLoop`: the thread is weakly fair in the loop and in each
handler, because it runs nothing else; which event of a batch comes next is
left open. `epoll_wait` is strongly fair for each descriptor, because the ready
list is a queue that rotates. Timerfds expire (weak fairness). `accept()` is
strongly fair in succeeding: the errors that consume a connection are transient.
Peers owe nothing: they may never answer a connection attempt or send anything.
`Connection`: the thread is weakly fair, and a peer that has neither closed nor
reset acknowledges what it was sent; the application never has to send. It may
send in between for ever, though, vectors of no bytes too, and each such call is
a step of the thread: strong fairness of `EpollWait`, `OnData` and `CallbackDone`
says that application code returns, so that the handler it was called from goes
on. `Startup`: the thread runs and system calls return (weak fairness).
`ClientAttempts`: an armed timerfd expires and the loop sees it (weak fairness);
nothing is assumed of peers, network or application.
The liveness properties of the loop say "or it spins" (`Spinning`): with a full
descriptor table `accept` retries EMFILE forever. That this is the code's
behaviour, and permanent, is itself a property (`ExhaustionIsForGood`).

**Mutants.** Each property is accompanied by a mutated definition, placed before
the original and marked "Mutant:", that makes it fail: an `erase` that is
forgotten, one `accept` per event instead of a loop, a timeout that is not
disabled, a rest that is queued twice, an off-by-one in a stop condition.

## 4. What the violations show

* `EventLoop_stale`: batch {timer, attempt, listener}: the timer removes the
  attempt and its descriptor closes; the listener accepts a connection on the
  same number; the attempt's event is then given to it. The code's only guard is
  that the number is "not in epoll list" (`event_loop.cpp:28-33`). That it takes a
  timeout and an attempt, and happens in no other way, is `StrandedByItsTimeout`.
* `EventLoop_leak`: `node::Server` never registers its `on_disconnect`, and
  `tcp::Server::Connection` does not store the callback it is given.
* `Connection_batch`: the comparison in `recv` (`connection.cpp:73`) is reversed.
* `PacketStream_large`, `PacketStream_intact`: the count a `DataReader` stops by
  does not include the segment it is reading, and each call stores from the start.
  What a verdict does mean is `VerdictIsBacked`: a peer that sends one packet and
  waits for an answer gets none.

Two defects are not violations of anything the repository says, but part of what
the passing run of `ClientAttempts` states:

* without timeouts nothing keeps the first attempt once `connect_next` has moved
  on; its destructor frees the list that the second one reads (`client.cpp:85-90`,
  139). The value read is then anything (`touched`); if it is null, `fail_cb` is
  called with addresses left. `TimersKeepTheList` says which chains are safe from
  it, and for how long;
* a timeout is cut to its whole seconds (`timer.cpp:30-31`): 1500 ms last one
  second, 500 ms half a microsecond. `TimeoutIsCutShort` says so.

## 5. Proofs

`EventLoopProofs` proves, for all finite or infinite sets of identities, any
number of descriptors, any batch size and backlog, and both values of `Keeps`:

| theorem | property |
|---|---|
| `TypeCorrect` | `TypeOK` |
| `RegistryConsistent` | `Registry` |
| `TimeoutsOnlyHitAttempts` | `TimeoutsAreForAttempts` |
| `EdgesAreKept` | `NoLostEdge` |
| `NothingStaysOpen` | `ExitLeavesNothing` |
| `ExhaustionIsPermanent` | `ExhaustionIsForGood` |
| `OnlyTimeoutsStrand` | `StrandedByItsTimeout` |
| `OtherEventsMeet` | events of the listener, of accepted connections and of Timers always meet the handle they were raised for |
| `NoStaleEventWithoutTimers` | `EventReachesItsHandle`, assuming `Timer = {}`: of a program without timeouts |
| `OnlyOwnEventRemoves` | `RemovedByItsOwnEvent`: a usable connection leaves the list only by an event of its own |
| `BatchesAreFinite` | at most `MAX_EVENTS` events, and steps that decrease `BatchWork` |

The assumptions are those named in `EventLoop`: positive bounds, disjoint sets of
identities, `NoObj` none of them.

The argument: `Registry` is nearly inductive. Handlers remove entries by
descriptor, so what is needed is that the entry found under a descriptor belongs
to the object that owns it; that in turn needs that no two objects own one
descriptor, that new descriptors are free ones, and that an object in the map is
referenced, hence not closed by `Settle`. For the timers one adds that a captured
connection that is registered is still connecting and its entry leads back to the
timer: this is what makes `disable_timeout`, which goes through the entry, reach
the right timer. `Inv` is the conjunction, proved preserved action by action
(lemma `Invariance` and those it cites). `NoLostEdge` needs `EdgeInv`, which adds
where the listener's readiness is while `accept` runs. `ExitLeavesNothing` needs
`OwnInv`: every object with a descriptor is referenced, by the map, by an armed
Timer or by an application map, and the Timer that an entry points to is itself
registered with nothing but that entry's handle in its callback; so an empty map
leaves only what an application map holds. `ExhaustionIsForGood`,
`RemovedByItsOwnEvent` and `StrandedByItsTimeout` are action properties that
follow from `Inv` and from the fact that no event outlives its batch
(`BatchIsOver`): a handler erases its own entry, and only a Timer erases another
one, which `TimeoutsAreForAttempts` says belongs to the attempt it captured. Hence
the events of all other handles meet theirs, and without timers all events do:
the finding of `EventLoop_stale` needs a timer. `BatchWork` counts the events
left, the waiting connections and the place in the loop; only `epoll_wait` and new
connections raise it, and the one step of a handler that leaves it as it is is
`AcceptExhausted`.

`ReactorProofs` proves `ImplementsReactor`, that is `Spec => ReactorSpec`, under
the same assumptions. It needs `Inv`, `BatchIsOver`, the part of `OwnInv` about
weak references (an entry's Timer captured the entry's own handle, so that
`disable_timeout` releases it and nobody else), and `ReadyIsWatched`: what is
raised is listed, so that closing a descriptor takes its calls along. The proof
goes handler by handler. `SameCalls` says that a handle that stays under its
number expects the calls it expected; `MetAreTaken` counts the strays that handles
opened in the step take for their own, at most one for each; `Joined`, `Entered`,
`Attempted` and `CalledAndLeaves` put the two together for the steps that list
somebody, and `OnTimerTimesOut` for the one that makes a stray.

`ConnectionProofs` proves, for every set of vector lengths, send buffer, chunk,
batch and bound, with and without transient errors:

| theorem | property |
|---|---|
| `TypeCorrect` | `TypeOK` |
| `ReadyIsEmpty` | `ReadyMeansEmpty` |
| `FlushIsOver` | `StaleFlushing` |
| `SendLosesNothing` | `NothingLost` |
| `ImplementsStream` | `StreamSpec`, the refinement of `SendStream` |
| `AlwaysWoken` | `WillBeWoken` |
| `NothingWithheld` | `TakenIsDelivered` |
| `ClosingLoses` | `ClosedByPeerLoses` |
| `OnDataReturns` | steps of the thread between two `epoll_wait`s decrease `Work` |

The inductive invariant `FullInv` has three parts. `Inv` types the state and says
what the flags mean: `m_flushing` is set exactly while the queue's front is out
(unless `::send` failed), and `flush_send_queue` finds the vector unfinished
exactly when `m_send_ready` was cleared. It also counts the input: delivered,
collected and waiting bytes are the arrived ones, which bounds `buf`. `WakeInv`
generalises `WillBeWoken` from `epoll_wait` to every place in between, because a
step only hands the obligation on: input is either raised, or in the events
being handled, or about to be read; queued bytes are being flushed, or the socket
was found full or is raised. `Lossless` is `NothingLost` in a form the steps
preserve: the intervals in the queue continue each other up to the last byte
written, and the first of them, or the vector in hand, starts where the wire ends.
In the refinement `AppSends` is a `Write`, `SendSome` a `Transmit`, `SendFailed`
a `Break`, and every other step a stutter. `Work` weighs the vectors the flush has
still to take by the most a vector costs (a `::send` for each byte), and adds the
vector in hand, the place in `on_data` and twice the input that waits. Calls of
`send` and new input raise it: the loop over `recv` goes on for as long as the
peer keeps sending, which is what the code does.

`PacketStreamProofs` proves, for every size of header, buffer and segment:

| theorem | property |
|---|---|
| `TypeCorrect` | `TypeOK` |
| `VerdictIsFinal` | `OneVerdict` |
| `HeaderIsDecoded` | `HeaderIsRight` |
| `VerdictsAreBacked` | `VerdictIsBacked` |

`HeaderInv` adds to them that nothing happened before the first byte, empty
messages included, so that a header in one piece meets a fresh reader. Lemma
`ReadIsTyped` is the arithmetic of `ValueReader::read`: where it stores, what it
counts and that it stays in the segment; `DataStep` and `HeaderStep` say that a
call keeps the reader or gives one verdict. `VerdictsAreBacked` rests on
`Counted`, that no byte is counted twice (what the readers have counted has been
received), and on lemma `ReadCounts`, that a call counts only bytes behind those
counted before, up to the segment's end.

`ServerSocketProofs` proves, for every limit of descriptors and every length of
the list, whatever the rest of the program opens and closes:

| theorem | property |
|---|---|
| `ServesBoundAddress` | `ServesTheAddressItBound` |
| `NoSocketIsLost` | `NothingLeftOpen` |
| `EveryAddressIsTried` | `GivesUpLast` |
| `ConstructorReturns` | at most `4 * MaxAddrs + 2` steps, each of which decreases `CallsLeft` |

`SocketInv` says, for each `pc`, which addresses have been refused, whether `fd`
is open, and that no other descriptor is a socket of the constructor's. The case
that matters is `listen` after the last address failed at `setsockopt`: `fd` is
then a free number, so the call can only fail.

`StartupProofs` proves, for all arguments, hosts, paths and limits:

| theorem | property |
|---|---|
| `UsesServerSocket` | `Spec => SocketSpec`: start-up is a use of `ServerSocket`, so its theorems hold here |
| `StartupTypes` | `TypeOK` |
| `ServingListens` | `ServingMeansListening` |
| `FailedStartIsClean` | `ExitIsClean` |
| `StartupIsFinite` | at most `MaxArgs + 4 * MaxAddrs + 8` steps, each of which decreases `StepsLeft` |

`StartupInv` joins `SocketInv` with where `main` is (`Stage`), that epoll's
descriptor is the only other one (`EpollsDescriptor`), and that the two counters
differ by the number of descriptors owned (`Counted`).

`ClientAttemptsProofs` proves, for every length of the list and every set of
timeouts:

| theorem | property |
|---|---|
| `TimeoutConversion` | of `TimerFd`: every positive `timeout_ms` is accepted, arms, and is cut to its whole seconds: never late, exact only for whole seconds |
| `ChainTypes` | `TypeOK` |
| `ImplementsRequest` | `RequestSpec`, the refinement of `ConnRequest` |
| `PromiseIsKept` | `ConnRequest`'s promise, carried over by the refinement |
| `ChainIsFinite` | at most `5 * MaxAddrs + 5` steps, each of which decreases `StepsLeft` |
| `OutcomesAreExplained` | `OutcomeIsExplained` |
| `TimeoutsAreInherited` | `TimeoutIsInherited` |
| `ListLifetime` | `TimersKeepTheList` |
| `TimersAreCutShort` | `TimeoutIsCutShort` |

`ChainInv` rests on two facts. Only the latest attempt can be listed and not
connected, and once a callback was made no attempt is connecting: hence every
outcome of `connect_next` is a step of `ConnRequest` for the latest address, and
every other step a stutter or one of the ends without a callback. And as long as no Timer has expired and every attempt got one, each
earlier attempt is referenced by its own armed Timer, so that none is destroyed
and none frees the list: hence no use after free before the first expiry.
Proving the refinement corrected the model: the read of `ai_next` with which
`connect_next` decides between "next" and "last" can itself be of a freed list.

`ConnRequestProofs` proves `RequestPromise` of `ConnRequest`, for every number of
addresses: `InOrder`, the attempts begun are an initial segment of the addresses,
and all but the last were refused; and `RightCall`, at most one call, `connect_cb`
exactly if an attempt was established, `fail_cb` only after the last refusal, for
an attempt without an answer or after the list was misused.

Every invariant, action property and refinement of the passing runs is proved.
Only model-checked are the liveness properties (liveness under fairness is outside
the prover's reach): `PendingIsServed`, `AcceptReturns`, `TimedAttemptResolves`,
`QueueDrains`, `EndIsNoticed`, `StartupEnds`, `ChainEnds`, `AttemptsAreReleased`.
What is proved is their safety half, that nothing goes on for ever by itself:
`BatchesAreFinite`, `OnDataReturns`, `ConstructorReturns`, `StartupIsFinite` and
`ChainIsFinite` bound the steps by natural numbers that decrease. That a step is
then taken, and that what is left is the right end, is what TLC checks.

## 6. Not modelled

* Discovery: `perform_discovery` has no body. Two oddities were read but, as
  nothing follows from them, are no hazards and claimed by no run: `main.cpp:72-77` requires `discover-host` when the cluster
  is *not* being initialised, while `jdmb.cpp:15` performs discovery only when it
  *is*; and the comment at `main.cpp:62` says ERROR where DEBUG is set.
* The values of the configuration: they are only passed on.
* `Result`'s check that `is_ok` was called before `unwrap`: every `unwrap` in
  code that is built follows an `is_ok` on the same path, so it never throws.
* SIGPIPE, raised by the second `::send` after a reset; nothing handles it.
* The memory of address lists that the server's constructor does not free when it
  fails (`server.cpp:62-71`): it is only recorded that they are held.
* `Logger`, `util`: formatting, no protocol state.
* `node::Client`, `client_list`, `src/jdmb/*`, `array_reader`, `stream/reader.cpp`:
  not built, empty or commented out.
* C++ undefined behaviour: the iterator used after a rehash
  (`event_loop.cpp:39`) is modelled as what libstdc++'s node iterators do, so that
  no property could tell if it went wrong.

## 7. Where to go on

The plan the modules were written by is carried out: event loop, connection,
packet readers, server socket, connection attempts, start-up, each with its
proofs. What would add most from here:

1. `ClientAttempts` composed with `EventLoop`, so that a use of a freed list and a
   reused descriptor can be seen in one behaviour; `Reactor` is the interface the
   attempts need of the loop.
2. What `tcp::Connection` promises its message callback, as an abstract
   specification next to `SendStream`: the bytes in order, in batches, up to a close.
3. Discovery, and `node::Client`, when the code has them.
