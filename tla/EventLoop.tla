----------------------------- MODULE EventLoop -----------------------------
(***************************************************************************)
(* The reactor of src/event/event_loop.cpp with everything registered in   *)
(* it: the listening socket of tcp::Server, the connections it accepts,    *)
(* the connection attempts of tcp::Client and the Timers that bound them.  *)
(*                                                                         *)
(* The program is one thread, so a handler is one action, except the       *)
(* accept loop, which the kernel can feed while it runs.  What interleaves *)
(* with the thread is the kernel: it queues connections, raises socket     *)
(* conditions and lets timers expire between any two steps.                *)
(*                                                                         *)
(* Objects are modelled because their lifetime is the descriptor's: ~FD    *)
(* closes it, a closed number is handed out again, and the loop addresses  *)
(* its handles by number (epoll_event.data.fd), never by object.           *)
(***************************************************************************)
EXTENDS Naturals, FiniteSets

CONSTANTS
  SConn,       \* identities for tcp::Server::Connection objects
  CConn,       \* identities for tcp::Client::Connection objects
  Timer,       \* identities for Timer objects
  Listener,    \* the one tcp::Server
  NoObj,       \* no object (nullptr, an absent map entry, an expired weak_ptr)
  MaxFd,       \* the process's descriptor limit
  MAX_EVENTS,  \* the length of the array given to epoll_wait
  MaxBacklog,  \* the listener's max_queue_len
  Keeps        \* does connect_cb store the connection (node::Server does)?

Conn == SConn \cup CConn
Obj  == Conn \cup Timer \cup {Listener}
Fd   == 1..MaxFd
NoFd == 0      \* an m_fd_result that is an Err

ASSUME NatAssumption == /\ MaxFd \in Nat \ {0}
                        /\ MAX_EVENTS \in Nat \ {0}
                        /\ MaxBacklog \in Nat \ {0}
ASSUME KeepsAssumption == Keeps \in BOOLEAN
ASSUME ObjAssumption == /\ SConn \cap CConn = {}
                        /\ Conn \cap Timer = {}
                        /\ Listener \notin Conn \cup Timer
                        /\ NoObj \notin Obj

VARIABLES
  m_fd_result,   \* Obj -> the descriptor the object owns, or NoFd
  m_hdls,        \* Fd -> HandleData.m_hdl, or NoObj without an entry
  m_timer_hdl,   \* Fd -> HandleData.m_timer_hdl (a weak_ptr)
  m_timeout_cb,  \* Timer -> the io_hdl its callback captured; NoObj: no callback
  m_connected,   \* the client connections whose m_connected is set
  kept,          \* the connections an application map (m_connections) holds
  interest,      \* kernel: descriptors in the epoll interest list
  ready,         \* kernel: descriptors in the epoll ready list
  pending,       \* connections whose socket changed since on_data last saw it
  backlog,       \* kernel: connections waiting on the listening socket
  events,        \* Fd -> what the unprocessed event of this batch is about
  pc             \* where EventLoop::start is

loopVars   == <<m_hdls, m_timer_hdl, m_timeout_cb>>
kernelVars == <<interest, ready, pending, backlog>>
vars == <<m_fd_result, loopVars, m_connected, kept, kernelVars, events, pc>>

-----------------------------------------------------------------------------
(* Descriptors and object lifetimes *)

OpenFds(fds) == {fds[o] : o \in Obj} \ {NoFd}
FreeFds      == Fd \ OpenFds(m_fd_result)

\* POSIX hands out the lowest free descriptor; {} when the table is full.
Lowest(S) == {f \in S : \A g \in S : f <= g}

\* What a constructor that opens a descriptor may end with: one, or an Err.
Opened(fds) == {NoFd} \cup Lowest(Fd \ OpenFds(fds))

Registered(o) == \E f \in Fd : m_hdls[f] = o

\* Some shared_ptr still refers to the object once the handler has returned.
Referenced(o) == \/ o = Listener
                 \/ o \in kept
                 \/ Registered(o)
                 \/ \E t \in Timer : m_timeout_cb[t] = o

\* Identities no object uses, for the next make_shared.
Fresh(S) == {o \in S : ~Referenced(o)}

\* The end of every step: with fds opened, the descriptors in listed given to
\* epoll and those in rdy raised, the objects nobody refers to are destroyed,
\* their descriptors are closed, and the kernel forgets closed descriptors.
Settle(fds, listed, rdy, conds) ==
  /\ m_fd_result' = [o \in Obj |-> IF Referenced(o)' THEN fds[o] ELSE NoFd]
  /\ interest' = listed \cap OpenFds(m_fd_result')
  /\ ready' = rdy \cap interest'
  /\ pending' = {c \in conds : Registered(c)'}

\* Mutant: epoll_del without m_hdls.erase.
Erase_Forgets(map, fs) == map

Erase(map, fs) == [f \in Fd |-> IF f \in fs THEN NoObj ELSE map[f]]

Init ==
  /\ m_fd_result = [o \in Obj |-> NoFd]
  /\ m_hdls = [f \in Fd |-> NoObj]
  /\ m_timer_hdl = [f \in Fd |-> NoObj]
  /\ m_timeout_cb = [t \in Timer |-> NoObj]
  /\ m_connected = {} /\ kept = {}
  /\ interest = {} /\ ready = {} /\ pending = {} /\ backlog = 0
  /\ events = [f \in Fd |-> NoObj]
  /\ pc = "setup"

-----------------------------------------------------------------------------
(* EventLoop::add *)

\* Mutant: a Timer that could not be added keeps its callback all the same.
Captured_Unwatched(t, tr, c) ==
  [u \in Timer |-> IF u = t THEN c ELSE m_timeout_cb[u]]

\* The Timer t, registered at tr, has captured c; unregistered, it dies in add.
Captured(t, tr, c) ==
  [u \in Timer |-> IF u = t /\ tr # NoFd THEN c ELSE m_timeout_cb[u]]

\* add(c, timeout_ms) on the map hdls/weak/listed: the socket was opened by c's
\* constructor (co), the Timer (t, unless there is no timeout) opens its own
\* (to), and each epoll_ctl(ADD) may fail (cr, tr), the Timer's only with a
\* warning.  A handle is only in the map if its epoll_ctl succeeded.
Add(c, t, hdls, weak, listed) ==
  \E co \in Opened(m_fd_result) :
    LET fds1 == [m_fd_result EXCEPT ![c] = co] IN
    \E to \in IF t = NoObj THEN {NoFd} ELSE Opened(fds1) :
      \E cr \in {NoFd, co}, tr \in {NoFd, to} :
        /\ m_hdls' = [f \in Fd |-> IF f = cr THEN c
                                   ELSE IF f = tr THEN t ELSE hdls[f]]
        /\ m_timer_hdl' = [f \in Fd |-> IF f = cr /\ tr # NoFd THEN t
                                        ELSE weak[f]]
        /\ m_timeout_cb' = Captured(t, tr, c)
        /\ Settle([o \in Obj |-> IF o = t THEN to ELSE fds1[o]],
                  listed \cup ({cr, tr} \ {NoFd}), ready, pending)

\* The timeouts an attempt may be added with: none, or a new Timer.
NewTimer(timed) == IF timed THEN Fresh(Timer) ELSE {NoObj}

\* The application adds its listening socket before it starts the loop.
Listen ==
  /\ pc = "setup"
  /\ m_fd_result[Listener] = NoFd
  /\ \E f \in Lowest(FreeFds) :
       /\ m_hdls' = [m_hdls EXCEPT ![f] = Listener]
       /\ m_fd_result' = [m_fd_result EXCEPT ![Listener] = f]
       /\ interest' = interest \cup {f}
  /\ UNCHANGED <<m_timer_hdl, m_timeout_cb, m_connected, kept, ready, pending,
                 backlog, events, pc>>

\* The application adds a connection attempt before it starts the loop.
Connect(timed) ==
  /\ pc = "setup"
  /\ UNCHANGED <<m_connected, kept, backlog, events, pc>>
  /\ \E c \in Fresh(CConn), t \in NewTimer(timed) :
       Add(c, t, m_hdls, m_timer_hdl, interest)

\* Mutant: the loop ends as soon as only Timers are left.
LoopTest_NoTimers ==
  IF \E f \in Fd : m_hdls[f] \notin Timer \cup {NoObj} THEN "wait" ELSE "exited"

LoopTest == IF \E f \in Fd : m_hdls[f] # NoObj THEN "wait" ELSE "exited"

StartLoop ==
  /\ pc = "setup"
  /\ pc' = LoopTest
  /\ UNCHANGED <<m_fd_result, loopVars, m_connected, kept, kernelVars, events>>

-----------------------------------------------------------------------------
(* The kernel *)

Arrive ==
  /\ Registered(Listener)
  /\ backlog < MaxBacklog
  /\ backlog' = backlog + 1
  /\ ready' = ready \cup {m_fd_result[Listener]}
  /\ UNCHANGED <<m_fd_result, loopVars, m_connected, kept, interest, pending,
                 events, pc>>

\* A socket becomes readable or writable, is reset, or its connect() resolves.
Raise(c) ==
  /\ Registered(c)
  /\ c \notin pending
  /\ pending' = pending \cup {c}
  /\ ready' = ready \cup {m_fd_result[c]}
  /\ UNCHANGED <<m_fd_result, loopVars, m_connected, kept, interest, backlog,
                 events, pc>>

\* A timerfd expires; nobody reads it, so it stays ready (level-triggered).
Expire(t) ==
  /\ Registered(t)
  /\ m_fd_result[t] \notin ready
  /\ ready' = ready \cup {m_fd_result[t]}
  /\ UNCHANGED <<m_fd_result, loopVars, m_connected, kept, interest, pending,
                 backlog, events, pc>>

-----------------------------------------------------------------------------
(* EventLoop::start *)

\* Mutant: a full array is taken for an error, and its events are not looked at.
EpollWait_NotFull(batch) ==
  /\ pc = "wait"
  /\ batch # {} /\ batch \subseteq ready
  /\ Cardinality(batch) <= MAX_EVENTS
  /\ batch = ready \/ Cardinality(batch) = MAX_EVENTS
  /\ events' = [f \in Fd |-> IF f \in batch /\ Cardinality(batch) < MAX_EVENTS
                             THEN m_hdls[f] ELSE NoObj]
  /\ ready' = {f \in ready : f \in batch => m_hdls[f] \in Timer}
  /\ pc' = "batch"
  /\ UNCHANGED <<m_fd_result, loopVars, m_connected, kept, interest, pending,
                 backlog>>

\* epoll_wait: at most MAX_EVENTS ready descriptors; sockets are edge-triggered
\* and leave the ready list, a Timer's descriptor stays.  A batch names
\* descriptors; which handle each event was raised for is kept to compare.
EpollWait(batch) ==
  /\ pc = "wait"
  /\ batch # {} /\ batch \subseteq ready
  /\ Cardinality(batch) <= MAX_EVENTS
  /\ batch = ready \/ Cardinality(batch) = MAX_EVENTS
  /\ events' = [f \in Fd |-> IF f \in batch THEN m_hdls[f] ELSE NoObj]
  /\ ready' = {f \in ready : f \in batch => m_hdls[f] \in Timer}
  /\ pc' = "batch"
  /\ UNCHANGED <<m_fd_result, loopVars, m_connected, kept, interest, pending,
                 backlog>>

\* The next event of the batch.
Take(f) ==
  /\ pc = "batch"
  /\ events[f] # NoObj
  /\ events' = [events EXCEPT ![f] = NoObj]

\* No entry for the descriptor: "not in epoll list".
NotInList(f) ==
  /\ Take(f)
  /\ m_hdls[f] = NoObj
  /\ UNCHANGED <<m_fd_result, loopVars, m_connected, kept, kernelVars, pc>>

BatchDone ==
  /\ pc = "batch"
  /\ \A f \in Fd : events[f] = NoObj
  /\ pc' = LoopTest
  /\ UNCHANGED <<m_fd_result, loopVars, m_connected, kept, kernelVars, events>>

\* The loop has returned; nothing runs any more.
Terminated == pc = "exited" /\ UNCHANGED vars

-----------------------------------------------------------------------------
(* Timer::on_data: run the callback, if it was not disabled, then be removed *)

\* The entry the callback's epoll_del finds: the one at the descriptor of the
\* handle it captured, if that handle has a descriptor.
TimeoutEntry(t) ==
  IF m_timeout_cb[t] = NoObj THEN {}
  ELSE {m_fd_result[m_timeout_cb[t]]} \ {NoFd}

OnTimer(f) ==
  LET t == m_hdls[f]
      gone == {f} \cup TimeoutEntry(t)
  IN /\ Take(f)
     /\ t \in Timer
     /\ m_hdls' = Erase(m_hdls, gone)
     /\ m_timer_hdl' = Erase(m_timer_hdl,
                             gone \cup {g \in Fd : m_timer_hdl[g] = t})
     /\ m_timeout_cb' = [m_timeout_cb EXCEPT ![t] = NoObj]
     /\ UNCHANGED <<m_connected, kept, backlog, pc>>
     /\ Settle(m_fd_result, interest \ gone, ready, pending)

-----------------------------------------------------------------------------
(* tcp::Server::on_data: accept until EAGAIN *)

OnListener(f) ==
  /\ Take(f)
  /\ m_hdls[f] = Listener
  /\ pc' = "accept"
  /\ UNCHANGED <<m_fd_result, loopVars, m_connected, kept, kernelVars>>

\* Mutant: one connection per event instead of a loop.
Dequeue_Once ==
  /\ pc = "accept"
  /\ backlog > 0
  /\ backlog' = backlog - 1
  /\ pc' = "batch"

\* Mutant: EAGAIN is taken for a connection.
Dequeue_Empty == pc = "accept" /\ backlog' = backlog - 1 /\ pc' = "accept"

\* A waiting connection leaves the queue; accept() is called again.
Dequeue ==
  /\ pc = "accept"
  /\ backlog > 0
  /\ backlog' = backlog - 1
  /\ pc' = "accept"

\* connect_cb: node::Server puts the connection into m_connections.
Stored(c) == IF Keeps THEN kept \cup {c} ELSE kept

\* A new socket is writable, so epoll raises it as soon as it is added.
AcceptOne ==
  /\ Dequeue
  /\ \E c \in Fresh(SConn), f \in Lowest(FreeFds) :
       /\ m_hdls' = [m_hdls EXCEPT ![f] = c]
       /\ m_timer_hdl' = [m_timer_hdl EXCEPT ![f] = NoObj]
       /\ m_fd_result' = [m_fd_result EXCEPT ![c] = f]
       /\ interest' = interest \cup {f}
       /\ ready' = ready \cup {f}
       /\ pending' = pending \cup {c}
       /\ kept' = Stored(c)
  /\ UNCHANGED <<m_timeout_cb, m_connected, events>>

\* The connection was already gone (ECONNABORTED), or could not be made
\* nonblocking or added to the loop: it is dropped and the loop goes on.
AcceptDropped ==
  /\ Dequeue
  /\ FreeFds # {}
  /\ UNCHANGED <<m_fd_result, loopVars, m_connected, kept, interest, ready,
                 pending, events>>

\* Mutant: "break" instead of "continue".
AcceptExhausted_Breaks ==
  /\ pc = "accept"
  /\ FreeFds = {}
  /\ pc' = "batch"
  /\ UNCHANGED <<m_fd_result, loopVars, m_connected, kept, kernelVars, events>>

\* accept() needs a descriptor before it looks at the queue: EMFILE, "continue".
AcceptExhausted ==
  /\ pc = "accept"
  /\ FreeFds = {}
  /\ UNCHANGED vars

\* Mutant: EAGAIN is an error like the others, "continue".
AcceptDone_Retries == pc = "accept" /\ backlog = 0 /\ FreeFds # {} /\ UNCHANGED vars

\* EAGAIN: the queue is empty.
AcceptDone ==
  /\ pc = "accept"
  /\ backlog = 0
  /\ FreeFds # {}
  /\ pc' = "batch"
  /\ UNCHANGED <<m_fd_result, loopVars, m_connected, kept, kernelVars, events>>

-----------------------------------------------------------------------------
(* tcp::Connection::on_data *)

\* Mutant: the connection's Timer is removed along with it.
Remove_WithTimer(f, cbs) ==
  LET gone == {f} \cup {g \in Fd : m_hdls[g] \in {m_timer_hdl[f]} \ {NoObj}} IN
  /\ m_hdls' = Erase(m_hdls, gone)
  /\ m_timer_hdl' = Erase(m_timer_hdl, gone)
  /\ m_timeout_cb' = cbs
  /\ Settle(m_fd_result, interest \ gone, ready, pending)

\* Erasing the entry of the handle whose on_data returned false.
Remove(f, cbs) ==
  /\ m_hdls' = Erase(m_hdls, {f})
  /\ m_timer_hdl' = Erase(m_timer_hdl, {f})
  /\ m_timeout_cb' = cbs
  /\ Settle(m_fd_result, interest \ {f}, ready, pending)

\* Mutant: the timeout of an established attempt is not disabled.
Disabled_Not(f) == m_timeout_cb

\* disable_timeout(timer_hdl.lock())
Disabled(f) == [t \in Timer |-> IF t = m_timer_hdl[f] THEN NoObj
                                ELSE m_timeout_cb[t]]

\* Mutant: on_data leaves bytes unread or a retry of ::send undone.
Seen_Not(f) == pending

\* The connection whose event this is; it sees what happened to its own socket.
Seen(f) == pending \ ({m_hdls[f]} \cap {events[f]})

Connecting(c) == c \in CConn \ m_connected

\* Flushed and read until EAGAIN, and still open.  An attempt only gets here
\* if the event does not say EPOLLOUT, which its own first event does.
Served(f) ==
  /\ Take(f)
  /\ m_hdls[f] \in Conn
  /\ Connecting(m_hdls[f]) => events[f] # m_hdls[f]
  /\ pending' = Seen(f)
  /\ UNCHANGED <<m_fd_result, loopVars, m_connected, kept, interest, ready,
                 backlog, pc>>

\* HUP, ERR or a failed recv: disconnect_cb (which releases nothing: the
\* server's own callback is never stored), and the entry is erased.
Closed(f) ==
  /\ Take(f)
  /\ m_hdls[f] \in Conn
  /\ Connecting(m_hdls[f]) => events[f] # m_hdls[f]
  /\ m_connected' = m_connected \ {m_hdls[f]}
  /\ UNCHANGED <<kept, backlog, pc>>
  /\ Remove(f, m_timeout_cb)

\* connect_next, SO_ERROR = 0: connect_cb, then on with the rest of on_data,
\* which leaves the connection open or closes it.
Established(f) ==
  /\ Take(f)
  /\ Connecting(m_hdls[f])
  /\ UNCHANGED <<kept, backlog, pc>>
  /\ \/ /\ m_connected' = m_connected \cup {m_hdls[f]}
        /\ m_timeout_cb' = Disabled(f)
        /\ pending' = Seen(f)
        /\ UNCHANGED <<m_fd_result, m_hdls, m_timer_hdl, interest, ready>>
     \/ /\ UNCHANGED m_connected
        /\ Remove(f, Disabled(f))

\* connect_next at the last address, or without an answer from getsockopt.
Failed(f) ==
  /\ Take(f)
  /\ Connecting(m_hdls[f])
  /\ UNCHANGED <<m_connected, kept, backlog, pc>>
  /\ Remove(f, Disabled(f))

\* connect_next: the next address gets a connection and, if the old attempt's
\* timer is still there, a timer of its own; the old one stays armed and keeps
\* the old connection until it fires.  The result of add is not looked at.
Retry(f) ==
  /\ Take(f)
  /\ Connecting(m_hdls[f])
  /\ UNCHANGED <<m_connected, kept, backlog, pc>>
  /\ \E c \in Fresh(CConn), t \in NewTimer(m_timer_hdl[f] # NoObj) :
       Add(c, t, Erase(m_hdls, {f}), Erase(m_timer_hdl, {f}), interest \ {f})

-----------------------------------------------------------------------------
Kernel ==
  \/ Arrive
  \/ \E c \in Conn : Raise(c)
  \/ \E t \in Timer : Expire(t)

OnConnection(f) ==
  Served(f) \/ Closed(f) \/ Established(f) \/ Failed(f) \/ Retry(f)

Dispatch(f) == NotInList(f) \/ OnTimer(f) \/ OnListener(f) \/ OnConnection(f)

Accept == AcceptOne \/ AcceptDropped \/ AcceptDone

Next ==
  \/ Listen
  \/ \E timed \in BOOLEAN : Connect(timed)
  \/ StartLoop
  \/ Kernel
  \/ \E batch \in SUBSET Fd : EpollWait(batch)
  \/ \E f \in Fd : Dispatch(f)
  \/ BatchDone
  \/ Accept
  \/ AcceptExhausted
  \/ Terminated

Spec == Init /\ [][Next]_vars
-----------------------------------------------------------------------------
(* Properties *)

OptObj(S) == S \cup {NoObj}

\* Type invariant.
TypeOK ==
  /\ m_fd_result \in [Obj -> Fd \cup {NoFd}]
  /\ m_hdls \in [Fd -> OptObj(Obj)]
  /\ m_timer_hdl \in [Fd -> OptObj(Timer)]
  /\ m_timeout_cb \in [Timer -> OptObj(CConn)]
  /\ m_connected \subseteq CConn
  /\ kept \subseteq SConn
  /\ interest \subseteq Fd
  /\ ready \subseteq Fd
  /\ pending \subseteq Conn
  /\ backlog \in 0..MaxBacklog
  /\ events \in [Fd -> OptObj(Obj)]
  /\ pc \in {"setup", "wait", "batch", "accept", "exited"}

\* No two objects own the same descriptor.
OwnersDistinct(fds) ==
  \A o, p \in Obj : o # p /\ fds[o] = fds[p] => fds[o] = NoFd

\* The map and the kernel agree: a descriptor has an entry exactly when epoll
\* watches it, and the entry holds the one object that owns the descriptor
\* (epoll_add and both epoll_del keep the two in step; ~FD closes neither
\* early nor twice); and a client connection marked connected is in the map.
Registry ==
  /\ \A f \in Fd : m_hdls[f] # NoObj <=> f \in interest
  /\ \A f \in Fd : m_hdls[f] # NoObj => m_fd_result[m_hdls[f]] = f
  /\ OwnersDistinct(m_fd_result)
  /\ \A c \in m_connected : Registered(c)

\* Only a Timer the loop watches is armed, so a captured connection is never
\* pinned for good; and while the connection it captured is registered, it is
\* still connecting and its entry leads back to that Timer.  Established and
\* failed attempts therefore disable the right Timer (client.cpp:161), and no
\* timeout removes a connection that connect_cb was told about.
TimeoutsAreForAttempts ==
  \A t \in Timer : m_timeout_cb[t] # NoObj =>
    /\ Registered(t)
    /\ \A f \in Fd : m_hdls[f] = m_timeout_cb[t] =>
         /\ Connecting(m_hdls[f])
         /\ m_timer_hdl[f] = t

\* Edge-triggered readiness is never dropped: whatever happened to a
\* registered connection's socket since on_data last ran is still in the ready
\* list or in the unprocessed part of the batch, and so is a connection that
\* waits to be accepted, unless accept() is running (the 32-event limit of
\* epoll_wait and the accept loop are where an edge could get lost).
NoLostEdge ==
  /\ \A c \in pending : LET f == m_fd_result[c] IN
       f \in ready \/ events[f] = c
  /\ backlog > 0 => LET f == m_fd_result[Listener] IN
       f \in ready \/ events[f] = Listener \/ pc = "accept"

\* An event is handled by the handle it was raised for, or by none if that one
\* left the list (the lookup by number at event_loop.cpp:28 relies on it).
EventReachesItsHandle ==
  \A f \in Fd : events[f] # NoObj => m_hdls[f] \in {events[f], NoObj}

\* The loop only returns when nothing is left that could wake it, and then
\* holds no descriptor open but those an application map holds.
ExitLeavesNothing ==
  pc = "exited" =>
    \A o \in Obj : m_fd_result[o] # NoFd => o \in kept

\* node::Server forgets a connection when it is gone (node/server.cpp:88-92).
ClosedIsForgotten == pc = "wait" => \A c \in kept : Registered(c)

\* A connection that may carry data leaves the loop only through an event of
\* its own: no timeout, retry or accept of another handle removes it.
Usable(c) == Registered(c) /\ ~Connecting(c)
RemovedByItsOwnEvent ==
  [][\A c \in Conn : Usable(c) /\ ~Registered(c)' =>
       events[m_fd_result[c]] # NoObj /\ events'[m_fd_result[c]] = NoObj]_vars

\* An event of the batch loses its handle in one way only: a Timer earlier in the
\* batch removed the attempt it was for, which was still connecting
\* (event_loop.cpp:24-41, 60).  Events of Timers, of the listener and of
\* connections that carry data always meet the handle they were raised for.
Meets(f) == events[f] # NoObj /\ m_hdls[f] = events[f]
StrandedByItsTimeout ==
  [][\A f \in Fd : Meets(f) /\ events'[f] # NoObj /\ ~Meets(f)' =>
       /\ Connecting(events[f])
       /\ \E g \in Fd : /\ events[g] # NoObj /\ events'[g] = NoObj
                       /\ m_hdls[g] \in Timer
                       /\ m_timeout_cb[m_hdls[g]] = events[f]]_vars

\* Once accept() meets a full descriptor table the thread never leaves the
\* accept loop again (server.cpp:108-111 retries, and nothing else on this
\* thread can close a descriptor meanwhile).
ExhaustionIsForGood ==
  [][pc = "accept" /\ FreeFds = {} => pc' = "accept" /\ FreeFds' = {}]_vars

-----------------------------------------------------------------------------
(* What the loop promises its handles *)

Listed == {o \in Obj : Registered(o)}

\* The calls of on_data that are under way to a handle: one if its descriptor is
\* in the ready list, one if the batch still names it.  A Timer's descriptor is
\* in both at once, but the Timer is called once.
Due ==
  [o \in Obj |->
     LET f       == m_fd_result[o]
         waiting == IF f \in ready THEN 1 ELSE 0
         called  == IF events[f] # NoObj THEN 1 ELSE 0
     IN IF ~Registered(o) THEN 0
        ELSE IF o \in Timer /\ waiting = 1 THEN 1
        ELSE waiting + called]

\* The events of the batch whose descriptor has no handle at present.
StrayFds == {f \in Fd : events[f] # NoObj /\ m_hdls[f] = NoObj}
Strays == Cardinality(StrayFds)

Loop == INSTANCE Reactor WITH
          Sockets <- Conn \cup {Listener}, Attempts <- CConn, Timers <- Timer,
          Nobody <- NoObj, listed <- Listed, due <- Due,
          bounds <- m_timeout_cb, connected <- m_connected, strays <- Strays

\* Batches, descriptors that are reused and the kernel's edges amount to calls
\* that are made once for each signal, and for strays only: the loop implements
\* Reactor (event_loop.cpp:18-70).
ReactorSpec == Loop!Spec

-----------------------------------------------------------------------------
(* Fairness and liveness *)

\* The thread keeps running whatever it can run (one event after the other, in
\* any order); the kernel's ready list is a queue, so no descriptor that keeps
\* being ready is left out of batches for ever; timerfds expire; accept()
\* errors are transient.  Nothing is assumed of peers.
Fairness ==
  /\ WF_vars(StartLoop)
  /\ WF_vars(\E batch \in SUBSET Fd : EpollWait(batch))
  /\ \A f \in Fd : SF_vars(\E batch \in SUBSET Fd : f \in batch /\ EpollWait(batch))
  /\ WF_vars(\E f \in Fd : Dispatch(f))
  /\ WF_vars(BatchDone)
  /\ WF_vars(Accept)
  /\ SF_vars(AcceptOne)
  /\ \A t \in Timer : WF_vars(Expire(t))

FairSpec == Spec /\ Fairness

Spinning == pc = "accept" /\ FreeFds = {}

\* An attempt that was added with a timeout is eventually established, failed,
\* or out of the loop; unless accept() spins on a full table.
TimedAttemptResolves ==
  \A c \in CConn, t \in Timer :
    (m_timeout_cb[t] = c) ~> (m_timeout_cb[t] # c \/ Spinning)

\* Whatever happens to a connection's socket is eventually handled.
PendingIsServed ==
  \A c \in Conn : (c \in pending) ~> (c \notin pending \/ Spinning)

\* The accept loop ends, or spins on a full table.
AcceptReturns == (pc = "accept") ~> (pc = "batch" \/ Spinning)
=============================================================================
