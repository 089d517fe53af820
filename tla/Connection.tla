---------------------------- MODULE Connection ----------------------------
(***************************************************************************)
(* tcp::Connection of src/net/tcp/connection.cpp from the moment it is     *)
(* connected until on_data returns false: the send queue, its flushing on  *)
(* EPOLLOUT, the receive loop, and the order in which on_data looks at the *)
(* events.  Every system call is a step, so that the kernel and the peer   *)
(* act between any two: acknowledge or deliver bytes, close, reset.  The   *)
(* descriptor is registered edge-triggered (EPOLLET, EPOLLIN, EPOLLOUT).   *)
(*                                                                         *)
(* A std::vector<uint8_t> on the way out is the interval of the bytes it   *)
(* holds, numbered in the order of the calls to send: [lo, hi] stands for  *)
(* the bytes lo+1..hi.  On the way in only the number of bytes matters,    *)
(* because recv hands them out in order.                                   *)
(***************************************************************************)
EXTENDS Integers, Sequences

CONSTANTS
  Sizes,       \* the lengths of the vectors the application sends
  SndBuf,      \* the socket's send buffer, in bytes
  CHUNK_SIZE,  \* the most one ::recv asks for (4096)
  Batch,       \* recv's max: what on_data processes at a time (104857600)
  SoftErrors,  \* can ::send fail and work again later (ENOBUFS, ENOMEM)?
  MaxWritten,  \* bound: bytes the application sends in all
  MaxArrived,  \* bound: bytes the peer sends in all
  MaxQueued    \* bound: vectors in the queue when the application sends another

ASSUME SizesAssumption == Sizes \subseteq Nat
ASSUME BuffersAssumption == /\ SndBuf \in Nat \ {0} /\ CHUNK_SIZE \in Nat \ {0}
                            /\ Batch \in Nat \ {0}
ASSUME SoftErrorsAssumption == SoftErrors \in BOOLEAN
ASSUME BoundsAssumption == /\ MaxWritten \in Nat /\ MaxArrived \in Nat
                           /\ MaxQueued \in Nat \ {0}

VARIABLES
  m_send_ready, m_flushing,
  m_send_queue,  \* a sequence of intervals
  pc,            \* what the thread is doing with this connection
  cur,           \* ::send loop: what is left of data (data.begin() + total_sent)
  ret,           \* who called send: the pc to return to
  evs,           \* the events epoll_wait reported
  buf, again,    \* recv: buf.size() and the result
  sock,          \* kernel: the socket, see Init
  written,       \* history: bytes handed to send
  wire,          \* history: the bytes ::send took, in order
  broken,        \* history: ::send has failed
  arrived,       \* history: bytes the peer sent
  delivered      \* history: bytes handed to m_message_cb

queueVars == <<m_send_ready, m_flushing, m_send_queue>>
dataVars  == <<evs, buf, again>>
outVars   == <<written, wire, broken>>
inVars    == <<arrived, delivered>>
vars == <<queueVars, pc, cur, ret, dataVars, sock, outVars, inVars>>

Interval(lo, hi) == [lo |-> lo, hi |-> hi]
NoData == Interval(0, 0)
Size(data) == data.hi - data.lo
Smaller(a, b) == IF a < b THEN a ELSE b

Space == SndBuf - sock.unacked
Gone  == sock.fin \/ sock.reset

Init ==
  /\ m_send_ready = TRUE /\ m_flushing = FALSE /\ m_send_queue = <<>>
  /\ pc = "idle" /\ cur = NoData /\ ret = "idle"
  /\ evs = {} /\ buf = 0 /\ again = FALSE
  /\ sock = [raised  |-> TRUE,   \* in epoll's ready list; it starts writable
             nospace |-> FALSE,  \* was the send buffer found full (SOCK_NOSPACE)?
             unacked |-> 0,      \* bytes in the send buffer
             avail   |-> 0,      \* bytes waiting to be received
             fin     |-> FALSE,  \* the peer has closed
             reset   |-> FALSE]  \* the peer has reset the connection
  /\ written = 0 /\ wire = <<>> /\ broken = FALSE
  /\ arrived = 0 /\ delivered = 0

-----------------------------------------------------------------------------
(* Connection::send *)

\* The application may send whenever its code runs: in m_message_cb, or in a
\* callback of another handle before or after this one's event.
AppSends(n) ==
  /\ pc \in {"idle", "polled", "callback"}
  /\ written + n <= MaxWritten /\ Len(m_send_queue) < MaxQueued
  /\ written' = written + n

\* Not ready: the whole vector is queued, Ok(0).
SendQueued(n) ==
  /\ AppSends(n)
  /\ ~m_send_ready
  /\ m_send_queue' = Append(m_send_queue, Interval(written, written + n))
  /\ UNCHANGED <<m_send_ready, m_flushing, pc, cur, ret, dataVars, sock, wire,
                 broken, inVars>>

\* Mutant: what is queued is overtaken.
SendCalled_Overtakes(n) ==
  /\ AppSends(n)
  /\ pc' = "send" /\ ret' = pc
  /\ cur' = Interval(written, written + n)
  /\ UNCHANGED <<queueVars, dataVars, sock, wire, broken, inVars>>

SendCalled(n) ==
  /\ AppSends(n)
  /\ m_send_ready
  /\ pc' = "send" /\ ret' = pc
  /\ cur' = Interval(written, written + n)
  /\ UNCHANGED <<queueVars, dataVars, sock, wire, broken, inVars>>

\* Mutant: one byte too many is offered.
Offered_TooMuch == Size(cur) + 1

\* What ::send is given: data.size() - total_sent bytes.
Offered == Size(cur)

\* ::send takes at least one byte, at most what there is room for.
SendSome(k) ==
  /\ pc = "send" /\ ~sock.reset
  /\ k \in 1..Smaller(Offered, Space)
  /\ wire' = wire \o [i \in 1..k |-> cur.lo + i]
  /\ cur' = Interval(cur.lo + k, cur.hi)
  /\ sock' = [sock EXCEPT !.unacked = @ + k]
  /\ UNCHANGED <<queueVars, pc, ret, dataVars, written, broken, inVars>>

\* The call is over; its locals are gone.
ReturnTo(p) == pc' = p /\ cur' = NoData /\ ret' = "idle"

\* The loop is left: back to the application, or to the flush.
SendReturns == IF ret = "flush" THEN pc' = "flushed" /\ UNCHANGED <<cur, ret>>
               ELSE ReturnTo(ret)

\* Mutant: the rest is queued during a flush too.
Requeued_Twice == Append(m_send_queue, cur)

\* Mutant: the rest is never queued.
Requeued_Not == m_send_queue

\* EAGAIN: the rest is queued unless it is the queue's front that is being
\* flushed, which flush_send_queue itself puts back.
Requeued == IF m_flushing THEN m_send_queue ELSE Append(m_send_queue, cur)

SendBlocked ==
  /\ pc = "send" /\ ~sock.reset
  /\ Size(cur) > 0 /\ Space = 0
  /\ sock' = [sock EXCEPT !.nospace = TRUE]
  /\ m_send_queue' = Requeued
  /\ m_send_ready' = FALSE
  /\ SendReturns
  /\ UNCHANGED <<m_flushing, dataVars, outVars, inVars>>

\* Any other error is returned, in the middle of the vector or not; and
\* flush_send_queue returns it in turn, to on_data, which does not look at it.
SendFailed ==
  /\ pc = "send" /\ Size(cur) > 0
  /\ sock.reset \/ SoftErrors
  /\ broken' = TRUE
  /\ ReturnTo(IF ret = "flush" THEN "checks" ELSE ret)
  /\ UNCHANGED <<queueVars, dataVars, sock, written, wire, inVars>>

SendDone ==
  /\ pc = "send" /\ Size(cur) = 0
  /\ SendReturns
  /\ UNCHANGED <<queueVars, dataVars, sock, outVars, inVars>>

-----------------------------------------------------------------------------
(* Connection::flush_send_queue *)

FlushNext ==
  /\ pc = "flush"
  /\ m_send_queue # <<>> /\ m_send_ready
  /\ pc' = "send" /\ ret' = "flush"
  /\ cur' = Head(m_send_queue)
  /\ UNCHANGED <<queueVars, dataVars, sock, outVars, inVars>>

\* Mutant: m_flushing is not reset when the socket is full.
FlushRequeued_Flushing ==
  /\ pc = "flushed" /\ Size(cur) > 0
  /\ m_send_queue' = [m_send_queue EXCEPT ![1] = cur]
  /\ ReturnTo("checks")
  /\ UNCHANGED <<m_send_ready, m_flushing, dataVars, sock, outVars, inVars>>

\* send returned less than the vector: the rest replaces the front.
FlushRequeued ==
  /\ pc = "flushed" /\ Size(cur) > 0
  /\ m_send_queue' = [m_send_queue EXCEPT ![1] = cur]
  /\ m_flushing' = FALSE
  /\ ReturnTo("checks")
  /\ UNCHANGED <<m_send_ready, dataVars, sock, outVars, inVars>>

FlushPopped ==
  /\ pc = "flushed" /\ Size(cur) = 0
  /\ m_send_queue' = Tail(m_send_queue)
  /\ ReturnTo("flush")
  /\ UNCHANGED <<m_send_ready, m_flushing, dataVars, sock, outVars, inVars>>

FlushDone ==
  /\ pc = "flush"
  /\ m_send_queue = <<>> \/ ~m_send_ready
  /\ m_flushing' = FALSE
  /\ pc' = "checks"
  /\ UNCHANGED <<m_send_ready, m_send_queue, cur, ret, dataVars, sock, outVars,
                 inVars>>

-----------------------------------------------------------------------------
(* epoll_wait and Connection::on_data *)

\* epoll reports everything that holds when it is asked; asking whether there
\* is room to send, tcp_poll marks a full buffer.
EpollWait ==
  /\ pc = "idle" /\ sock.raised
  /\ evs' = {e \in {"OUT", "IN", "HUP", "ERR"} :
               \/ sock.reset
               \/ e = "OUT" /\ Space > 0
               \/ e = "IN" /\ (sock.avail > 0 \/ sock.fin)}
  /\ sock' = [sock EXCEPT !.nospace = @ \/ Space = 0, !.raised = FALSE]
  /\ pc' = "polled"
  /\ UNCHANGED <<queueVars, cur, ret, buf, again, outVars, inVars>>

\* Mutant: EPOLLOUT is noted, but nothing is flushed.
OnWritable_NoFlush ==
  /\ pc = "polled" /\ "OUT" \in evs
  /\ m_send_ready' = TRUE /\ pc' = "checks"
  /\ UNCHANGED <<m_flushing, m_send_queue, cur, ret, dataVars, sock, outVars, inVars>>

\* is_connected holds, and EPOLLOUT flushes.
OnWritable ==
  /\ pc = "polled" /\ "OUT" \in evs
  /\ m_send_ready' = TRUE /\ m_flushing' = TRUE
  /\ pc' = "flush"
  /\ UNCHANGED <<m_send_queue, cur, ret, dataVars, sock, outVars, inVars>>

NotWritable ==
  /\ pc = "polled" /\ "OUT" \notin evs
  /\ pc' = "checks"
  /\ UNCHANGED <<queueVars, cur, ret, dataVars, sock, outVars, inVars>>

\* Mutant: a closed peer (RDHUP) is looked at before the input.
AfterFlush_HangupFirst ==
  IF evs \cap {"HUP", "ERR"} # {} \/ sock.fin THEN "closed"
  ELSE IF "IN" \in evs THEN "recv" ELSE "idle"

\* HUP or ERR closes without reading; then IN reads.
AfterFlush ==
  IF evs \cap {"HUP", "ERR"} # {} THEN "closed"
  ELSE IF "IN" \in evs THEN "recv" ELSE "idle"

Checks ==
  /\ pc = "checks"
  /\ pc' = AfterFlush
  /\ buf' = 0
  /\ UNCHANGED <<queueVars, cur, ret, evs, again, sock, outVars, inVars>>

-----------------------------------------------------------------------------
(* Connection::recv *)

\* What recv asks for; the test in the code is the wrong way round, so it is
\* always a whole chunk.
RecvSize == IF buf > Batch THEN Batch - buf ELSE CHUNK_SIZE

RecvSome(k) ==
  /\ pc = "recv"
  /\ k \in 1..Smaller(RecvSize, sock.avail)
  /\ buf' = buf + k
  /\ sock' = [sock EXCEPT !.avail = @ - k]
  /\ again' = (buf' >= Batch)
  /\ IF again' THEN pc' = "callback" /\ delivered' = delivered + buf'
               ELSE UNCHANGED <<pc, delivered>>
  /\ UNCHANGED <<queueVars, cur, ret, evs, outVars, arrived>>

\* Mutant: no callback for the last, incomplete batch.
RecvBlocked_Silent ==
  /\ pc = "recv" /\ sock.avail = 0 /\ ~Gone
  /\ again' = FALSE /\ pc' = "callback"
  /\ UNCHANGED <<queueVars, cur, ret, evs, buf, sock, outVars, inVars>>

\* EAGAIN: what was collected, perhaps nothing, goes to m_message_cb.
RecvBlocked ==
  /\ pc = "recv" /\ sock.avail = 0 /\ ~Gone
  /\ again' = FALSE
  /\ pc' = "callback"
  /\ delivered' = delivered + buf
  /\ UNCHANGED <<queueVars, cur, ret, evs, buf, sock, outVars, arrived>>

\* Mutant: 0 from ::recv is taken for "nothing there".
RecvFailed_Ignored ==
  /\ pc = "recv" /\ sock.avail = 0 /\ Gone
  /\ pc' = "idle"
  /\ UNCHANGED <<queueVars, cur, ret, dataVars, sock, outVars, inVars>>

\* End of stream or an error: Err, with whatever buf holds.
RecvFailed ==
  /\ pc = "recv" /\ sock.avail = 0 /\ Gone
  /\ pc' = "closed"
  /\ UNCHANGED <<queueVars, cur, ret, dataVars, sock, outVars, inVars>>

\* Mutant: one batch per event.
AfterCallback_Once == "idle"

\* while (again)
AfterCallback == IF again THEN "recv" ELSE "idle"

CallbackDone ==
  /\ pc = "callback"
  /\ pc' = AfterCallback
  /\ buf' = 0
  /\ UNCHANGED <<queueVars, cur, ret, evs, again, sock, outVars, inVars>>

\* on_data returned false and the loop erased the entry.
Closed == pc = "closed" /\ UNCHANGED vars

-----------------------------------------------------------------------------
(* The peer and the kernel *)

Kernel(s) ==
  /\ pc # "closed" /\ ~sock.reset
  /\ sock' = s
  /\ UNCHANGED <<queueVars, pc, cur, ret, dataVars, outVars, delivered>>

\* Acknowledged bytes leave the send buffer; if it was found full, EPOLLOUT.
Acknowledge(k) ==
  /\ k \in 1..sock.unacked
  /\ Kernel([sock EXCEPT !.unacked = @ - k, !.nospace = FALSE,
                         !.raised = @ \/ sock.nospace])
  /\ UNCHANGED arrived

Arrive(k) ==
  /\ ~sock.fin
  /\ arrived + k <= MaxArrived
  /\ arrived' = arrived + k
  /\ Kernel([sock EXCEPT !.avail = @ + k, !.raised = TRUE])

PeerCloses ==
  /\ ~sock.fin
  /\ Kernel([sock EXCEPT !.fin = TRUE, !.raised = TRUE])
  /\ UNCHANGED arrived

PeerResets ==
  /\ Kernel([sock EXCEPT !.reset = TRUE, !.raised = TRUE])
  /\ UNCHANGED arrived

-----------------------------------------------------------------------------
Send   == (\E k \in 1..SndBuf : SendSome(k)) \/ SendBlocked \/ SendFailed \/ SendDone
Flush  == FlushNext \/ FlushRequeued \/ FlushPopped \/ FlushDone
OnData == OnWritable \/ NotWritable \/ Checks
Recv   == (\E k \in 1..CHUNK_SIZE : RecvSome(k)) \/ RecvBlocked \/ RecvFailed

\* What the thread does by itself.
Thread == Send \/ Flush \/ EpollWait \/ OnData \/ Recv \/ CallbackDone

Peer == \/ \E k \in 1..SndBuf : Acknowledge(k)
        \/ \E k \in 1..MaxArrived : Arrive(k)
        \/ PeerCloses
        \/ PeerResets

Next ==
  \/ \E n \in Sizes : SendQueued(n) \/ SendCalled(n)
  \/ Thread
  \/ Peer
  \/ Closed

Spec == Init /\ [][Next]_vars

-----------------------------------------------------------------------------
(* Properties *)

Intervals == {d \in [lo : 0..MaxWritten, hi : 0..MaxWritten] : d.lo <= d.hi}

\* Type invariant.
TypeOK ==
  /\ m_send_ready \in BOOLEAN /\ m_flushing \in BOOLEAN
  /\ m_send_queue \in Seq(Intervals)
  /\ pc \in {"idle", "polled", "send", "flush", "flushed", "checks", "recv",
             "callback", "closed"}
  /\ cur \in Intervals
  /\ ret \in {"idle", "polled", "callback", "flush"}
  /\ evs \subseteq {"OUT", "IN", "HUP", "ERR"}
  /\ buf \in 0..MaxArrived /\ again \in BOOLEAN
  /\ sock \in [raised : BOOLEAN, nospace : BOOLEAN, unacked : 0..SndBuf,
               avail : 0..MaxArrived, fin : BOOLEAN, reset : BOOLEAN]
  /\ written \in 0..MaxWritten /\ wire \in Seq(1..MaxWritten)
  /\ broken \in BOOLEAN
  /\ arrived \in 0..MaxArrived /\ delivered \in 0..MaxArrived

\* flush_send_queue has copied the queue's front out to send it.
FrontOut == pc = "flushed" \/ (pc = "send" /\ ret = "flush")

\* The bytes not yet on the wire, in the order they will be sent.
Unsent ==
  IF FrontOut THEN <<cur>> \o Tail(m_send_queue)
  ELSE IF pc = "send" THEN <<cur>> \o m_send_queue ELSE m_send_queue

\* Until the socket fails, what is on the wire and what is still to be sent are
\* together exactly the bytes given to send, in order, each once: EAGAIN in the
\* middle of a vector, a partial flush and a later send neither lose, repeat
\* nor reorder a byte (connection.cpp:26-60, 107-131).
NothingLost ==
  ~broken =>
    /\ wire = [i \in 1..Len(wire) |-> i]
    /\ IF Unsent = <<>> THEN Len(wire) = written
       ELSE /\ Unsent[1].lo = Len(wire)
            /\ Unsent[Len(Unsent)].hi = written
            /\ \A i \in 1..(Len(Unsent) - 1) : Unsent[i].hi = Unsent[i + 1].lo

\* m_send_ready says whether the queue is empty, which is what send relies on
\* when it bypasses the queue (connection.cpp:17); it may be wrong only while a
\* flush is running, or after ::send failed.
ReadyMeansEmpty ==
  ~broken /\ pc # "flush" /\ ~FrontOut => (m_send_ready <=> m_send_queue = <<>>)

\* m_flushing outlives the flush only if ::send failed under it with vectors
\* still queued (connection.cpp:111-113): in a connection that has not failed,
\* EAGAIN in a later send therefore queues what is left (connection.cpp:33).
StaleFlushing ==
  m_flushing /\ pc # "flush" /\ ~FrontOut =>
    broken /\ m_send_queue # <<>>

\* When the thread is back in epoll_wait, whatever there is to do will wake it:
\* queued bytes, because the socket was found full or is already raised; bytes
\* to read, an end of stream or a reset, because they are raised.  With
\* edge-triggered epoll nothing else would.
WillBeWoken ==
  pc = "idle" /\ ~broken =>
    /\ m_send_queue # <<>> => sock.nospace \/ sock.raised
    /\ sock.avail > 0 \/ Gone => sock.raised

\* Back in epoll_wait, every byte taken from the kernel was handed to
\* m_message_cb.
TakenIsDelivered ==
  pc \in {"idle", "polled"} => delivered + sock.avail = arrived

\* A close by the peer, unlike a reset, loses no byte but those recv had
\* collected in its last, failing call (connection.cpp:84-94, 172-178).
ClosedByPeerLoses ==
  pc = "closed" /\ ~sock.reset =>
    sock.fin /\ sock.avail = 0 /\ delivered + buf = arrived

\* recv never collects more than it was asked to ("process 100mb at a time",
\* connection.cpp:170).
BatchBounded == buf <= Batch

\* The send path implements SendStream.
Stream == INSTANCE SendStream WITH accepted <- written
StreamSpec == Stream!Spec

-----------------------------------------------------------------------------
(* Fairness and liveness *)

\* The thread keeps going; as application code ends, calls of send (even of
\* empty vectors) do not keep it out of epoll_wait and on_data for ever; and a
\* peer that is alive acknowledges what it is sent.
Fairness ==
  /\ WF_vars(Thread)
  /\ SF_vars(EpollWait \/ OnData \/ CallbackDone)
  /\ WF_vars(\E k \in 1..SndBuf : Acknowledge(k))

FairSpec == Spec /\ Fairness

\* Queued bytes are sent eventually, unless the socket fails or is closed: the
\* rest of a partly sent vector is not stranded in the queue by a lost EPOLLOUT.
QueueDrains ==
  (m_send_queue # <<>>) ~> (m_send_queue = <<>> \/ broken \/ pc = "closed")

\* A close or a reset by the peer is noticed eventually, whatever the thread is
\* doing with the connection when it happens.
EndIsNoticed == Gone ~> (pc = "closed")
=============================================================================
