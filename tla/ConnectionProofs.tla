-------------------------- MODULE ConnectionProofs --------------------------
(***************************************************************************)
(* Proofs about Connection, for every buffer size, chunk, batch and bound. *)
(* Inv types the variables and says what the flags of the send queue mean;  *)
(* WakeInv says, place by place, what epoll still owes the thread; Lossless *)
(* that the wire, the vector in hand and the queue are one sequence.        *)
(***************************************************************************)
EXTENDS Connection, SequenceTheorems, TLAPS

\* What the flags say about the flush: it is running exactly when m_flushing is
\* set, unless a failed ::send left the flag behind; and the vector in hand is
\* the queue's front.
SendInv ==
  /\ pc = "flush" \/ FrontOut => m_flushing
  /\ ~broken /\ pc # "flush" /\ ~FrontOut => ~m_flushing
  /\ FrontOut => m_send_queue # <<>>
  /\ pc \in {"flush", "send"} => m_send_ready
  /\ pc = "flushed" => (m_send_ready <=> Size(cur) = 0)
  /\ ReadyMeansEmpty
  /\ StaleFlushing

Sockets == [raised : BOOLEAN, nospace : BOOLEAN, unacked : 0..SndBuf,
            avail : 0..MaxArrived, fin : BOOLEAN, reset : BOOLEAN]

\* Bytes collected by recv and not yet handed over.
Collected == IF pc \in {"recv", "closed"} THEN buf ELSE 0

InInv ==
  /\ delivered + Collected + sock.avail = arrived
  /\ evs \cap {"HUP", "ERR"} # {} => sock.reset
  /\ pc = "closed" /\ ~sock.reset => sock.fin /\ sock.avail = 0

Inv == TypeOK /\ SendInv /\ InInv

\* The initial state.
LEMMA InitInv == Init => Inv
<1> SUFFICES ASSUME Init PROVE Inv
  OBVIOUS
<1> USE SizesAssumption, BuffersAssumption, BoundsAssumption DEF Init
<1>1. TypeOK
  <2>1. cur \in Intervals
    BY DEF NoData, Interval, Intervals
  <2>2. sock \in Sockets
    BY DEF Sockets
  <2>3. m_send_queue \in Seq(Intervals) /\ wire \in Seq(1..MaxWritten)
    BY EmptySeq
  <2>4. /\ buf \in 0..MaxArrived /\ arrived \in 0..MaxArrived
        /\ delivered \in 0..MaxArrived /\ written \in 0..MaxWritten
    OBVIOUS
  <2> HIDE SizesAssumption, BuffersAssumption, BoundsAssumption
  <2> QED  BY <2>1, <2>2, <2>3, <2>4, Zenon DEF TypeOK, Sockets
<1>2. SendInv
  BY DEF SendInv, FrontOut, ReadyMeansEmpty, StaleFlushing
<1>3. InInv
  BY DEF InInv, Collected
<1> QED  BY <1>1, <1>2, <1>3 DEF Inv

-----------------------------------------------------------------------------
(* Every step preserves the type invariant *)

\* A vector's bytes form an interval of those written.
LEMMA IntervalIsTyped ==
  ASSUME NEW lo \in 0..MaxWritten, NEW hi \in lo..MaxWritten
  PROVE  /\ Interval(lo, hi) \in Intervals
         /\ Interval(lo, hi).lo = lo /\ Interval(lo, hi).hi = hi
BY BoundsAssumption DEF Interval, Intervals

\* The vector in hand is an interval of bytes written.
LEMMA CurIsTyped ==
  ASSUME TypeOK
  PROVE  /\ cur.lo \in 0..MaxWritten /\ cur.hi \in cur.lo..MaxWritten
         /\ Size(cur) \in 0..MaxWritten
BY BoundsAssumption DEF TypeOK, Intervals, Size

\* No vector in hand.
LEMMA NoDataIsTyped == NoData \in Intervals
BY BoundsAssumption DEF NoData, Interval, Intervals

\* What ::send takes.
LEMMA TakenIsTyped ==
  ASSUME NEW lo \in Nat, NEW k \in Nat, lo + k <= MaxWritten
  PROVE  /\ [i \in 1..k |-> lo + i] \in Seq(1..MaxWritten)
         /\ Len([i \in 1..k |-> lo + i]) = k
<1> DEFINE t == [i \in 1..k |-> lo + i]
<1>1. t \in [1..k -> 1..MaxWritten]
  BY BoundsAssumption
<1>2. t \in Seq(1..MaxWritten)
  <2>1. Seq(1..MaxWritten) = UNION {[1..n -> 1..MaxWritten] : n \in Nat}
    BY SeqDef
  <2> HIDE DEF t
  <2> QED  BY <1>1, <2>1
<1>3. Len(t) = k
  BY <1>2, LenProperties
<1> QED  BY <1>2, <1>3

\* Connection::send (connection.cpp:14-61).
LEMMA SendIsTyped ==
  ASSUME Inv, Send
  PROVE  TypeOK'
<1> USE SizesAssumption, BuffersAssumption, BoundsAssumption DEF dataVars, inVars,
    outVars, queueVars
<1> TypeOK
  BY DEF Inv
<1>1. ASSUME NEW k \in 1..SndBuf, SendSome(k) PROVE TypeOK'
  <2>1. k \in 1..Size(cur) /\ sock.unacked + k \in 0..SndBuf
    <3>1. sock.unacked \in 0..SndBuf /\ Size(cur) \in Nat
      BY CurIsTyped DEF TypeOK
    <3>2. k \in 1..Smaller(Size(cur), SndBuf - sock.unacked)
      BY <1>1 DEF SendSome, Offered, Space
    <3>3. k \in 1..Size(cur) /\ k <= SndBuf - sock.unacked
      BY <3>1, <3>2, BuffersAssumption DEF Smaller
    <3> QED  BY <3>1, <3>3, BuffersAssumption
  <2>2. cur.lo + k \in 0..MaxWritten /\ cur.hi \in (cur.lo + k)..MaxWritten
    BY <2>1, CurIsTyped DEF Size
  <2>3. cur' \in Intervals
    BY <1>1, <2>2, IntervalIsTyped DEF SendSome
  <2>4. wire' \in Seq(1..MaxWritten)
    <3>1. [i \in 1..k |-> cur.lo + i] \in Seq(1..MaxWritten)
      BY <2>2, CurIsTyped, TakenIsTyped
    <3> QED  BY <1>1, <3>1, ConcatProperties DEF SendSome, TypeOK
  <2>5. sock' \in Sockets
    BY <1>1, <2>1 DEF SendSome, TypeOK, Sockets
  <2> QED  BY <1>1, <2>3, <2>4, <2>5 DEF SendSome, TypeOK, Sockets
<1>2. CASE SendBlocked
  <2>1. m_send_queue' \in Seq(Intervals)
    BY <1>2, AppendProperties DEF SendBlocked, Requeued, TypeOK
  <2>2. sock' \in Sockets
    BY <1>2 DEF SendBlocked, TypeOK, Sockets
  <2> QED  BY <1>2, <2>1, <2>2, NoDataIsTyped DEF SendBlocked, SendReturns, ReturnTo, TypeOK,
                Sockets
<1>3. CASE SendFailed
  BY <1>3, NoDataIsTyped DEF SendFailed, ReturnTo, TypeOK
<1>4. CASE SendDone
  BY <1>4, NoDataIsTyped DEF SendDone, SendReturns, ReturnTo, TypeOK
<1> QED  BY <1>1, <1>2, <1>3, <1>4 DEF Send

\* Connection::flush_send_queue (connection.cpp:107-131).
LEMMA FlushIsTyped ==
  ASSUME Inv, Flush
  PROVE  TypeOK'
<1> USE DEF dataVars, inVars, outVars, queueVars
<1> TypeOK /\ SendInv
  BY DEF Inv
<1>1. CASE FlushNext
  BY <1>1, HeadTailProperties DEF FlushNext, TypeOK
<1>2. CASE FlushRequeued
  <2>1. 1 \in 1..Len(m_send_queue)
    BY <1>2, EmptySeq DEF FlushRequeued, TypeOK, SendInv, FrontOut
  <2>2. m_send_queue' \in Seq(Intervals)
    BY <1>2, <2>1, ExceptSeq DEF FlushRequeued, TypeOK
  <2> QED  BY <1>2, <2>2, NoDataIsTyped DEF FlushRequeued, ReturnTo, TypeOK
<1>3. CASE FlushPopped
  <2>1. m_send_queue' \in Seq(Intervals)
    BY <1>3, HeadTailProperties DEF FlushPopped, TypeOK, SendInv, FrontOut
  <2> QED  BY <1>3, <2>1, NoDataIsTyped DEF FlushPopped, ReturnTo, TypeOK
<1>4. CASE FlushDone
  BY <1>4 DEF FlushDone, TypeOK
<1> QED  BY <1>1, <1>2, <1>3, <1>4 DEF Flush

\* epoll_wait and on_data (connection.cpp:140-189).
LEMMA OnDataIsTyped ==
  ASSUME Inv, EpollWait \/ OnData \/ CallbackDone
  PROVE  TypeOK'
<1> USE BoundsAssumption DEF dataVars, inVars, outVars, queueVars
<1> TypeOK
  BY DEF Inv
<1>1. CASE EpollWait
  <2>1. sock' \in Sockets
    BY <1>1 DEF EpollWait, TypeOK, Sockets
  <2>2. evs' \subseteq {"OUT", "IN", "HUP", "ERR"}
    BY <1>1 DEF EpollWait
  <2> QED  BY <1>1, <2>1, <2>2 DEF EpollWait, TypeOK, Sockets
<1>2. CASE OnWritable
  BY <1>2 DEF OnWritable, TypeOK
<1>3. CASE NotWritable
  BY <1>3 DEF NotWritable, TypeOK
<1>4. CASE Checks
  BY <1>4 DEF Checks, AfterFlush, TypeOK
<1>5. CASE CallbackDone
  BY <1>5 DEF CallbackDone, AfterCallback, TypeOK
<1> QED  BY <1>1, <1>2, <1>3, <1>4, <1>5 DEF OnData

\* Connection::recv: what is collected has arrived (connection.cpp:63-105).
LEMMA RecvIsTyped ==
  ASSUME Inv, Recv
  PROVE  TypeOK'
<1> USE BuffersAssumption, BoundsAssumption DEF inVars, outVars, queueVars, dataVars
<1> TypeOK /\ InInv
  BY DEF Inv
<1>1. ASSUME NEW k \in 1..CHUNK_SIZE, RecvSome(k) PROVE TypeOK'
  <2>1. sock.avail \in Nat /\ k \in 1..sock.avail
    <3>1. k \in 1..Smaller(RecvSize, sock.avail)
      BY <1>1 DEF RecvSome
    <3>2. sock.avail \in Nat /\ buf \in Nat
      BY DEF TypeOK
    <3>3. RecvSize \in Int
      BY <3>2 DEF RecvSize
    <3> QED  BY <3>1, <3>2, <3>3 DEF Smaller
  <2>2. delivered + buf + sock.avail = arrived
    BY <1>1 DEF InInv, Collected, RecvSome
  <2>3. buf' \in 0..MaxArrived /\ delivered' \in 0..MaxArrived
    <3>1. buf' = buf + k /\ delivered' \in {delivered, delivered + buf'}
      BY <1>1, Zenon DEF RecvSome
    <3>2. /\ buf \in Nat /\ delivered \in Nat /\ arrived \in 0..MaxArrived
          /\ buf + k <= sock.avail + buf
      BY <2>1 DEF TypeOK
    <3> QED  BY <2>1, <2>2, <3>1, <3>2
  <2>4. sock' \in Sockets
    <3>1. sock' = [sock EXCEPT !.avail = @ - k]
      BY <1>1 DEF RecvSome
    <3>2. sock.avail - k \in 0..MaxArrived
      BY <2>1 DEF TypeOK
    <3> QED  BY <3>1, <3>2 DEF TypeOK, Sockets
  <2>5. again' \in BOOLEAN /\ pc' \in {"recv", "callback"}
    <3>1. (buf' >= Batch) \in BOOLEAN
      OBVIOUS
    <3> QED  BY <1>1, <3>1, Zenon DEF RecvSome
  <2>6. UNCHANGED <<queueVars, cur, ret, evs, outVars, arrived>>
    BY <1>1 DEF RecvSome
  <2> QED  BY <2>3, <2>4, <2>5, <2>6 DEF TypeOK, Sockets
<1>2. CASE RecvBlocked
  <2>1. delivered + buf + sock.avail = arrived
    BY <1>2 DEF InInv, Collected, RecvBlocked
  <2>2. delivered' \in 0..MaxArrived
    BY <1>2, <2>1 DEF RecvBlocked, TypeOK
  <2> QED  BY <1>2, <2>2 DEF RecvBlocked, TypeOK
<1>3. CASE RecvFailed
  BY <1>3 DEF RecvFailed, TypeOK
<1> QED  BY <1>1, <1>2, <1>3 DEF Recv

\* The peer: what has arrived and was not taken is within the bound.
LEMMA PeerIsTyped ==
  ASSUME Inv, Peer
  PROVE  TypeOK'
<1> USE BuffersAssumption, BoundsAssumption DEF inVars, outVars, queueVars, dataVars,
    Kernel
<1> TypeOK /\ InInv
  BY DEF Inv
<1>1. ASSUME NEW k \in 1..SndBuf, Acknowledge(k) PROVE TypeOK'
  <2>1. sock.unacked - k \in 0..SndBuf
    <3>1. sock.unacked \in 0..SndBuf /\ k \in 1..sock.unacked
      BY <1>1 DEF Acknowledge, TypeOK
    <3> QED  BY <3>1
  <2>2. sock' \in Sockets
    BY <1>1, <2>1 DEF Acknowledge, TypeOK, Sockets
  <2> QED  BY <1>1, <2>2 DEF Acknowledge, TypeOK, Sockets
<1>2. ASSUME NEW k \in 1..MaxArrived, Arrive(k) PROVE TypeOK'
  <2>1. sock.avail + k \in 0..MaxArrived
    <3>1. Collected \in Nat
      BY DEF Collected, TypeOK
    <3>2. /\ sock.avail \in Nat /\ delivered \in Nat /\ arrived \in Nat
          /\ delivered + Collected + sock.avail = arrived
      BY DEF InInv, TypeOK
    <3>3. arrived + k <= MaxArrived
      BY <1>2 DEF Arrive
    <3> QED  BY <3>1, <3>2, <3>3
  <2>2. sock' \in Sockets
    BY <1>2, <2>1 DEF Arrive, TypeOK, Sockets
  <2>3. arrived' \in 0..MaxArrived
    <3>1. arrived \in Nat /\ arrived + k <= MaxArrived /\ arrived' = arrived + k
      BY <1>2 DEF Arrive, TypeOK
    <3> QED  BY <3>1
  <2>4. UNCHANGED <<queueVars, pc, cur, ret, dataVars, outVars, delivered>>
    BY <1>2 DEF Arrive
  <2> QED  BY <2>2, <2>3, <2>4 DEF TypeOK, Sockets
<1>3. CASE PeerCloses
  <2>1. sock' \in Sockets
    BY <1>3 DEF PeerCloses, TypeOK, Sockets
  <2> QED  BY <1>3, <2>1 DEF PeerCloses, TypeOK, Sockets
<1>4. CASE PeerResets
  <2>1. sock' \in Sockets
    BY <1>4 DEF PeerResets, TypeOK, Sockets
  <2> QED  BY <1>4, <2>1 DEF PeerResets, TypeOK, Sockets
<1> QED  BY <1>1, <1>2, <1>3, <1>4 DEF Peer

\* A vector the application sends is an interval of bytes written.
LEMMA AppWritesAnInterval ==
  ASSUME TypeOK, NEW n \in Sizes, AppSends(n)
  PROVE  Interval(written, written + n) \in Intervals /\ written + n \in 0..MaxWritten
<1> USE SizesAssumption, BoundsAssumption
<1>1. written \in 0..MaxWritten /\ written + n \in written..MaxWritten
  BY DEF TypeOK, AppSends
<1> QED  BY <1>1, IntervalIsTyped

\* The application sends.
LEMMA AppSendsIsTyped ==
  ASSUME Inv, NEW n \in Sizes, SendQueued(n) \/ SendCalled(n)
  PROVE  TypeOK'
<1> USE DEF inVars, outVars, queueVars, dataVars
<1> TypeOK
  BY DEF Inv
<1>1. Interval(written, written + n) \in Intervals /\ written + n \in 0..MaxWritten
  BY AppWritesAnInterval DEF SendQueued, SendCalled
<1>2. CASE SendQueued(n)
  BY <1>1, <1>2, AppendProperties DEF SendQueued, AppSends, TypeOK
<1>3. CASE SendCalled(n)
  BY <1>1, <1>3 DEF SendCalled, AppSends, TypeOK
<1> QED  BY <1>2, <1>3

\* Every step preserves the type invariant.
LEMMA StepIsTyped == Inv /\ [Next]_vars => TypeOK'
<1> SUFFICES ASSUME Inv, [Next]_vars PROVE TypeOK'
  OBVIOUS
<1>1. CASE UNCHANGED vars
  BY <1>1 DEF vars, queueVars, dataVars, inVars, outVars, Inv, TypeOK
<1> QED  BY <1>1, SendIsTyped, FlushIsTyped, OnDataIsTyped, RecvIsTyped, PeerIsTyped,
            AppSendsIsTyped DEF Next, Thread, Closed

-----------------------------------------------------------------------------
(* The input side *)

\* Only recv, the callbacks and the peer touch the input.
LEMMA InputUntouched ==
  ASSUME InInv, UNCHANGED <<buf, evs, inVars, sock.avail, sock.fin, sock.reset>>,
         pc \notin {"recv", "closed"}, pc' \notin {"recv", "closed"}
  PROVE  InInv'
BY DEF InInv, Collected, inVars

\* Every step preserves InInv.
LEMMA StepKeepsInInv ==
  ASSUME Inv, TypeOK', [Next]_vars
  PROVE  InInv'
<1> USE BuffersAssumption, BoundsAssumption DEF inVars, outVars, queueVars, dataVars
<1> TypeOK /\ InInv
  BY DEF Inv
<1>1. ASSUME NEW n \in Sizes, SendQueued(n) \/ SendCalled(n) PROVE InInv'
  BY <1>1, InputUntouched DEF SendQueued, SendCalled, AppSends
<1>2. CASE Send
  <2>1. ASSUME NEW k \in 1..SndBuf, SendSome(k) PROVE InInv'
    <3>1. UNCHANGED <<sock.avail, sock.fin, sock.reset>>
      BY <2>1 DEF SendSome, TypeOK
    <3> QED  BY <2>1, <3>1, InputUntouched DEF SendSome
  <2>2. CASE SendBlocked
    <3>1. UNCHANGED <<sock.avail, sock.fin, sock.reset>>
      BY <2>2 DEF SendBlocked, TypeOK
    <3> QED  BY <2>2, <3>1, InputUntouched DEF SendBlocked, SendReturns, ReturnTo, TypeOK
  <2>3. CASE SendFailed
    BY <2>3, InputUntouched DEF SendFailed, ReturnTo, TypeOK
  <2>4. CASE SendDone
    BY <2>4, InputUntouched DEF SendDone, SendReturns, ReturnTo, TypeOK
  <2> QED  BY <1>2, <2>1, <2>2, <2>3, <2>4 DEF Send
<1>3. CASE Flush
  BY <1>3, InputUntouched DEF Flush, FlushNext, FlushRequeued, FlushPopped, FlushDone,
                              ReturnTo
<1>4. CASE EpollWait
  <2>1. UNCHANGED <<sock.avail, sock.fin, sock.reset>>
    BY <1>4 DEF EpollWait, TypeOK
  <2>2. evs' \cap {"HUP", "ERR"} # {} => sock.reset
    BY <1>4 DEF EpollWait
  <2> QED  BY <1>4, <2>1, <2>2 DEF EpollWait, InInv, Collected
<1>5. CASE OnData
  <2>1. CASE OnWritable \/ NotWritable
    BY <2>1, InputUntouched DEF OnWritable, NotWritable
  <2>2. CASE Checks
    BY <2>2 DEF Checks, AfterFlush, InInv, Collected, TypeOK
  <2> QED  BY <1>5, <2>1, <2>2 DEF OnData
<1>6. CASE Recv
  <2>1. ASSUME NEW k \in 1..CHUNK_SIZE, RecvSome(k) PROVE InInv'
    <3>1. /\ sock'.avail = sock.avail - k
          /\ UNCHANGED <<sock.fin, sock.reset>>
      BY <2>1 DEF RecvSome, TypeOK
    <3>2. /\ pc = "recv" /\ buf' = buf + k /\ UNCHANGED <<evs, arrived>>
          /\ \/ pc' = "recv" /\ delivered' = delivered
             \/ pc' = "callback" /\ delivered' = delivered + buf'
      BY <2>1, Zenon DEF RecvSome
    <3>3. delivered + buf + sock.avail = arrived
      BY <3>2 DEF InInv, Collected
    <3>4. (delivered + Collected + sock.avail = arrived)'
      <4>1. /\ delivered \in Nat /\ buf \in Nat /\ sock.avail \in Nat
            /\ Collected' = IF pc' = "recv" THEN buf' ELSE 0
        BY <3>2 DEF Collected, TypeOK
      <4> QED  BY <3>1, <3>2, <3>3, <4>1
    <3> QED  BY <3>1, <3>2, <3>4 DEF InInv
  <2>2. CASE RecvBlocked
    <3>1. delivered + buf + sock.avail = arrived /\ sock.avail = 0
      BY <2>2 DEF RecvBlocked, InInv, Collected
    <3>2. delivered' = delivered + buf /\ UNCHANGED <<sock, arrived, evs>> /\ pc' = "callback"
      BY <2>2 DEF RecvBlocked
    <3>3. delivered \in Nat /\ buf \in Nat
      BY DEF TypeOK
    <3>4. delivered' + 0 + sock'.avail = arrived'
      BY <3>1, <3>2, <3>3
    <3> QED  BY <3>2, <3>4 DEF InInv, Collected
  <2>3. CASE RecvFailed
    BY <2>3 DEF RecvFailed, InInv, Collected, Gone, TypeOK
  <2> QED  BY <1>6, <2>1, <2>2, <2>3 DEF Recv
<1>7. CASE CallbackDone
  BY <1>7 DEF CallbackDone, AfterCallback, InInv, Collected, TypeOK
<1>8. CASE Peer
  <2> USE DEF Kernel
  <2>1. ASSUME NEW k \in 1..SndBuf, Acknowledge(k) PROVE InInv'
    <3>1. UNCHANGED <<sock.avail, sock.fin, sock.reset>>
      BY <2>1 DEF Acknowledge, TypeOK
    <3> QED  BY <2>1, <3>1 DEF Acknowledge, InInv, Collected
  <2>2. ASSUME NEW k \in 1..MaxArrived, Arrive(k) PROVE InInv'
    <3>1. sock'.avail = sock.avail + k /\ UNCHANGED sock.reset
      BY <2>2 DEF Arrive, TypeOK
    <3>2. Collected' = Collected /\ Collected \in Nat
      BY <2>2 DEF Arrive, Collected, TypeOK
    <3>3. /\ arrived' = arrived + k /\ pc # "closed"
          /\ UNCHANGED <<pc, evs, delivered>>
      BY <2>2 DEF Arrive
    <3>4. sock.avail \in Nat /\ delivered \in Nat /\ k \in Nat
      BY DEF TypeOK
    <3> QED  BY <3>1, <3>2, <3>3, <3>4 DEF InInv
  <2>3. CASE PeerCloses
    <3>1. UNCHANGED <<sock.avail, sock.reset>>
      BY <2>3 DEF PeerCloses, TypeOK
    <3> QED  BY <2>3, <3>1 DEF PeerCloses, InInv, Collected
  <2>4. CASE PeerResets
    <3>1. sock'.reset /\ UNCHANGED sock.avail
      BY <2>4 DEF PeerResets, TypeOK
    <3> QED  BY <2>4, <3>1 DEF PeerResets, InInv, Collected
  <2> QED  BY <1>8, <2>1, <2>2, <2>3, <2>4 DEF Peer
<1>9. CASE UNCHANGED vars
  BY <1>9 DEF vars, InInv, Collected
<1> QED  BY <1>1, <1>2, <1>3, <1>4, <1>5, <1>6, <1>7, <1>8, <1>9 DEF Next, Thread, Closed

-----------------------------------------------------------------------------
(* The send queue and its flags *)

\* on_data and recv leave the queue and its flags alone.
LEMMA FlagsUntouched ==
  ASSUME SendInv, UNCHANGED <<queueVars, broken>>,
         pc \in {"idle", "polled", "checks", "recv", "callback", "closed"},
         pc' \in {"idle", "polled", "checks", "recv", "callback", "closed"}
  PROVE  SendInv'
BY DEF SendInv, FrontOut, ReadyMeansEmpty, StaleFlushing, queueVars

\* Every step preserves SendInv.
LEMMA StepKeepsSendInv ==
  ASSUME Inv, TypeOK', [Next]_vars
  PROVE  SendInv'
<1> USE DEF inVars, outVars, queueVars, dataVars
<1> TypeOK /\ SendInv
  BY DEF Inv
<1>1. ASSUME NEW n \in Sizes, SendQueued(n) \/ SendCalled(n) PROVE SendInv'
  <2>1. CASE SendQueued(n)
    <3>1. m_send_queue' # <<>>
      BY <2>1, AppWritesAnInterval, AppendProperties DEF SendQueued, TypeOK
    <3> QED  BY <2>1, <3>1 DEF SendQueued, AppSends, SendInv, FrontOut, ReadyMeansEmpty, StaleFlushing
  <2>2. CASE SendCalled(n)
    BY <2>2 DEF SendCalled, AppSends, SendInv, FrontOut, ReadyMeansEmpty, StaleFlushing
  <2> QED  BY <1>1, <2>1, <2>2
<1>2. CASE Send
  <2>1. ASSUME NEW k \in 1..SndBuf, SendSome(k) PROVE SendInv'
    BY <2>1 DEF SendSome, SendInv, FrontOut, ReadyMeansEmpty, StaleFlushing
  <2>2. CASE SendBlocked
    <3>1. m_send_queue' # <<>> \/ (m_flushing /\ m_send_queue' = m_send_queue)
      BY <2>2, AppendProperties DEF SendBlocked, Requeued, TypeOK
    <3> QED  BY <2>2, <3>1 DEF SendBlocked, SendReturns, ReturnTo, SendInv, FrontOut,
                               ReadyMeansEmpty, StaleFlushing, TypeOK
  <2>3. CASE SendFailed
    BY <2>3 DEF SendFailed, ReturnTo, SendInv, FrontOut, ReadyMeansEmpty, StaleFlushing, TypeOK
  <2>4. CASE SendDone
    BY <2>4 DEF SendDone, SendReturns, ReturnTo, SendInv, FrontOut, ReadyMeansEmpty, StaleFlushing,
                TypeOK
  <2> QED  BY <1>2, <2>1, <2>2, <2>3, <2>4 DEF Send
<1>3. CASE Flush
  <2>1. CASE FlushNext
    BY <2>1 DEF FlushNext, SendInv, FrontOut, ReadyMeansEmpty, StaleFlushing
  <2>2. CASE FlushRequeued
    <3>1. m_send_queue' # <<>>
      BY <2>2, EmptySeq DEF FlushRequeued, SendInv, FrontOut, TypeOK
    <3>2. ~m_send_ready
      BY <2>2, CurIsTyped DEF FlushRequeued, SendInv
    <3> QED  BY <2>2, <3>1, <3>2 DEF FlushRequeued, ReturnTo, SendInv, FrontOut,
                                     ReadyMeansEmpty, StaleFlushing
  <2>3. CASE FlushPopped
    BY <2>3 DEF FlushPopped, ReturnTo, SendInv, FrontOut, ReadyMeansEmpty, StaleFlushing
  <2>4. CASE FlushDone
    BY <2>4 DEF FlushDone, SendInv, FrontOut, ReadyMeansEmpty, StaleFlushing
  <2> QED  BY <1>3, <2>1, <2>2, <2>3, <2>4 DEF Flush
<1>4. CASE EpollWait \/ NotWritable \/ Checks \/ CallbackDone
  BY <1>4, FlagsUntouched DEF EpollWait, NotWritable, Checks, CallbackDone, AfterFlush,
                              AfterCallback
<1>5. CASE OnWritable
  BY <1>5 DEF OnWritable, SendInv, FrontOut, ReadyMeansEmpty, StaleFlushing
<1>6. CASE Recv
  <2>1. ASSUME NEW k \in 1..CHUNK_SIZE, RecvSome(k) PROVE SendInv'
    <3>1. pc = "recv" /\ pc' \in {"recv", "callback"} /\ UNCHANGED <<queueVars, broken>>
      BY <2>1, Zenon DEF RecvSome
    <3> QED  BY <3>1, FlagsUntouched
  <2>2. CASE RecvBlocked \/ RecvFailed
    BY <2>2, FlagsUntouched DEF RecvBlocked, RecvFailed
  <2> QED  BY <1>6, <2>1, <2>2 DEF Recv
<1>7. CASE Peer
  <2>1. UNCHANGED <<queueVars, pc, cur, ret, broken>>
    BY <1>7 DEF Peer, Acknowledge, Arrive, PeerCloses, PeerResets, Kernel
  <2> QED  BY <2>1 DEF SendInv, FrontOut, ReadyMeansEmpty, StaleFlushing
<1>8. CASE UNCHANGED vars
  BY <1>8 DEF vars, SendInv, FrontOut, ReadyMeansEmpty, StaleFlushing
<1> QED  BY <1>1, <1>2, <1>3, <1>4, <1>5, <1>6, <1>7, <1>8
         DEF Next, Thread, OnData, Closed

-----------------------------------------------------------------------------
(* Being woken up *)

\* Where the thread is, outside ::send.
Place == IF pc = "send" THEN ret ELSE pc

\* Nothing to read, or the thread has been told, or will be.
InputNoticed ==
  sock.avail > 0 \/ Gone =>
    /\ Place = "idle" => sock.raised
    /\ Place = "callback" => again \/ sock.raised
    /\ Place \in {"polled", "flush", "flushed", "checks"} =>
         sock.raised \/ evs \cap {"IN", "HUP", "ERR"} # {}

\* epoll will report room to send: at once, or when the peer acknowledges.
RoomWillCome == sock.raised \/ sock.nospace

\* Queued bytes will be looked at again; during a flush the thread is at it.
QueueNoticed ==
  ~broken /\ m_send_queue # <<>> =>
    /\ pc \in {"idle", "checks", "recv", "callback", "closed"} => RoomWillCome
    /\ pc = "polled" => RoomWillCome \/ "OUT" \in evs
    /\ pc = "flushed" /\ ~m_send_ready => RoomWillCome

WakeInv == InputNoticed /\ QueueNoticed

\* Nothing to be woken for in the initial state.
LEMMA InitWakeInv == Init => WakeInv
BY DEF Init, WakeInv, InputNoticed, QueueNoticed, Place, RoomWillCome

\* Input and the end of a stream stay noticed: only epoll_wait lowers raised.
LEMMA StepKeepsInputNoticed ==
  ASSUME Inv, InputNoticed, TypeOK', [Next]_vars
  PROVE  InputNoticed'
<1> USE DEF inVars, outVars, queueVars, dataVars
<1> TypeOK
  BY DEF Inv
<1>1. ASSUME NEW n \in Sizes, SendQueued(n) \/ SendCalled(n) PROVE InputNoticed'
  BY <1>1 DEF SendQueued, SendCalled, AppSends, InputNoticed, Place, Gone
<1>2. CASE Send
  <2>1. ASSUME NEW k \in 1..SndBuf, SendSome(k) PROVE InputNoticed'
    <3>1. UNCHANGED <<sock.avail, sock.fin, sock.reset, sock.raised>>
      BY <2>1 DEF SendSome, TypeOK
    <3> QED  BY <2>1, <3>1 DEF SendSome, InputNoticed, Place, Gone
  <2>2. CASE SendBlocked
    <3>1. UNCHANGED <<sock.avail, sock.fin, sock.reset, sock.raised>>
      BY <2>2 DEF SendBlocked, TypeOK
    <3> QED  BY <2>2, <3>1 DEF SendBlocked, SendReturns, ReturnTo, InputNoticed, Place,
                               Gone, TypeOK
  <2>3. CASE SendFailed
    BY <2>3 DEF SendFailed, ReturnTo, InputNoticed, Place, Gone, TypeOK
  <2>4. CASE SendDone
    BY <2>4 DEF SendDone, SendReturns, ReturnTo, InputNoticed, Place, Gone, TypeOK
  <2> QED  BY <1>2, <2>1, <2>2, <2>3, <2>4 DEF Send
<1>3. CASE Flush
  BY <1>3 DEF Flush, FlushNext, FlushRequeued, FlushPopped, FlushDone, ReturnTo,
              InputNoticed, Place, Gone
<1>4. CASE EpollWait
  <2>1. UNCHANGED <<sock.avail, sock.fin, sock.reset>>
    BY <1>4 DEF EpollWait, TypeOK
  <2>2. sock.avail > 0 \/ Gone => evs' \cap {"IN", "HUP", "ERR"} # {}
    <3>1. sock.reset => "ERR" \in evs'
      BY <1>4 DEF EpollWait
    <3>2. sock.avail > 0 \/ sock.fin => "IN" \in evs'
      BY <1>4 DEF EpollWait
    <3> QED  BY <3>1, <3>2 DEF Gone
  <2> QED  BY <1>4, <2>1, <2>2 DEF EpollWait, InputNoticed, Place, Gone
<1>5. CASE OnData
  <2>1. UNCHANGED <<sock, evs>>
    BY <1>5 DEF OnData, OnWritable, NotWritable, Checks
  <2>2. /\ pc \in {"polled", "checks"} /\ pc' \in {"flush", "checks", "closed", "recv", "idle"}
        /\ pc' = "idle" => evs \cap {"IN", "HUP", "ERR"} = {}
    BY <1>5 DEF OnData, OnWritable, NotWritable, Checks, AfterFlush
  <2> QED  BY <2>1, <2>2 DEF InputNoticed, Place, Gone
<1>6. CASE Recv
  <2>1. ASSUME NEW k \in 1..CHUNK_SIZE, RecvSome(k) PROVE InputNoticed'
    <3>1. pc' = "recv" \/ (pc' = "callback" /\ again')
      BY <2>1, Zenon DEF RecvSome
    <3> QED  BY <3>1 DEF InputNoticed, Place
  <2>2. CASE RecvBlocked
    BY <2>2 DEF RecvBlocked, InputNoticed, Place, Gone, TypeOK
  <2>3. CASE RecvFailed
    BY <2>3 DEF RecvFailed, InputNoticed, Place
  <2> QED  BY <1>6, <2>1, <2>2, <2>3 DEF Recv
<1>7. CASE CallbackDone
  BY <1>7 DEF CallbackDone, AfterCallback, InputNoticed, Place, Gone
<1>8. CASE Peer
  <2>1. CASE \E k \in 1..SndBuf : Acknowledge(k)
    <3>1. UNCHANGED <<sock.avail, sock.fin, sock.reset>> /\ (sock.raised => sock'.raised)
      BY <2>1 DEF Acknowledge, Kernel, TypeOK
    <3> QED  BY <2>1, <3>1 DEF Acknowledge, Kernel, InputNoticed, Place, Gone
  <2>2. CASE ~ \E k \in 1..SndBuf : Acknowledge(k)
    <3>1. sock'.raised
      BY <1>8, <2>2 DEF Peer, Arrive, PeerCloses, PeerResets, Kernel, TypeOK
    <3>2. UNCHANGED <<pc, ret, evs, again>>
      BY <1>8, <2>2 DEF Peer, Arrive, PeerCloses, PeerResets, Kernel
    <3> QED  BY <3>1, <3>2 DEF InputNoticed
  <2> QED  BY <2>1, <2>2
<1>9. CASE UNCHANGED vars
  BY <1>9 DEF vars, InputNoticed, Place, Gone
<1> QED  BY <1>1, <1>2, <1>3, <1>4, <1>5, <1>6, <1>7, <1>8, <1>9 DEF Next, Thread, Closed

\* Queued bytes stay noticed: whoever blocks has found the socket full.
LEMMA StepKeepsQueueNoticed ==
  ASSUME Inv, Inv', QueueNoticed, [Next]_vars
  PROVE  QueueNoticed'
<1> USE DEF inVars, outVars, queueVars, dataVars
<1> TypeOK /\ SendInv /\ TypeOK' /\ SendInv'
  BY DEF Inv
<1>1. ASSUME NEW n \in Sizes, SendQueued(n) \/ SendCalled(n) PROVE QueueNoticed'
  BY <1>1 DEF SendQueued, SendCalled, AppSends, QueueNoticed, RoomWillCome, SendInv,
              ReadyMeansEmpty, FrontOut
<1>2. CASE Send
  <2>1. ASSUME NEW k \in 1..SndBuf, SendSome(k) PROVE QueueNoticed'
    BY <2>1 DEF SendSome, QueueNoticed
  <2>2. CASE SendBlocked
    <3>1. sock'.nospace
      BY <2>2 DEF SendBlocked, TypeOK
    <3> QED  BY <3>1 DEF QueueNoticed, RoomWillCome
  <2>3. CASE SendFailed
    BY <2>3 DEF SendFailed, QueueNoticed
  <2>4. CASE SendDone
    BY <2>4 DEF SendDone, SendReturns, ReturnTo, QueueNoticed, SendInv, ReadyMeansEmpty,
                FrontOut
  <2> QED  BY <1>2, <2>1, <2>2, <2>3, <2>4 DEF Send
<1>3. CASE Flush
  <2>1. CASE FlushNext
    BY <2>1 DEF FlushNext, QueueNoticed
  <2>2. CASE FlushRequeued
    <3>1. ~m_send_ready /\ m_send_queue # <<>>
      BY <2>2, CurIsTyped DEF FlushRequeued, SendInv, FrontOut
    <3> QED  BY <2>2, <3>1 DEF FlushRequeued, ReturnTo, QueueNoticed, RoomWillCome
  <2>3. CASE FlushPopped
    BY <2>3 DEF FlushPopped, ReturnTo, QueueNoticed
  <2>4. CASE FlushDone
    BY <2>4 DEF FlushDone, QueueNoticed, SendInv
  <2> QED  BY <1>3, <2>1, <2>2, <2>3, <2>4 DEF Flush
<1>4. CASE EpollWait
  <2>1. Space > 0 => "OUT" \in evs'
    BY <1>4 DEF EpollWait
  <2>2. ~(Space > 0) => sock'.nospace
    <3>1. sock.unacked \in 0..SndBuf
      BY DEF TypeOK
    <3>2. Space \in 0..SndBuf
      BY <3>1, BuffersAssumption DEF Space
    <3>3. ~(Space > 0) => Space = 0
      BY <3>2, BuffersAssumption
    <3>4. sock'.nospace = (sock.nospace \/ Space = 0)
      BY <1>4 DEF EpollWait, TypeOK
    <3> QED  BY <3>3, <3>4
  <2> QED  BY <1>4, <2>1, <2>2 DEF EpollWait, QueueNoticed, RoomWillCome
<1>5. CASE OnData
  BY <1>5 DEF OnData, OnWritable, NotWritable, Checks, AfterFlush, QueueNoticed,
              RoomWillCome
<1>6. CASE Recv
  <2>1. ASSUME NEW k \in 1..CHUNK_SIZE, RecvSome(k) PROVE QueueNoticed'
    <3>1. UNCHANGED <<sock.raised, sock.nospace>>
      BY <2>1 DEF RecvSome, TypeOK
    <3>2. pc = "recv" /\ pc' \in {"recv", "callback"} /\ UNCHANGED <<m_send_queue, broken>>
      BY <2>1, Zenon DEF RecvSome
    <3> QED  BY <3>1, <3>2 DEF QueueNoticed, RoomWillCome
  <2>2. CASE RecvBlocked \/ RecvFailed
    BY <2>2 DEF RecvBlocked, RecvFailed, QueueNoticed, RoomWillCome
  <2> QED  BY <1>6, <2>1, <2>2 DEF Recv
<1>7. CASE CallbackDone
  BY <1>7 DEF CallbackDone, AfterCallback, QueueNoticed, RoomWillCome
<1>8. CASE Peer
  <2>1. RoomWillCome => RoomWillCome'
    <3>1. ASSUME NEW k \in 1..SndBuf, Acknowledge(k)
          PROVE  RoomWillCome => sock'.raised
      BY <3>1 DEF Acknowledge, Kernel, RoomWillCome, TypeOK
    <3>2. ASSUME ~ \E k \in 1..SndBuf : Acknowledge(k)
          PROVE  sock'.raised
      BY <1>8, <3>2 DEF Peer, Arrive, PeerCloses, PeerResets, Kernel, TypeOK
    <3> QED  BY <3>1, <3>2 DEF RoomWillCome
  <2>2. UNCHANGED <<m_send_ready, m_send_queue, pc, evs, broken>>
    BY <1>8 DEF Peer, Acknowledge, Arrive, PeerCloses, PeerResets, Kernel
  <2> QED  BY <2>1, <2>2 DEF QueueNoticed
<1>9. CASE UNCHANGED vars
  BY <1>9 DEF vars, QueueNoticed, RoomWillCome
<1> QED  BY <1>1, <1>2, <1>3, <1>4, <1>5, <1>6, <1>7, <1>8, <1>9 DEF Next, Thread, Closed

-----------------------------------------------------------------------------
(* Nothing lost, repeated or reordered *)

\* The vectors in the queue continue each other, up to the last byte written.
Chained(q) ==
  /\ \A i \in 1..Len(q) : q[i].hi <= written
  /\ \A i \in 1..(Len(q) - 1) : q[i].hi = q[i + 1].lo
  /\ q # <<>> => q[Len(q)].hi = written

\* The queue, or the vector in hand, starts where the wire ends.
Continued ==
  /\ FrontOut => cur.lo = Len(wire) /\ cur.hi = m_send_queue[1].hi
  /\ pc = "send" /\ ~FrontOut => cur.lo = Len(wire) /\ cur.hi = written
  /\ ~FrontOut /\ m_send_queue # <<>> => m_send_queue[1].lo = Len(wire)
  /\ pc # "send" /\ m_send_queue = <<>> => Len(wire) = written

InOrder == \A i \in 1..Len(wire) : wire[i] = i

Lossless == ~broken => Chained(m_send_queue) /\ Continued /\ InOrder

\* Nothing has been written in the initial state.
LEMMA InitLossless == Init => Lossless
BY DEF Init, Lossless, Chained, Continued, InOrder, FrontOut

\* Only the send path touches the queue, the vector in hand and the wire.
LEMMA QueueUntouched ==
  ASSUME Lossless, UNCHANGED <<m_send_queue, outVars>>,
         pc \notin {"send", "flushed"}, pc' \notin {"send", "flushed"}
  PROVE  Lossless'
BY DEF Lossless, Chained, Continued, InOrder, FrontOut, outVars

\* The queue holds intervals of bytes.
LEMMA QueueIsTyped ==
  ASSUME TypeOK
  PROVE  /\ Len(m_send_queue) \in Nat
         /\ m_send_queue # <<>> => Len(m_send_queue) > 0
         /\ \A i \in 1..Len(m_send_queue) :
              /\ m_send_queue[i] \in Intervals
              /\ m_send_queue[i].lo \in Nat /\ m_send_queue[i].hi \in Nat
<1>1. m_send_queue \in Seq(Intervals)
  BY DEF TypeOK
<1>2. \A d \in Intervals : d.lo \in Nat /\ d.hi \in Nat
  BY BoundsAssumption DEF Intervals
<1>3. \A i \in 1..Len(m_send_queue) : m_send_queue[i] \in Intervals
  BY <1>1, ElementOfSeq
<1> QED  BY <1>1, <1>2, <1>3, EmptySeq, LenProperties

\* A vector queued behind others continues them.
LEMMA SendQueuedIsLossless ==
  ASSUME Inv, Lossless, ~broken, NEW n \in Sizes, SendQueued(n)
  PROVE  Lossless'
<1> DEFINE d == Interval(written, written + n)
<1>1. m_send_queue \in Seq(Intervals) /\ d \in Intervals
  BY AppWritesAnInterval DEF Inv, TypeOK, SendQueued
<1>2. m_send_queue # <<>>
  BY DEF Inv, SendInv, ReadyMeansEmpty, SendQueued, AppSends, FrontOut
<1>3. /\ Len(m_send_queue') = Len(m_send_queue) + 1
      /\ \A i \in 1..Len(m_send_queue) : m_send_queue'[i] = m_send_queue[i]
      /\ m_send_queue'[Len(m_send_queue) + 1] = d
      /\ m_send_queue' # <<>>
  BY <1>1, AppendProperties DEF SendQueued
<1>4. written' = written + n /\ written \in Nat /\ n \in Nat
  BY SizesAssumption, BoundsAssumption DEF SendQueued, AppSends, Inv, TypeOK
<1>5. d.lo = written /\ d.hi = written'
  BY <1>4 DEF Interval
<1>6. Len(m_send_queue) \in Nat /\ Len(m_send_queue) > 0
      /\ \A i \in 1..Len(m_send_queue) : m_send_queue[i].hi \in Nat
  BY <1>2, QueueIsTyped DEF Inv
<1>7. Chained(m_send_queue)
  BY DEF Lossless
<1>8. Chained(m_send_queue)'
  <2>1. \A i \in 1..Len(m_send_queue') : m_send_queue'[i].hi <= written'
    BY <1>3, <1>4, <1>5, <1>6, <1>7 DEF Chained
  <2>2. \A i \in 1..(Len(m_send_queue') - 1) : m_send_queue'[i].hi = m_send_queue'[i + 1].lo
    <3> SUFFICES ASSUME NEW i \in 1..Len(m_send_queue)
                 PROVE  m_send_queue'[i].hi = m_send_queue'[i + 1].lo
      BY <1>3, <1>6
    <3>1. CASE i = Len(m_send_queue)
      BY <3>1, <1>2, <1>3, <1>5, <1>7 DEF Chained
    <3>2. CASE i # Len(m_send_queue)
      BY <3>2, <1>3, <1>6, <1>7 DEF Chained
    <3> QED  BY <3>1, <3>2
  <2> QED  BY <1>3, <1>5, <2>1, <2>2 DEF Chained
<1>9. Continued'
  BY <1>2, <1>3, <1>6 DEF Lossless, Continued, FrontOut, SendQueued, AppSends
<1>10. InOrder'
  BY DEF Lossless, InOrder, SendQueued
<1> QED  BY <1>8, <1>9, <1>10 DEF Lossless

\* What ::send takes continues the wire.
LEMMA SendSomeIsLossless ==
  ASSUME Inv, Lossless, ~broken, NEW k \in 1..SndBuf, SendSome(k)
  PROVE  /\ Lossless'
         /\ Len(wire') = Len(wire) + k /\ Len(wire') <= written
<1> DEFINE t == [i \in 1..k |-> cur.lo + i]
<1>1. cur.lo \in Nat /\ cur.hi \in Nat /\ k \in Nat /\ cur.lo + k <= cur.hi
      /\ cur.hi <= MaxWritten
  <2>1. Size(cur) \in Nat /\ cur.lo \in Nat /\ cur.hi \in Nat /\ cur.hi <= MaxWritten
    BY CurIsTyped, BoundsAssumption DEF Inv
  <2>2. sock.unacked \in 0..SndBuf
    BY DEF Inv, TypeOK
  <2>3. k \in Nat /\ k <= Size(cur)
    BY <2>1, <2>2, BuffersAssumption DEF SendSome, Smaller, Offered, Space
  <2> QED  BY <2>1, <2>3 DEF Size
<1>2. t \in Seq(1..MaxWritten) /\ Len(t) = k
  BY <1>1, TakenIsTyped, BoundsAssumption
<1>3. wire \in Seq(1..MaxWritten) /\ Len(wire) \in Nat
  BY LenProperties DEF Inv, TypeOK
<1>4. /\ Len(wire') = Len(wire) + k
      /\ \A i \in 1..(Len(wire) + k) :
           wire'[i] = IF i <= Len(wire) THEN wire[i] ELSE t[i - Len(wire)]
  BY <1>2, <1>3, ConcatProperties DEF SendSome
<1>5. cur'.lo = cur.lo + k /\ cur'.hi = cur.hi
  BY DEF SendSome, Interval
<1>6. cur.lo = Len(wire) /\ cur.hi <= written
  <2>1. CASE FrontOut
    <3>1. 1 \in 1..Len(m_send_queue)
      BY <2>1, QueueIsTyped DEF Inv, SendInv
    <3> QED  BY <2>1, <3>1 DEF Lossless, Chained, Continued
  <2>2. CASE ~FrontOut
    BY <1>1, <2>2 DEF Lossless, Continued, SendSome
  <2> QED  BY <2>1, <2>2
<1>7. InOrder'
  <2> SUFFICES ASSUME NEW i \in 1..(Len(wire) + k) PROVE wire'[i] = i
    BY <1>4 DEF InOrder
  <2>1. CASE i <= Len(wire)
    <3>1. i \in 1..Len(wire)
      BY <1>3, <2>1
    <3>2. wire[i] = i
      BY <3>1 DEF Lossless, InOrder
    <3> QED  BY <1>4, <2>1, <3>2
  <2>2. CASE ~(i <= Len(wire))
    <3>1. i - Len(wire) \in 1..k
      BY <1>1, <1>3, <2>2
    <3>2. t[i - Len(wire)] = cur.lo + (i - Len(wire))
      BY <3>1
    <3> QED  BY <1>1, <1>3, <1>4, <1>6, <2>2, <3>2
  <2> QED  BY <2>1, <2>2
<1>8. Chained(m_send_queue)'
  BY DEF Lossless, Chained, SendSome, queueVars
<1>9. Continued'
  <2>1. UNCHANGED <<m_send_queue, pc, ret, written, FrontOut>>
    BY DEF SendSome, queueVars, FrontOut
  <2>2. pc = "send"
    BY DEF SendSome
  <2>3. ~FrontOut => m_send_queue = <<>>
    BY <2>2 DEF Inv, SendInv, ReadyMeansEmpty
  <2>4. cur'.lo = Len(wire')
    BY <1>4, <1>5, <1>6
  <2>5. CASE FrontOut
    BY <1>5, <2>1, <2>4, <2>5, <2>2 DEF Lossless, Continued
  <2>6. CASE ~FrontOut
    BY <1>5, <2>1, <2>2, <2>3, <2>4, <2>6 DEF Lossless, Continued
  <2> QED  BY <2>5, <2>6
<1>10. Len(wire') <= written
  <2>1. written \in Nat
    BY BoundsAssumption DEF Inv, TypeOK
  <2> QED  BY <1>1, <1>3, <1>4, <1>6, <2>1
<1> QED  BY <1>4, <1>7, <1>8, <1>9, <1>10 DEF Lossless

\* The loop of send is left with EAGAIN or with nothing left.
LEMMA SendEndsLossless ==
  ASSUME Inv, Lossless, ~broken, SendBlocked \/ SendDone
  PROVE  Lossless'
<1> USE DEF queueVars, outVars
<1>1. /\ pc = "send" /\ UNCHANGED <<written, wire, broken>>
      /\ m_send_ready
  BY DEF SendBlocked, SendDone, Inv, SendInv
<1>2. CASE FrontOut
  <2>1. ret = "flush" /\ pc' = "flushed"
    BY <1>1, <1>2 DEF SendBlocked, SendDone, SendReturns, FrontOut
  <2>2. UNCHANGED <<cur, m_send_queue>>
    BY <1>2, <2>1 DEF SendBlocked, SendDone, SendReturns, Requeued, Inv, SendInv
  <2>3. FrontOut' /\ m_send_queue # <<>>
    BY <1>2, <2>1 DEF Inv, SendInv, FrontOut
  <2> QED  BY <1>1, <1>2, <2>2, <2>3 DEF Lossless, Chained, Continued, InOrder
<1>3. CASE ~FrontOut
  <2>1. /\ ret # "flush" /\ ~m_flushing /\ m_send_queue = <<>>
        /\ cur.lo = Len(wire) /\ cur.hi = written
    BY <1>1, <1>3 DEF FrontOut, Inv, SendInv, ReadyMeansEmpty, Lossless, Continued
  <2>2. pc' = ret /\ ~FrontOut' /\ pc' # "send"
    BY <1>1, <2>1 DEF SendBlocked, SendDone, SendReturns, ReturnTo, FrontOut, Inv, TypeOK
  <2>3. CASE SendBlocked
    <3>1. m_send_queue' = Append(<<>>, cur)
      BY <2>1, <2>3 DEF SendBlocked, Requeued
    <3>2. cur \in Intervals /\ <<>> \in Seq(Intervals) /\ Len(<<>>) = 0
      BY EmptySeq DEF Inv, TypeOK
    <3>3. Len(m_send_queue') = 1 /\ m_send_queue'[1] = cur /\ m_send_queue' # <<>>
      BY <3>1, <3>2, AppendProperties
    <3>4. written \in Nat
      BY BoundsAssumption DEF Inv, TypeOK
    <3>5. Chained(m_send_queue)'
      <4>1. cur.hi <= written' /\ cur.hi = written'
        BY <1>1, <2>1, <3>4
      <4>2. 1..Len(m_send_queue') = {1} /\ 1..(Len(m_send_queue') - 1) = {}
        BY <3>3
      <4> QED  BY <3>3, <4>1, <4>2 DEF Chained
    <3>6. Continued'
      BY <1>1, <2>1, <2>2, <3>3 DEF Continued
    <3> QED  BY <1>1, <3>5, <3>6 DEF Lossless, InOrder
  <2>4. CASE SendDone
    <3>1. Len(wire) = written
      BY <2>1, <2>4, CurIsTyped DEF SendDone, Size, Inv
    <3>2. m_send_queue' = <<>>
      BY <2>1, <2>4 DEF SendDone
    <3> QED  BY <1>1, <2>1, <2>2, <3>1, <3>2 DEF Lossless, Chained, Continued, InOrder
  <2> QED  BY <2>3, <2>4
<1> QED  BY <1>2, <1>3

\* A flush takes the front out, and puts its rest back or drops it.
LEMMA FlushIsLossless ==
  ASSUME Inv, Lossless, ~broken, Flush
  PROVE  Lossless'
<1> DEFINE q == m_send_queue
<1>1. UNCHANGED <<written, wire, broken>>
  BY DEF Flush, FlushNext, FlushRequeued, FlushPopped, FlushDone, outVars
<1>2. /\ Len(q) \in Nat /\ (q # <<>> => Len(q) > 0)
      /\ \A i \in 1..Len(q) : q[i].lo \in Nat /\ q[i].hi \in Nat
      /\ q \in Seq(Intervals)
  BY QueueIsTyped DEF Inv, TypeOK
<1>3. InOrder'
  BY <1>1 DEF Lossless, InOrder
<1>4. CASE FlushNext
  <2>1. FrontOut' /\ ~FrontOut /\ cur' = Head(q) /\ q' = q /\ q # <<>>
    BY <1>4 DEF FlushNext, FrontOut, queueVars
  <2>2. Head(q) = q[1]
    BY <1>2, <2>1
  <2> QED  BY <1>1, <1>3, <2>1, <2>2 DEF Lossless, Chained, Continued
<1>5. CASE FlushRequeued
  <2>1. FrontOut /\ ~FrontOut' /\ pc' # "send" /\ q # <<>>
    BY <1>5 DEF FlushRequeued, ReturnTo, FrontOut, Inv, SendInv
  <2>2. cur \in Intervals /\ 1 \in 1..Len(q)
    BY <1>2, <2>1 DEF Inv, TypeOK
  <2>3. /\ Len(q') = Len(q)
        /\ \A j \in 1..Len(q) : q'[j] = IF j = 1 THEN cur ELSE q[j]
    BY <1>2, <1>5, <2>2, ExceptSeq DEF FlushRequeued
  <2>4. \A j \in 1..Len(q) : q'[j].hi = q[j].hi
    BY <2>1, <2>3 DEF Lossless, Continued
  <2>5. \A j \in 1..(Len(q) - 1) : q'[j + 1].lo = q[j + 1].lo
    BY <1>2, <2>3
  <2>6. Chained(q)'
    BY <1>1, <1>2, <2>1, <2>2, <2>3, <2>4, <2>5 DEF Lossless, Chained
  <2>7. q' # <<>> /\ q'[1].lo = Len(wire)
    BY <1>2, <2>1, <2>2, <2>3 DEF Lossless, Continued
  <2>8. Continued'
    BY <1>1, <2>1, <2>7 DEF Continued
  <2> QED  BY <1>3, <2>6, <2>8 DEF Lossless
<1>6. CASE FlushPopped
  <2>1. FrontOut /\ ~FrontOut' /\ pc' # "send" /\ q # <<>> /\ q' = Tail(q)
    BY <1>6 DEF FlushPopped, ReturnTo, FrontOut, Inv, SendInv
  <2>2. /\ Len(q') = Len(q) - 1
        /\ \A i \in 1..Len(q') : q'[i] = q[i + 1]
        /\ q' \in Seq(Intervals)
    BY <1>2, <2>1, HeadTailProperties
  <2>3. q[1].hi = Len(wire)
    <3>1. cur.lo = Len(wire) /\ cur.hi = q[1].hi
      BY <2>1 DEF Lossless, Continued
    <3>2. cur.lo = cur.hi
      BY <1>6, CurIsTyped DEF FlushPopped, Size, Inv
    <3> QED  BY <3>1, <3>2
  <2>4. CASE q' = <<>>
    <3>1. Len(q') = 0
      BY <2>4
    <3>2. Len(q) = 1
      BY <1>2, <2>1, <2>2, <3>1
    <3>3. Len(wire) = written
      BY <2>1, <2>3, <3>2 DEF Lossless, Chained
    <3>4. Chained(q)'
      BY <2>4, <3>1 DEF Chained
    <3> QED  BY <1>1, <1>3, <2>1, <2>4, <3>3, <3>4 DEF Lossless, Continued
  <2>5. CASE q' # <<>>
    <3>1. Len(q') > 0
      BY <2>2, <2>5, EmptySeq
    <3>2. Chained(q)'
      BY <1>1, <1>2, <2>1, <2>2, <3>1 DEF Lossless, Chained
    <3>3. q'[1].lo = Len(wire)
      BY <1>2, <2>2, <2>3, <3>1 DEF Lossless, Chained
    <3>4. Continued'
      BY <1>1, <2>1, <2>5, <3>3 DEF Continued
    <3> QED  BY <1>3, <3>2, <3>4 DEF Lossless
  <2> QED  BY <2>4, <2>5
<1>7. CASE FlushDone
  BY <1>7, QueueUntouched DEF FlushDone, outVars
<1> QED  BY <1>4, <1>5, <1>6, <1>7 DEF Flush

\* Once ::send has failed, it has failed for good.
LEMMA BrokenForGood ==
  ASSUME Inv, [Next]_vars, broken
  PROVE  broken'
<1> USE DEF queueVars, dataVars, inVars, outVars
<1>1. CASE Send \/ Flush
  BY <1>1 DEF Send, SendSome, SendBlocked, SendFailed, SendDone, Flush, FlushNext,
              FlushRequeued, FlushPopped, FlushDone
<1>2. CASE EpollWait \/ OnData \/ Recv \/ CallbackDone
  BY <1>2 DEF EpollWait, OnData, OnWritable, NotWritable, Checks, Recv, RecvSome,
              RecvBlocked, RecvFailed, CallbackDone
<1>3. CASE Peer
  BY <1>3 DEF Peer, Acknowledge, Arrive, PeerCloses, PeerResets, Kernel
<1>4. CASE \E n \in Sizes : SendQueued(n) \/ SendCalled(n)
  BY <1>4 DEF SendQueued, SendCalled
<1>5. CASE UNCHANGED vars
  BY <1>5 DEF vars
<1> QED  BY <1>1, <1>2, <1>3, <1>4, <1>5 DEF Next, Thread, Closed

\* Every step preserves Lossless.
LEMMA StepIsLossless ==
  ASSUME Inv, Lossless, [Next]_vars
  PROVE  Lossless'
<1>1. CASE broken
  BY <1>1, BrokenForGood DEF Lossless
<1>2. CASE ~broken
  <2> USE <1>2 DEF queueVars, dataVars, inVars, outVars
  <2>1. ASSUME NEW n \in Sizes, SendCalled(n) PROVE Lossless'
    <3>1. /\ m_send_queue = <<>> /\ Len(wire) = written /\ cur' = Interval(written, written')
      BY <2>1 DEF SendCalled, AppSends, Inv, SendInv, ReadyMeansEmpty, FrontOut, Lossless,
                  Continued
    <3>2. pc' = "send" /\ ~FrontOut' /\ UNCHANGED <<m_send_queue, wire>>
      BY <2>1 DEF SendCalled, AppSends, FrontOut
    <3> QED  BY <3>1, <3>2 DEF Lossless, Chained, Continued, InOrder, Interval
  <2>2. CASE Send
    <3>1. CASE SendFailed
      BY <3>1 DEF SendFailed, Lossless
    <3> QED  BY <2>2, <3>1, SendSomeIsLossless, SendEndsLossless DEF Send
  <2>3. CASE EpollWait \/ OnData \/ CallbackDone
    BY <2>3, QueueUntouched DEF EpollWait, OnData, OnWritable, NotWritable, Checks,
                                CallbackDone, AfterFlush, AfterCallback
  <2>4. CASE Recv
    <3>1. ASSUME NEW k \in 1..CHUNK_SIZE, RecvSome(k) PROVE Lossless'
      <4>1. /\ pc = "recv" /\ pc' \in {"recv", "callback"}
            /\ UNCHANGED <<m_send_queue, outVars>>
        BY <3>1, Zenon DEF RecvSome
      <4> QED  BY <4>1, QueueUntouched
    <3>2. CASE RecvBlocked \/ RecvFailed
      BY <3>2, QueueUntouched DEF RecvBlocked, RecvFailed
    <3> QED  BY <2>4, <3>1, <3>2 DEF Recv
  <2>5. CASE Peer
    <3>1. UNCHANGED <<m_send_queue, pc, cur, ret, written, wire, broken>>
      BY <2>5 DEF Peer, Acknowledge, Arrive, PeerCloses, PeerResets, Kernel
    <3> QED  BY <3>1 DEF Lossless, Chained, Continued, InOrder, FrontOut
  <2>6. CASE UNCHANGED vars
    BY <2>6 DEF vars, Lossless, Chained, Continued, InOrder, FrontOut
  <2> QED  BY <2>1, <2>2, <2>3, <2>4, <2>5, <2>6, SendQueuedIsLossless, FlushIsLossless
           DEF Next, Thread, Closed
<1> QED  BY <1>1, <1>2

\* Lossless in the words of the property.
LEMMA LosslessIsNothingLost == Inv /\ Lossless => NothingLost
<1> SUFFICES ASSUME Inv, Lossless, ~broken
             PROVE  /\ wire = [i \in 1..Len(wire) |-> i]
                    /\ IF Unsent = <<>> THEN Len(wire) = written
                       ELSE /\ Unsent[1].lo = Len(wire)
                            /\ Unsent[Len(Unsent)].hi = written
                            /\ \A i \in 1..(Len(Unsent) - 1) :
                                 Unsent[i].hi = Unsent[i + 1].lo
  BY DEF NothingLost
<1> DEFINE q == m_send_queue
<1>1. wire = [i \in 1..Len(wire) |-> i]
  <2>1. wire \in Seq(1..MaxWritten)
    BY DEF Inv, TypeOK
  <2>2. wire \in [1..Len(wire) -> 1..MaxWritten]
    BY <2>1, LenProperties
  <2> QED  BY <2>2 DEF Lossless, InOrder
<1>2. /\ q \in Seq(Intervals) /\ Len(q) \in Nat /\ (q # <<>> => Len(q) > 0)
      /\ cur \in Intervals
  BY QueueIsTyped DEF Inv, TypeOK
<1>3. CASE FrontOut
  <2>1. q # <<>> /\ cur.lo = Len(wire) /\ cur.hi = q[1].hi /\ Chained(q)
    BY <1>3 DEF Inv, SendInv, Lossless, Continued
  <2>2. /\ Tail(q) \in Seq(Intervals) /\ Len(Tail(q)) = Len(q) - 1
        /\ \A i \in 1..Len(Tail(q)) : Tail(q)[i] = q[i + 1]
    BY <1>2, <2>1, HeadTailProperties
  <2>3. <<cur>> \in Seq(Intervals) /\ Len(<<cur>>) = 1 /\ <<cur>>[1] = cur
    BY <1>2
  <2>4. Unsent = <<cur>> \o Tail(q)
    BY <1>3 DEF Unsent
  <2>5. /\ Len(Unsent) = Len(q)
        /\ \A i \in 1..Len(q) : Unsent[i] = IF i = 1 THEN cur ELSE q[i]
    <3>1. /\ Len(Unsent) = 1 + Len(Tail(q))
          /\ \A i \in 1..(1 + Len(Tail(q))) :
               Unsent[i] = IF i <= 1 THEN <<cur>>[i] ELSE Tail(q)[i - 1]
      BY <2>2, <2>3, <2>4, ConcatProperties
    <3>2. ASSUME NEW i \in 1..Len(q) PROVE Unsent[i] = IF i = 1 THEN cur ELSE q[i]
      <4>1. CASE i = 1
        BY <1>2, <2>2, <2>3, <3>1, <4>1
      <4>2. CASE i # 1
        <5>1. i - 1 \in 1..Len(Tail(q)) /\ ~(i <= 1)
          BY <1>2, <2>2, <4>2
        <5>2. Tail(q)[i - 1] = q[i]
          BY <2>2, <5>1
        <5> QED  BY <1>2, <2>2, <3>1, <4>2, <5>1, <5>2
      <4> QED  BY <4>1, <4>2
    <3> QED  BY <1>2, <2>2, <3>1, <3>2
  <2>6. \A i \in 1..Len(q) : Unsent[i].hi = q[i].hi
    BY <2>1, <2>5
  <2>7. \A i \in 1..(Len(q) - 1) : Unsent[i + 1].lo = q[i + 1].lo
    BY <1>2, <2>5
  <2>8. Len(q) \in 1..Len(q) /\ 1 \in 1..Len(q) /\ Unsent # <<>>
    BY <1>2, <2>1, <2>5
  <2> QED  BY <1>1, <2>1, <2>5, <2>6, <2>7, <2>8 DEF Chained
<1>4. CASE ~FrontOut /\ pc = "send"
  <2>1. q = <<>> /\ cur.lo = Len(wire) /\ cur.hi = written
    BY <1>4 DEF Inv, SendInv, ReadyMeansEmpty, Lossless, Continued
  <2>2. Unsent = <<cur>>
    BY <1>4, <1>2, <2>1, ConcatEmptySeq DEF Unsent
  <2> QED  BY <1>1, <2>1, <2>2
<1>5. CASE ~FrontOut /\ pc # "send"
  <2>1. Unsent = q
    BY <1>5 DEF Unsent
  <2> QED  BY <1>1, <1>5, <2>1 DEF Lossless, Chained, Continued
<1> QED  BY <1>3, <1>4, <1>5

-----------------------------------------------------------------------------
(* The theorems *)

FullInv == Inv /\ WakeInv /\ Lossless

\* Inv, WakeInv and Lossless together are inductive.
THEOREM ConnectionInvariance == Spec => []FullInv
<1>1. Init => FullInv
  BY InitInv, InitWakeInv, InitLossless DEF FullInv
<1>2. FullInv /\ [Next]_vars => FullInv'
  <2> SUFFICES ASSUME FullInv, [Next]_vars PROVE FullInv'
    OBVIOUS
  <2>1. Inv'
    BY StepIsTyped, StepKeepsInInv, StepKeepsSendInv DEF FullInv, Inv
  <2>2. WakeInv'
    BY <2>1, StepKeepsInputNoticed, StepKeepsQueueNoticed DEF FullInv, Inv, WakeInv
  <2>3. Lossless'
    BY StepIsLossless DEF FullInv
  <2> QED  BY <2>1, <2>2, <2>3 DEF FullInv
<1> QED  BY <1>1, <1>2, PTL DEF Spec

\* The types of Connection's variables: the send buffer never holds more than
\* fits, and no more is received than arrived.
THEOREM TypeCorrect == Spec => []TypeOK
<1>1. FullInv => TypeOK
  BY DEF FullInv, Inv
<1> QED  BY <1>1, ConnectionInvariance, PTL

\* Connection::send bypasses the queue only when it is empty: m_send_ready says
\* whether it is, except during a flush (connection.cpp:17).
THEOREM ReadyIsEmpty == Spec => []ReadyMeansEmpty
<1>1. FullInv => ReadyMeansEmpty
  BY DEF FullInv, Inv, SendInv
<1> QED  BY <1>1, ConnectionInvariance, PTL

\* m_flushing is only left behind by a flush that failed with vectors queued
\* (connection.cpp:111-113).
THEOREM FlushIsOver == Spec => []StaleFlushing
<1>1. FullInv => StaleFlushing
  BY DEF FullInv, Inv, SendInv
<1> QED  BY <1>1, ConnectionInvariance, PTL

\* Until ::send fails, no byte is lost, repeated or reordered, however the
\* vectors, the partial sends and the flushes fall (connection.cpp:26-60, 107-131).
THEOREM SendLosesNothing == Spec => []NothingLost
<1>1. FullInv => NothingLost
  BY LosslessIsNothingLost DEF FullInv
<1> QED  BY <1>1, ConnectionInvariance, PTL

\* With edge-triggered epoll, the thread never goes back to epoll_wait with
\* queued bytes, input or an end of stream that nothing will wake it for
\* (connection.cpp:26-60, 107-131, 140-189).
THEOREM AlwaysWoken == Spec => []WillBeWoken
<1>1. FullInv => WillBeWoken
  BY DEF FullInv, WakeInv, InputNoticed, QueueNoticed, Place, RoomWillCome, WillBeWoken
<1> QED  BY <1>1, ConnectionInvariance, PTL

\* recv hands over everything it takes (connection.cpp:63-105, 167-186).
THEOREM NothingWithheld == Spec => []TakenIsDelivered
<1>1. FullInv => TakenIsDelivered
  <2> SUFFICES ASSUME FullInv, pc \in {"idle", "polled"}
               PROVE  delivered + sock.avail = arrived
    BY DEF TakenIsDelivered
  <2>1. delivered + 0 + sock.avail = arrived /\ delivered \in Nat
    BY DEF FullInv, Inv, InInv, Collected, TypeOK
  <2> QED  BY <2>1
<1> QED  BY <1>1, ConnectionInvariance, PTL

\* What a close by the peer can lose is what recv's last call had collected
\* (connection.cpp:84-94, 172-178).
THEOREM ClosingLoses == Spec => []ClosedByPeerLoses
<1>1. FullInv => ClosedByPeerLoses
  <2> SUFFICES ASSUME FullInv, pc = "closed", ~sock.reset
               PROVE  sock.fin /\ sock.avail = 0 /\ delivered + buf = arrived
    BY DEF ClosedByPeerLoses
  <2>1. sock.fin /\ sock.avail = 0 /\ delivered + buf + sock.avail = arrived
    BY DEF FullInv, Inv, InInv, Collected
  <2>2. delivered \in Nat /\ buf \in Nat
    BY DEF FullInv, Inv, TypeOK
  <2> QED  BY <2>1, <2>2
<1> QED  BY <1>1, ConnectionInvariance, PTL

\* The send path implements SendStream: every step is a Write, a Transmit, a
\* Break or does nothing to the bytes (connection.cpp:14-61, 107-131).
THEOREM ImplementsStream == Spec => StreamSpec
<1> USE DEF queueVars, dataVars, inVars, outVars
<1>1. Init => Stream!Init
  BY DEF Init, Stream!Init
<1>2. ASSUME FullInv, [Next]_vars PROVE [Stream!Next]_Stream!streamVars
  <2> USE <1>2 DEF Stream!streamVars
  <2>1. CASE broken
    BY <2>1, BrokenForGood DEF FullInv, Stream!Next, Stream!Broken
  <2>2. CASE ~broken
    <3>1. ASSUME NEW n \in Sizes, SendQueued(n) \/ SendCalled(n) PROVE Stream!Write
      <4>1. written' = written + n /\ UNCHANGED <<wire, broken>>
        BY <3>1 DEF SendQueued, SendCalled, AppSends
      <4>2. written \in Nat /\ n \in Nat
        BY SizesAssumption, BoundsAssumption DEF FullInv, Inv, TypeOK
      <4> QED  BY <4>1, <4>2 DEF Stream!Write
    <3>2. ASSUME NEW k \in 1..SndBuf, SendSome(k) PROVE Stream!Transmit
      <4>1. /\ Lossless' /\ Len(wire') = Len(wire) + k /\ Len(wire') <= written
        BY <2>2, <3>2, SendSomeIsLossless DEF FullInv
      <4>2. UNCHANGED <<written, broken>>
        BY <3>2 DEF SendSome
      <4>3. wire \in Seq(1..MaxWritten) /\ wire' \in Seq(1..MaxWritten) /\ written \in Nat
        BY StepIsTyped, BoundsAssumption DEF FullInv, Inv, TypeOK
      <4>4. Len(wire) \in Nat /\ wire' \in [1..Len(wire') -> 1..MaxWritten]
        BY <4>3, LenProperties
      <4>5. wire' = Stream!UpTo(Len(wire'))
        BY <2>2, <4>1, <4>2, <4>4 DEF Lossless, InOrder, Stream!UpTo
      <4>6. Len(wire') \in Len(wire)..written
        BY <4>1, <4>3, <4>4, BuffersAssumption
      <4> QED  BY <2>2, <4>2, <4>5, <4>6 DEF Stream!Transmit
    <3>3. CASE SendFailed
      BY <3>3 DEF SendFailed, Stream!Next, Stream!Break
    <3>4. CASE SendBlocked \/ SendDone \/ Flush
      BY <3>4 DEF SendBlocked, SendDone, Flush, FlushNext, FlushRequeued, FlushPopped,
                  FlushDone
    <3>5. CASE EpollWait \/ OnData \/ Recv \/ CallbackDone
      BY <3>5 DEF EpollWait, OnData, OnWritable, NotWritable, Checks, Recv, RecvSome,
                  RecvBlocked, RecvFailed, CallbackDone
    <3>6. CASE Peer
      BY <3>6 DEF Peer, Acknowledge, Arrive, PeerCloses, PeerResets, Kernel
    <3>7. CASE UNCHANGED vars
      BY <3>7 DEF vars
    <3> QED  BY <3>1, <3>2, <3>3, <3>4, <3>5, <3>6, <3>7
             DEF Next, Thread, Send, Closed, Stream!Next
  <2> QED  BY <2>1, <2>2
<1> QED  BY <1>1, <1>2, ConnectionInvariance, PTL DEF Spec, StreamSpec, Stream!Spec
-----------------------------------------------------------------------------
(* on_data returns *)

\* The vectors the flush has still to take out of the queue, while one is coming
\* or running; the vector in hand may become one more before it.
ToFlush == IF pc \in {"polled", "flush"} THEN Len(m_send_queue)
           ELSE IF FrontOut THEN Len(m_send_queue) - 1
           ELSE IF pc = "send" /\ ret = "polled" THEN Len(m_send_queue) + 1
           ELSE 0

\* What a vector costs at most: a ::send for each byte, and four steps around.
Cost(n) == (MaxWritten + 4) * n

InHand == IF pc = "send" THEN Size(cur) + 3
          ELSE IF pc = "flushed" THEN Size(cur) + 2 ELSE 0

\* on_data's parts, in the order it goes through them.
Stage == CASE Place = "polled" -> 5
           [] Place \in {"flush", "flushed"} -> 4
           [] Place = "checks" -> 3
           [] Place = "callback" /\ again -> 3
           [] Place = "recv" -> 2
           [] Place = "callback" /\ ~again -> 1
           [] OTHER -> 0

\* The steps left until the thread is back in epoll_wait.
Work == Cost(ToFlush) + InHand + Stage + 2 * sock.avail

\* A vector less saves its cost.
LEMMA CostGrows ==
  /\ \A n \in Nat : Cost(n) \in Nat
  /\ \A m, n \in Nat : /\ m <= n => Cost(m) <= Cost(n)
                       /\ m < n => Cost(m) + MaxWritten + 4 <= Cost(n)
<1> DEFINE K == MaxWritten + 4
<1>1. K \in Nat
  BY BoundsAssumption
<1>2. \A m, n \in Nat : m <= n => K * n = K * m + K * (n - m) /\ K * (n - m) >= 0
  <2> HIDE DEF K
  <2> QED  BY <1>1
<1>3. \A m, n \in Nat : m < n => K * (n - m) >= K
  <2> HIDE DEF K
  <2> QED  BY <1>1
<1>4. \A n \in Nat : K * n \in Nat
  <2> HIDE DEF K
  <2> QED  BY <1>1
<1>5. \A n : Cost(n) = K * n
  BY DEF Cost
<1> HIDE DEF K
<1>6. \A m, n \in Nat : m <= n => K * m <= K * n
  BY <1>2, <1>4
<1>7. \A m, n \in Nat : m < n => K * m + K <= K * n
  BY <1>1, <1>2, <1>3, <1>4
<1>8. \A n \in Nat : n + K = n + MaxWritten + 4
  BY BoundsAssumption DEF K
<1> QED  BY <1>4, <1>5, <1>6, <1>7, <1>8

LEMMA WorkIsCounted ==
  ASSUME Inv
  PROVE  ToFlush \in Nat /\ InHand \in Nat /\ Stage \in Nat /\ Work \in Nat
<1> TypeOK /\ SendInv
  BY DEF Inv
<1>1. Len(m_send_queue) \in Nat /\ (FrontOut => Len(m_send_queue) > 0)
  BY EmptySeq, LenProperties DEF TypeOK, SendInv
<1>2. ToFlush \in Nat
  BY <1>1 DEF ToFlush
<1>3. InHand \in Nat
  <2>1. Size(cur) \in Nat
    BY CurIsTyped, BoundsAssumption
  <2> QED  BY <2>1 DEF InHand
<1>4. Stage \in Nat
  BY DEF Stage
<1>5. sock.avail \in Nat
  BY BoundsAssumption DEF TypeOK
<1> QED  BY <1>2, <1>3, <1>4, <1>5, CostGrows DEF Work


\* The ways a step brings the thread nearer to epoll_wait.
LEMMA LessWork ==
  ASSUME Inv, ToFlush' \in Nat, InHand' \in Nat, Stage' \in Nat, sock'.avail \in Nat,
         \/ /\ ToFlush' <= ToFlush
            /\ InHand' + Stage' + 2 * sock'.avail < InHand + Stage + 2 * sock.avail
         \/ /\ ToFlush' < ToFlush
            /\ InHand' + Stage' + 2 * sock'.avail
                 < InHand + Stage + 2 * sock.avail + MaxWritten + 4
  PROVE  Work' < Work
<1> DEFINE rest == InHand + Stage + 2 * sock.avail
           rest2 == InHand' + Stage' + 2 * sock'.avail
<1>1. rest \in Nat /\ rest2 \in Nat
  <2>1. sock.avail \in Nat
    BY BoundsAssumption DEF Inv, TypeOK
  <2> QED  BY <2>1, WorkIsCounted
<1>2. Work = Cost(ToFlush) + rest /\ Work' = Cost(ToFlush') + rest2
  <2>1. sock.avail \in Nat
    BY BoundsAssumption DEF Inv, TypeOK
  <2>2. Cost(ToFlush) \in Nat /\ Cost(ToFlush') \in Nat
    BY WorkIsCounted, CostGrows
  <2> QED  BY <2>1, <2>2, WorkIsCounted DEF Work
<1>3. \/ ToFlush' <= ToFlush /\ rest2 < rest
      \/ ToFlush' < ToFlush /\ rest2 < rest + MaxWritten + 4
  OBVIOUS
<1> HIDE DEF rest, rest2
<1>4. Cost(ToFlush) \in Nat /\ Cost(ToFlush') \in Nat /\ ToFlush \in Nat
  BY WorkIsCounted, CostGrows
<1>5. CASE ToFlush' <= ToFlush /\ rest2 < rest
  <2>1. Cost(ToFlush') <= Cost(ToFlush)
    BY <1>4, <1>5, CostGrows
  <2> QED  BY <1>1, <1>2, <1>4, <1>5, <2>1
<1>6. CASE ToFlush' < ToFlush /\ rest2 < rest + MaxWritten + 4
  <2>1. Cost(ToFlush') + MaxWritten + 4 <= Cost(ToFlush)
    BY <1>4, <1>6, CostGrows
  <2> QED  BY <1>1, <1>2, <1>4, <1>6, <2>1, BoundsAssumption
<1> QED  BY <1>3, <1>5, <1>6

\* Most steps take the thread on without reading.
LEMMA LessToDo ==
  ASSUME Inv, ToFlush' \in Nat, InHand' \in Nat, Stage' \in Nat,
         ToFlush' <= ToFlush, InHand' + Stage' < InHand + Stage,
         sock'.avail = sock.avail
  PROVE  Work' < Work
<1>1. sock.avail \in Nat /\ InHand \in Nat /\ Stage \in Nat /\ ToFlush \in Nat
  BY WorkIsCounted, BoundsAssumption DEF Inv, TypeOK
<1>2. \A a, b, c, d, n \in Nat : a + b < c + d => a + b + 2 * n < c + d + 2 * n
  OBVIOUS
<1>3. InHand' + Stage' + 2 * sock'.avail < InHand + Stage + 2 * sock.avail
  BY <1>1, <1>2, Zenon
<1> QED  BY <1>1, <1>3, LessWork

\* What the arithmetic of a step needs to know.
LEMMA WorkSizes ==
  ASSUME Inv
  PROVE  /\ Size(cur) \in Nat /\ Size(cur) <= MaxWritten /\ sock.avail \in Nat
         /\ Len(m_send_queue) \in Nat /\ (FrontOut => Len(m_send_queue) > 0)
<1>1. Size(cur) \in Nat /\ Size(cur) <= MaxWritten
  BY CurIsTyped, BoundsAssumption DEF Inv
<1>2. Len(m_send_queue) \in Nat /\ (FrontOut => Len(m_send_queue) > 0)
  BY EmptySeq, LenProperties DEF Inv, TypeOK, SendInv
<1> QED  BY <1>1, <1>2, BoundsAssumption DEF Inv, TypeOK

\* Connection::send: each ::send takes a byte or ends the call.
LEMMA SendWorks ==
  ASSUME Inv, Send
  PROVE  Work' < Work
<1> USE DEF queueVars, dataVars, inVars, outVars
<1> TypeOK /\ SendInv
  BY DEF Inv
<1>1. /\ Size(cur) \in Nat /\ Size(cur) <= MaxWritten /\ sock.avail \in Nat
      /\ Len(m_send_queue) \in Nat /\ (FrontOut => Len(m_send_queue) > 0)
  BY WorkSizes
<1>2. ASSUME NEW k \in 1..SndBuf, SendSome(k) PROVE Work' < Work
  <2>1. Size(cur') = Size(cur) - k /\ Size(cur') \in Nat
    <3>1. k \in 1..Size(cur)
      <4>1. sock.unacked \in 0..SndBuf
        BY DEF TypeOK
      <4>2. k \in 1..Smaller(Size(cur), SndBuf - sock.unacked)
        BY <1>2 DEF SendSome, Offered, Space
      <4> QED  BY <1>1, <4>1, <4>2, BuffersAssumption DEF Smaller
    <3>2. cur' = Interval(cur.lo + k, cur.hi)
      BY <1>2 DEF SendSome
    <3>3. cur.lo \in Nat /\ cur.hi \in Nat
      BY CurIsTyped, BoundsAssumption
    <3> QED  BY <3>1, <3>2, <3>3 DEF Size, Interval
  <2>2. UNCHANGED <<pc, ret, m_send_queue, again>> /\ pc = "send"
    BY <1>2 DEF SendSome
  <2>3. sock'.avail = sock.avail
    BY <1>2 DEF SendSome, TypeOK
  <2>4. ToFlush' = ToFlush /\ Stage' = Stage
    BY <2>2 DEF ToFlush, Stage, FrontOut, Place
  <2>5. InHand = Size(cur) + 3 /\ InHand' = Size(cur') + 3
    BY <2>2 DEF InHand
  <2>6. InHand' < InHand /\ InHand' \in Nat
    BY <1>1, <2>1, <2>5, BuffersAssumption
  <2>7. InHand' + Stage' < InHand + Stage /\ ToFlush' <= ToFlush
    BY <2>4, <2>6, WorkIsCounted
  <2> QED  BY <2>3, <2>4, <2>6, <2>7, LessToDo, WorkIsCounted
<1>3. ASSUME pc = "send", ret = "flush", pc' = "flushed", UNCHANGED <<cur, ret>>,
             UNCHANGED <<m_send_queue, again>>, sock'.avail = sock.avail
      PROVE  Work' < Work
  <2>1. ToFlush' = ToFlush /\ Stage' = Stage
    BY <1>3 DEF ToFlush, Stage, FrontOut, Place
  <2>2. InHand = Size(cur) + 3 /\ InHand' = Size(cur) + 2
    BY <1>3 DEF InHand
  <2>3. InHand' < InHand /\ InHand' \in Nat
    BY <1>1, <2>2
  <2>4. InHand' + Stage' < InHand + Stage /\ ToFlush' <= ToFlush
    BY <2>1, <2>3, WorkIsCounted
  <2> QED  BY <1>3, <2>1, <2>3, <2>4, LessToDo, WorkIsCounted
<1>4. ASSUME pc = "send", pc' = ret, ret # "flush", UNCHANGED again,
             sock'.avail = sock.avail,
             Len(m_send_queue') \in {Len(m_send_queue), Len(m_send_queue) + 1}
      PROVE  Work' < Work
  <2>1. ret \in {"idle", "polled", "callback"}
    BY <1>4 DEF TypeOK
  <2>2. ToFlush' <= ToFlush /\ ToFlush' \in Nat /\ Stage' = Stage
    BY <1>1, <1>4, <2>1 DEF ToFlush, Stage, FrontOut, Place
  <2>3. InHand = Size(cur) + 3 /\ InHand' = 0
    BY <1>4, <2>1 DEF InHand
  <2>4. InHand' < InHand
    BY <1>1, <2>3
  <2>5. InHand' + Stage' < InHand + Stage
    BY <2>2, <2>3, <2>4, WorkIsCounted
  <2> QED  BY <1>4, <2>2, <2>3, <2>5, LessToDo, WorkIsCounted
<1>5. CASE SendBlocked
  <2>1. sock'.avail = sock.avail
    BY <1>5 DEF SendBlocked, TypeOK
  <2>2. CASE ret = "flush"
    <3>1. m_send_queue' = m_send_queue
      BY <1>5, <2>2 DEF SendBlocked, Requeued, SendInv, FrontOut
    <3> QED  BY <1>3, <1>5, <2>1, <2>2, <3>1 DEF SendBlocked, SendReturns
  <2>3. CASE ret # "flush"
    <3>1. Len(m_send_queue') \in {Len(m_send_queue), Len(m_send_queue) + 1}
      BY <1>5, AppendProperties DEF SendBlocked, Requeued, TypeOK
    <3> QED  BY <1>4, <1>5, <2>1, <2>3, <3>1 DEF SendBlocked, SendReturns, ReturnTo
  <2> QED  BY <2>2, <2>3
<1>6. CASE SendDone
  BY <1>3, <1>4, <1>6 DEF SendDone, SendReturns, ReturnTo
<1>7. CASE SendFailed
  <2>1. CASE ret = "flush"
    <3>1. pc = "send" /\ pc' = "checks" /\ UNCHANGED <<sock, again>>
      BY <1>7, <2>1 DEF SendFailed, ReturnTo
    <3>2. ToFlush' = 0 /\ Stage' = 3 /\ Stage = 4 /\ InHand' = 0
      BY <2>1, <3>1 DEF ToFlush, Stage, FrontOut, Place, InHand
    <3>3. InHand' + Stage' < InHand + Stage /\ ToFlush' <= ToFlush
      BY <3>2, WorkIsCounted
    <3> QED  BY <3>1, <3>2, <3>3, LessToDo
  <2>2. CASE ret # "flush"
    BY <1>4, <1>7, <2>2 DEF SendFailed, ReturnTo
  <2> QED  BY <2>1, <2>2
<1> QED  BY <1>2, <1>5, <1>6, <1>7 DEF Send

\* Connection::flush_send_queue: each turn takes a vector from the queue, or is
\* the last one.
LEMMA FlushWorks ==
  ASSUME Inv, Flush
  PROVE  Work' < Work
<1> USE DEF queueVars, dataVars, inVars, outVars
<1> TypeOK /\ SendInv
  BY DEF Inv
<1>1. /\ Size(cur) \in Nat /\ Size(cur) <= MaxWritten /\ sock.avail \in Nat
      /\ Len(m_send_queue) \in Nat /\ (FrontOut => Len(m_send_queue) > 0)
  BY WorkSizes
<1>2. CASE FlushNext
  <2>1. /\ pc = "flush" /\ pc' = "send" /\ ret' = "flush"
        /\ UNCHANGED <<m_send_queue, sock, again>>
    BY <1>2 DEF FlushNext
  <2>2. Len(m_send_queue) > 0
    BY <1>1, <1>2, EmptySeq DEF FlushNext, TypeOK
  <2>3. ToFlush' = ToFlush - 1 /\ Stage' = Stage
    BY <2>1 DEF ToFlush, Stage, FrontOut, Place
  <2>4. Size(cur') \in Nat /\ Size(cur') <= MaxWritten
    <3>1. cur' \in Intervals
      BY <1>2, HeadTailProperties DEF FlushNext, TypeOK
    <3> QED  BY <3>1, BoundsAssumption DEF Intervals, Size
  <2>5. InHand = 0 /\ InHand' = Size(cur') + 3
    BY <2>1 DEF InHand
  <2>6. ToFlush' < ToFlush /\ ToFlush' \in Nat
    BY <1>1, <2>1, <2>2, <2>3 DEF ToFlush
  <2>7. /\ InHand' \in Nat
        /\ InHand' + Stage' + 2 * sock'.avail
             < InHand + Stage + 2 * sock.avail + MaxWritten + 4
    <3>1. InHand' \in Nat /\ InHand' < InHand + MaxWritten + 4
      BY <2>4, <2>5, BoundsAssumption
    <3>2. sock'.avail = sock.avail /\ Stage' = Stage /\ Stage \in Nat /\ InHand = 0
      BY <2>1, <2>3, <2>5, WorkIsCounted
    <3> QED  BY <1>1, <3>1, <3>2, BoundsAssumption
  <2> QED  BY <1>1, <2>1, <2>3, <2>6, <2>7, LessWork, WorkIsCounted
<1>3. CASE FlushRequeued \/ FlushDone
  <2>1. pc \in {"flushed", "flush"} /\ pc' = "checks" /\ UNCHANGED <<sock, again>>
    BY <1>3 DEF FlushRequeued, FlushDone, ReturnTo
  <2>2. ToFlush' = 0 /\ InHand' = 0 /\ Stage' = 3 /\ Stage = 4
    BY <2>1 DEF ToFlush, FrontOut, InHand, Stage, Place
  <2>3. InHand' + Stage' < InHand + Stage /\ ToFlush' <= ToFlush
    BY <2>2, WorkIsCounted
  <2> QED  BY <2>1, <2>2, <2>3, LessToDo
<1>4. CASE FlushPopped
  <2>1. /\ pc = "flushed" /\ pc' = "flush" /\ UNCHANGED <<sock, again>>
        /\ m_send_queue' = Tail(m_send_queue)
    BY <1>4 DEF FlushPopped, ReturnTo
  <2>2. Len(m_send_queue') = Len(m_send_queue) - 1
    BY <1>1, <2>1, HeadTailProperties, EmptySeq DEF TypeOK, FrontOut
  <2>3. ToFlush' = ToFlush /\ Stage' = Stage /\ InHand' = 0 /\ InHand = Size(cur) + 2
    BY <2>1, <2>2 DEF ToFlush, Stage, FrontOut, Place, InHand
  <2>4. InHand' + Stage' < InHand + Stage /\ ToFlush' <= ToFlush
    BY <1>1, <2>3, WorkIsCounted
  <2> QED  BY <2>1, <2>3, <2>4, LessToDo, WorkIsCounted
<1> QED  BY <1>2, <1>3, <1>4 DEF Flush

\* on_data's own steps, and the return of m_message_cb.
LEMMA OnDataWorks ==
  ASSUME Inv, OnData \/ CallbackDone
  PROVE  Work' < Work
<1> USE DEF queueVars, dataVars, inVars, outVars
<1>1. Len(m_send_queue) \in Nat
  BY WorkSizes
<1>2. CASE OnWritable
  <2>1. /\ ToFlush' = ToFlush /\ ToFlush = Len(m_send_queue) /\ InHand' = 0 /\ InHand = 0
        /\ Stage' = 4 /\ Stage = 5 /\ sock' = sock
    BY <1>2 DEF OnWritable, ToFlush, InHand, Stage, Place, FrontOut
  <2> QED  BY <1>1, <2>1, LessToDo
<1>3. CASE NotWritable
  <2>1. /\ ToFlush' = 0 /\ ToFlush = Len(m_send_queue) /\ InHand' = 0 /\ InHand = 0
        /\ Stage' = 3 /\ Stage = 5 /\ sock' = sock
    BY <1>3 DEF NotWritable, ToFlush, InHand, Stage, Place, FrontOut
  <2> QED  BY <1>1, <2>1, LessToDo
<1>4. CASE Checks
  <2>1. /\ ToFlush' = 0 /\ ToFlush = 0 /\ InHand' = 0 /\ InHand = 0
        /\ (Stage' = 0 \/ Stage' = 2) /\ Stage = 3 /\ sock' = sock
    BY <1>4 DEF Checks, AfterFlush, ToFlush, InHand, Stage, Place, FrontOut
  <2>2. Stage' \in Nat /\ InHand' + Stage' < InHand + Stage
    BY <2>1
  <2> QED  BY <2>1, <2>2, LessToDo
<1>5. CASE CallbackDone
  <2>1. again \in BOOLEAN
    BY DEF Inv, TypeOK
  <2>2. /\ ToFlush' = 0 /\ ToFlush = 0 /\ InHand' = 0 /\ InHand = 0 /\ sock' = sock
        /\ IF again THEN Stage' = 2 /\ Stage = 3 ELSE Stage' = 0 /\ Stage = 1
    BY <1>5, <2>1 DEF CallbackDone, AfterCallback, ToFlush, InHand, Stage, Place, FrontOut
  <2> QED  BY <2>2, LessToDo
<1> QED  BY <1>2, <1>3, <1>4, <1>5 DEF OnData

\* Connection::recv: each ::recv takes a byte or is the last of its call, and
\* only a call that took bytes is followed by another.
LEMMA RecvWorks ==
  ASSUME Inv, Recv
  PROVE  Work' < Work
<1> USE DEF queueVars, dataVars, inVars, outVars
<1>1. sock.avail \in Nat /\ buf \in Nat /\ sock \in Sockets
  BY BoundsAssumption DEF Inv, TypeOK, Sockets
<1>2. pc = "recv" /\ ToFlush = 0 /\ InHand = 0 /\ Stage = 2
  BY DEF Recv, RecvSome, RecvBlocked, RecvFailed, ToFlush, InHand, Stage, Place, FrontOut
<1>3. ASSUME NEW k \in 1..CHUNK_SIZE, RecvSome(k) PROVE Work' < Work
  <2>1. k \in 1..sock.avail
    <3>1. k \in 1..Smaller(RecvSize, sock.avail)
      BY <1>3 DEF RecvSome
    <3>2. RecvSize \in Int
      BY <1>1, BuffersAssumption DEF RecvSize
    <3> QED  BY <1>1, <3>1, <3>2 DEF Smaller
  <2>2. sock'.avail = sock.avail - k
    BY <1>1, <1>3 DEF RecvSome, Sockets
  <2>3. (pc' = "recv") \/ (pc' = "callback" /\ again')
    BY <1>2, <1>3, Zenon DEF RecvSome
  <2>4. ToFlush' = 0 /\ InHand' = 0 /\ Stage' \in {2, 3}
    BY <2>3 DEF ToFlush, InHand, Stage, Place, FrontOut
  <2>5. sock'.avail \in Nat
    BY <1>1, <2>1, <2>2
  <2>6. InHand' + Stage' + 2 * sock'.avail < InHand + Stage + 2 * sock.avail
    BY <1>1, <1>2, <2>1, <2>2, <2>4
  <2> QED  BY <1>2, <2>4, <2>5, <2>6, LessWork
<1>4. CASE RecvBlocked
  <2>1. ToFlush' = 0 /\ InHand' = 0 /\ Stage' = 1 /\ sock' = sock
    BY <1>4 DEF RecvBlocked, ToFlush, InHand, Stage, Place, FrontOut
  <2> QED  BY <1>2, <2>1, LessToDo
<1>5. CASE RecvFailed
  <2>1. ToFlush' = 0 /\ InHand' = 0 /\ Stage' = 0 /\ sock' = sock
    BY <1>5 DEF RecvFailed, ToFlush, InHand, Stage, Place, FrontOut
  <2> QED  BY <1>2, <2>1, LessToDo
<1> QED  BY <1>3, <1>4, <1>5 DEF Recv

\* The kernel leaves the work as it is, unless more input arrives.
LEMMA OthersDoNoWork ==
  ASSUME Inv, Peer \/ Closed \/ UNCHANGED vars
  PROVE  Work' = Work \/ arrived' # arrived
<1> USE DEF queueVars, dataVars, inVars, outVars
<1>1. ASSUME UNCHANGED <<m_send_queue, pc, cur, ret, again>>, sock'.avail = sock.avail
      PROVE  Work' = Work
  BY <1>1 DEF Work, ToFlush, InHand, Stage, Place, FrontOut
<1>2. CASE Closed \/ UNCHANGED vars
  BY <1>1, <1>2 DEF Closed, vars
<1>3. sock \in Sockets
  BY DEF Inv, TypeOK, Sockets
<1>4. ASSUME NEW k \in 1..SndBuf, Acknowledge(k) PROVE Work' = Work
  BY <1>1, <1>3, <1>4 DEF Acknowledge, Kernel, Sockets
<1>5. CASE PeerCloses \/ PeerResets
  BY <1>1, <1>3, <1>5 DEF PeerCloses, PeerResets, Kernel, Sockets
<1>6. ASSUME NEW k \in 1..MaxArrived, Arrive(k) PROVE arrived' # arrived
  <2>1. arrived \in Nat /\ arrived' = arrived + k
    BY <1>6, BoundsAssumption DEF Inv, TypeOK, Arrive
  <2> QED  BY <2>1, BoundsAssumption
<1> QED  BY <1>2, <1>4, <1>5, <1>6 DEF Peer

\* The thread comes back to epoll_wait: every step it takes before that decreases
\* Work, a natural number, which only new input and calls of send can raise.  A
\* flush therefore ends although send may fail, block or take bytes one by one,
\* and recv goes on only as long as the peer goes on sending
\* (connection.cpp:26-61, 107-131, 170-186).
OnDataProgress ==
  /\ Thread => EpollWait \/ Work' < Work
  /\ \/ Thread \/ (\E n \in Sizes : AppSends(n)) \/ arrived' # arrived
     \/ Work' = Work

THEOREM OnDataReturns == Spec => [](Work \in Nat) /\ [][OnDataProgress]_vars
<1>1. FullInv => Work \in Nat
  BY WorkIsCounted DEF FullInv
<1>2. FullInv /\ [Next]_vars => OnDataProgress
  <2> SUFFICES ASSUME FullInv, [Next]_vars PROVE OnDataProgress
    OBVIOUS
  <2> Inv
    BY DEF FullInv
  <2>1. Thread => EpollWait \/ Work' < Work
    BY SendWorks, FlushWorks, OnDataWorks, RecvWorks DEF Thread
  <2>2. \/ Thread \/ (\E n \in Sizes : AppSends(n)) \/ arrived' # arrived
        \/ Work' = Work
    BY OthersDoNoWork DEF Next, SendQueued, SendCalled
  <2> QED  BY <2>1, <2>2 DEF OnDataProgress
<1> QED  BY <1>1, <1>2, ConnectionInvariance, PTL DEF Spec

=============================================================================
