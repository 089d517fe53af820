--------------------------- MODULE PacketStream ---------------------------
(***************************************************************************)
(* How node::Server::Connection takes packets out of a TCP connection:     *)
(* stream::packet::Sequence, that is SequenceReader<HeaderReader,          *)
(* DataReader>, and the ValueReader::read both readers inherit.  Every     *)
(* call of on_message hands over one segment, as long as recv happened to  *)
(* make it, possibly empty.                                                *)
(*                                                                         *)
(* A byte is its position in what the peer has sent, from 1.  The peer's   *)
(* first packet is a header of HeaderSize bytes and len data bytes; what   *)
(* follows is the next packet.  A header is decoded to len if its bytes    *)
(* are the right ones, and to some other value if not: a byte that         *)
(* m_curr_data never received is uninitialized (Junk).                     *)
(***************************************************************************)
EXTENDS Integers, Sequences

CONSTANTS
  HeaderSize,  \* sizeof(Header)
  MaxSize,     \* Data::MaxSize
  Lens,        \* the values of a header's m_packet_len
  MaxSegment,  \* bound: bytes in one segment
  MaxStream    \* bound: bytes the peer sends in all

ASSUME SizesAssumption == HeaderSize \in Nat \ {0} /\ MaxSize \in Nat \ {0}
ASSUME LensAssumption == Lens \subseteq Nat
ASSUME BoundsAssumption == MaxSegment \in Nat /\ MaxStream \in Nat

VARIABLES
  reader,         \* the one reader of m_readers that is not nullptr, or NoReader
  m_curr_offset,
  m_ready,
  len,            \* the peer: m_packet_len of its first packet
  received,       \* bytes of the segments handed over so far
  whole,          \* history: did the first segment hold the whole header?
  outcome,        \* history: the calls of m_finsh_cb and m_error_cb
  delivered       \* history: the m_data given to the last callback

vars == <<reader, m_curr_offset, m_ready, len, received, whole, outcome, delivered>>

Junk == 0
NoReader == [kind |-> "none"]

Smaller(a, b) == IF a < b THEN a ELSE b
Capacity(kind) == IF kind = "Header" THEN HeaderSize ELSE MaxSize

\* A new ValueReader; m_size is the DataReader's.
NewReader(kind, size) ==
  [kind |-> kind, m_size |-> size, m_total_read |-> 0,
   m_curr_data |-> [i \in 1..Capacity(kind) |-> Junk],
   max_size_exceeded |-> FALSE, stop_condition_reached |-> FALSE]

Init ==
  /\ reader = NewReader("Header", 0)
  /\ m_curr_offset = 0 /\ m_ready = FALSE
  /\ len \in Lens
  /\ received = 0 /\ whole = FALSE /\ outcome = <<>> /\ delivered = <<>>

-----------------------------------------------------------------------------
(* ValueReader::read on a segment of n bytes *)

\* Mutant: off by one.
ShouldStop_Early(r) == r.kind = "Data" /\ r.m_total_read + 1 >= r.m_size

\* Mutant: the header stops by its length too, which it does not know.
ShouldStop_Any(r) == r.m_total_read >= r.m_size

\* Only the DataReader has a stop condition.
ShouldStop(r) == r.kind = "Data" /\ r.m_total_read >= r.m_size

\* Mutant: m_total_read does not count against the segment.
Room_Unbounded(r, n, offset) == Smaller(n - offset, Capacity(r.kind) - r.m_total_read)

\* How many bytes the loop may still take: m_total_read is skipped in the
\* segment on top of the offset, and counts against the capacity.
Room(r, n, offset) == Smaller(n - offset, Capacity(r.kind)) - r.m_total_read

\* The stop condition is looked at after a byte was stored, and that byte is
\* not counted; m_curr_data is filled from its start in every call.
Stops(r, n, offset) == ShouldStop(r) /\ Room(r, n, offset) > 0
BytesRead(r, n, offset) ==
  IF Stops(r, n, offset) \/ Room(r, n, offset) < 0 THEN 0 ELSE Room(r, n, offset)
AfterRead(r, n, offset) ==
  LET count  == BytesRead(r, n, offset)
      stored == IF Stops(r, n, offset) THEN 1 ELSE count
      from   == received + offset + r.m_total_read
  IN [r EXCEPT !.m_total_read = @ + count,
               !.m_curr_data = [i \in DOMAIN @ |-> IF i <= stored THEN from + i ELSE @[i]],
               !.stop_condition_reached = Stops(r, n, offset),
               !.max_size_exceeded = (r.m_total_read + count >= Capacity(r.kind))]

\* Mutant: the reader is kept.
Retired_Not(r) == r

\* A reader that is ready is dropped before it is consumed.
Retired(r) == NoReader

IsReady(r) == r.max_size_exceeded \/ r.stop_condition_reached

\* HeaderReader::consume
PacketLen(r) == IF r.m_curr_data = [i \in 1..HeaderSize |-> i] THEN {len} ELSE Lens

\* DataReader::consume, if the stop condition was reached
Consumed(r) == SubSeq(r.m_curr_data, 1, r.m_total_read)

-----------------------------------------------------------------------------
(* SequenceReader::read: perform_read<0>, then perform_read<1> *)

\* perform_read<1> with the DataReader r on what is left of the segment.
ReadData(r, n, offset) ==
  LET after == AfterRead(r, n, offset) IN
  \/ /\ offset >= n
     /\ m_curr_offset' = 0
     /\ reader' = r
     /\ UNCHANGED <<m_ready, outcome, delivered>>
  \/ /\ offset < n
     /\ m_curr_offset' = offset + BytesRead(r, n, offset)
     /\ \/ /\ ~IsReady(after)
           /\ reader' = after
           /\ UNCHANGED <<m_ready, outcome, delivered>>
        \/ /\ IsReady(after)
           /\ reader' = Retired(after)
           /\ IF after.stop_condition_reached
              THEN /\ m_ready' = TRUE
                   /\ outcome' = Append(outcome, "finished")
                   /\ delivered' = Consumed(after)
              ELSE /\ outcome' = Append(outcome, "too_large")
                   /\ UNCHANGED <<m_ready, delivered>>

\* perform_read<0>: a complete header makes the DataReader, which reads on.
ReadHeader(n) ==
  LET after == AfterRead(reader, n, m_curr_offset)
      offset == m_curr_offset + BytesRead(reader, n, m_curr_offset)
  IN \/ /\ m_curr_offset >= n
        /\ m_curr_offset' = 0
        /\ UNCHANGED <<reader, m_ready, outcome, delivered>>
     \/ /\ m_curr_offset < n /\ ~IsReady(after)
        /\ reader' = after
        /\ m_curr_offset' = offset
        /\ UNCHANGED <<m_ready, outcome, delivered>>
     \/ /\ m_curr_offset < n /\ IsReady(after)
        /\ \E size \in PacketLen(after) : ReadData(NewReader("Data", size), n, offset)

\* node::Server::Connection::on_message with a segment of n bytes.
OnMessage(n) ==
  /\ received + n <= MaxStream
  /\ received' = received + n
  /\ whole' = (whole \/ (received = 0 /\ n >= HeaderSize))
  /\ UNCHANGED len
  /\ \/ reader.kind = "Header" /\ ReadHeader(n)
     \/ reader.kind = "Data" /\ ReadData(reader, n, m_curr_offset)
     \/ /\ reader = NoReader
        /\ UNCHANGED <<reader, m_curr_offset, m_ready, outcome, delivered>>

Next == \E n \in 0..MaxSegment : OnMessage(n)

Spec == Init /\ [][Next]_vars

-----------------------------------------------------------------------------
(* Properties *)

Position == 0..MaxStream

\* A reader that is still reading.
Readers(kind) ==
  [kind : {kind}, m_size : Lens \cup {0}, m_total_read : 0..(Capacity(kind) - 1),
   m_curr_data : [1..Capacity(kind) -> Position],
   max_size_exceeded : {FALSE}, stop_condition_reached : {FALSE}]

\* Type invariant.
TypeOK ==
  /\ reader \in {NoReader} \cup Readers("Header") \cup Readers("Data")
  /\ m_curr_offset \in 0..MaxSegment
  /\ m_ready \in BOOLEAN /\ whole \in BOOLEAN
  /\ len \in Lens /\ received \in Position
  /\ outcome \in Seq({"finished", "too_large"})
  /\ delivered \in Seq(Position)

\* A connection gets one verdict: once a packet was finished or refused there
\* is no reader left, and nothing that arrives later is ever looked at
\* (sequence_reader.h:158, 146: m_readers is never filled again).
OneVerdict ==
  /\ Len(outcome) <= 1
  /\ outcome # <<>> <=> reader = NoReader
  /\ m_ready <=> outcome = <<"finished">>

\* A header that arrives in one segment, whatever follows it there and however
\* many empty messages come first, is decoded from its own bytes.
HeaderIsRight ==
  whole /\ reader.kind = "Data" => reader.m_size = len

\* A verdict is backed by bytes that did arrive, and more of them than it is
\* about.  A finished packet is at least as long as its header said and fits the
\* buffer, but it is finished by a later segment, longer than all that was counted
\* before: only after more than twice its data has come, so that a peer that
\* sends one packet and waits gets no verdict, and what it then begins with is a
\* byte from far behind it.  A packet is refused only when a whole buffer of
\* bytes has come (value_reader.cpp:17-32, data_reader.cpp:22-28).
VerdictIsBacked ==
  /\ m_ready =>
       /\ whole => len <= Len(delivered)
       /\ Len(delivered) < MaxSize
       /\ received > HeaderSize + 2 * Len(delivered)
       /\ delivered # <<>> => Head(delivered) > HeaderSize + 2 * Len(delivered)
  /\ outcome = <<"too_large">> => received >= HeaderSize + MaxSize

\* "packet data section too large" (data_reader.cpp:9) is about packets that do
\* not fit in Data::MaxSize bytes.
TooLargeIsTooLarge == whole /\ outcome = <<"too_large">> => len > MaxSize

\* A packet whose read "finished" (node/server.cpp:30) holds the data bytes the
\* peer sent in it.
FinishedIsThePacket ==
  whole /\ m_ready =>
    SubSeq(delivered, 1, len) = [i \in 1..len |-> HeaderSize + i]
=============================================================================
