------------------------ MODULE PacketStreamProofs ------------------------
(***************************************************************************)
(* Proofs about PacketStream, for every size of header, buffer and segment. *)
(***************************************************************************)
EXTENDS PacketStream, SequenceTheorems, TLAPS

Kinds == {"Header", "Data"}

\* Until the first byte nothing has happened; a header that came in one piece
\* was consumed when it came.
HeaderInv ==
  /\ received = 0 => reader = NewReader("Header", 0) /\ m_curr_offset = 0 /\ ~whole
  /\ whole => reader.kind # "Header"
  /\ HeaderIsRight

\* The part of VerdictIsBacked that only needs the header.
FinishedIsLongEnough ==
  whole /\ m_ready => len <= Len(delivered) /\ Len(delivered) < MaxSize

Inv == TypeOK /\ OneVerdict /\ HeaderInv /\ FinishedIsLongEnough

\* There is room for at least one byte.
LEMMA CapacityIsPositive ==
  ASSUME NEW kind \in Kinds
  PROVE  Capacity(kind) \in Nat \ {0}
BY SizesAssumption DEF Kinds, Capacity

\* A new reader has read nothing.
LEMMA NewReaderIsTyped ==
  ASSUME NEW kind \in Kinds, NEW size \in Lens \cup {0}
  PROVE  /\ NewReader(kind, size) \in Readers(kind)
         /\ NewReader(kind, size).m_size = size
<1>1. Junk \in Position
  BY BoundsAssumption DEF Junk, Position
<1>2. 0 \in 0..(Capacity(kind) - 1)
  BY CapacityIsPositive
<1> QED  BY <1>1, <1>2 DEF NewReader, Readers

\* nullptr is not a reader.
LEMMA NoReaderKind == NoReader.kind = "none"
BY DEF NoReader

\* Lengths are natural numbers.
LEMMA LensAreNaturals == \A size \in Lens \cup {0} : size \in Nat
<1>1. \A size \in Lens : size \in Nat
  BY LensAssumption
<1> QED  BY <1>1

\* The fields of a reader that is reading.
LEMMA ReaderFields ==
  ASSUME NEW kind \in Kinds, NEW r \in Readers(kind)
  PROVE  /\ r.kind = kind /\ r.m_size \in Lens \cup {0} /\ r # NoReader
         /\ r.m_total_read \in 0..(Capacity(kind) - 1)
         /\ r.m_curr_data \in [1..Capacity(kind) -> Position]
         /\ r.m_size \in Nat
<1>1. r.kind = kind /\ kind # "none" /\ r.m_size \in Lens \cup {0}
  BY DEF Readers, Kinds
<1>2. r # NoReader
  BY <1>1, NoReaderKind
<1>3. r.m_size \in Nat
  BY <1>1, LensAreNaturals
<1> QED  BY <1>1, <1>2, <1>3 DEF Readers

\* Where ValueReader::read reads and stops (value_reader.h:33-62).
LEMMA ReadIsTyped ==
  ASSUME TypeOK,
         NEW kind \in Kinds, NEW r \in Readers(kind), NEW n \in Nat,
         NEW offset \in Nat, offset < n, received + n <= MaxStream
  PROVE  /\ BytesRead(r, n, offset) \in Nat
         /\ offset + BytesRead(r, n, offset) <= n
         /\ AfterRead(r, n, offset).m_total_read = r.m_total_read + BytesRead(r, n, offset)
         /\ AfterRead(r, n, offset).m_curr_data \in [1..Capacity(kind) -> Position]
         /\ AfterRead(r, n, offset).m_size = r.m_size
         /\ AfterRead(r, n, offset).stop_condition_reached = Stops(r, n, offset)
         /\ ~IsReady(AfterRead(r, n, offset)) => AfterRead(r, n, offset) \in Readers(kind)
<1> DEFINE count == BytesRead(r, n, offset)
           stored == IF Stops(r, n, offset) THEN 1 ELSE count
           from == received + offset + r.m_total_read
           after == AfterRead(r, n, offset)
<1>1. /\ r.kind = kind /\ r.m_size \in Lens \cup {0} /\ r.m_total_read \in Nat
      /\ r.m_curr_data \in [1..Capacity(kind) -> Position]
      /\ Capacity(kind) \in Nat \ {0}
  BY ReaderFields, CapacityIsPositive
<1>2. received \in Nat /\ MaxStream \in Nat
  BY BoundsAssumption DEF TypeOK, Position
<1>3. /\ Room(r, n, offset) \in Int
      /\ Room(r, n, offset) + r.m_total_read <= n - offset
      /\ Room(r, n, offset) + r.m_total_read <= Capacity(kind)
  BY <1>1 DEF Room, Smaller
<1>4. /\ count \in Nat /\ (Room(r, n, offset) >= 0 => count <= Room(r, n, offset))
      /\ (Room(r, n, offset) < 0 => count = 0)
  BY <1>3 DEF BytesRead
<1>5. offset + count <= n
  BY <1>1, <1>3, <1>4
<1>6. stored \in Nat /\ (stored # 0 => stored <= Room(r, n, offset))
  BY <1>3, <1>4 DEF Stops
<1>7. /\ after.m_total_read = r.m_total_read + count
      /\ after.m_size = r.m_size /\ after.kind = r.kind
      /\ after.m_curr_data = [i \in DOMAIN r.m_curr_data |->
                                IF i <= stored THEN from + i ELSE r.m_curr_data[i]]
      /\ after.stop_condition_reached = Stops(r, n, offset)
      /\ after.max_size_exceeded = (r.m_total_read + count >= Capacity(kind))
  BY <1>1 DEF AfterRead, Readers
<1>8. after.m_curr_data \in [1..Capacity(kind) -> Position]
  <2> SUFFICES ASSUME NEW i \in 1..Capacity(kind), i <= stored
               PROVE  from + i \in Position
    BY <1>1, <1>7
  <2>1. i \in Nat /\ i <= Room(r, n, offset) /\ i >= 1
    BY <1>1, <1>3, <1>6
  <2>2. r.m_total_read + i <= n - offset
    BY <1>1, <1>3, <2>1
  <2>3. received \in Nat /\ r.m_total_read \in Nat /\ received + n <= MaxStream
    BY <1>1, <1>2
  <2> HIDE <1>1, <1>2, <1>3, <1>4, <1>5, <1>6, <1>7
  <2> QED  BY <2>1, <2>2, <2>3, BoundsAssumption, SMTT(30) DEF Position
<1>9. ASSUME ~IsReady(after) PROVE after \in Readers(kind)
  <2>1. after.m_total_read \in 0..(Capacity(kind) - 1)
    <3>1. ~(r.m_total_read + count >= Capacity(kind))
      BY <1>7, <1>9 DEF IsReady
    <3> QED  BY <1>1, <1>4, <1>7, <3>1
  <2>2. after.stop_condition_reached = FALSE /\ after.max_size_exceeded = FALSE
    BY <1>1, <1>4, <1>7, <1>9 DEF IsReady, Stops, ShouldStop
  <2> QED  BY <1>1, <1>7, <1>8, <2>1, <2>2 DEF AfterRead, Readers
<1> QED  BY <1>4, <1>5, <1>7, <1>8, <1>9

-----------------------------------------------------------------------------
(* One step *)

\* What the steps of SequenceReader::read give: on_message kept the reader, or
\* dropped it with a verdict (sequence_reader.h:96-160).
Kept ==
  /\ reader' \in Readers("Header") \cup Readers("Data")
  /\ UNCHANGED <<m_ready, outcome, delivered>>

Finished(size) ==
  /\ reader' = NoReader /\ m_ready' = TRUE /\ outcome' = Append(outcome, "finished")
  /\ delivered' \in Seq(Position)
  /\ Len(delivered') \in size..(MaxSize - 1)

Refused ==
  /\ reader' = NoReader /\ outcome' = Append(outcome, "too_large")
  /\ UNCHANGED <<m_ready, delivered>>

\* perform_read<1>: a data reader of m_size bytes is kept or gives its verdict.
LEMMA DataStep ==
  ASSUME TypeOK, NEW r \in Readers("Data"), NEW n \in 0..MaxSegment,
         NEW offset \in Nat, received + n <= MaxStream, ReadData(r, n, offset)
  PROVE  /\ m_curr_offset' \in 0..MaxSegment
         /\ \/ Kept /\ reader' \in Readers("Data") /\ reader'.m_size = r.m_size
            \/ Finished(r.m_size)
            \/ Refused
<1> DEFINE after == AfterRead(r, n, offset)
<1>1. n \in Nat /\ n <= MaxSegment /\ "Data" \in Kinds /\ Capacity("Data") = MaxSize
  BY BoundsAssumption DEF Kinds, Capacity
<1>2. CASE offset >= n /\ m_curr_offset' = 0 /\ reader' = r
           /\ UNCHANGED <<m_ready, outcome, delivered>>
  BY <1>2, BoundsAssumption DEF Kept
<1>3. CASE offset < n /\ m_curr_offset' = offset + BytesRead(r, n, offset)
  <2>1. /\ BytesRead(r, n, offset) \in Nat
        /\ offset + BytesRead(r, n, offset) <= n
        /\ after.m_total_read = r.m_total_read + BytesRead(r, n, offset)
        /\ after.m_curr_data \in [1..MaxSize -> Position]
        /\ after.m_size = r.m_size
        /\ after.stop_condition_reached = Stops(r, n, offset)
        /\ ~IsReady(after) => after \in Readers("Data")
    BY <1>1, <1>3, ReadIsTyped
  <2>2. m_curr_offset' \in 0..MaxSegment
    BY <1>1, <1>3, <2>1, BoundsAssumption
  <2>3. CASE ~IsReady(after) /\ reader' = after /\ UNCHANGED <<m_ready, outcome, delivered>>
    BY <2>1, <2>2, <2>3 DEF Kept
  <2>4. CASE /\ reader' = Retired(after) /\ after.stop_condition_reached
             /\ m_ready' = TRUE /\ outcome' = Append(outcome, "finished")
             /\ delivered' = Consumed(after)
    <3>1. /\ r.m_total_read \in 0..(MaxSize - 1) /\ r.m_size \in Nat
          /\ r.kind = "Data"
      BY <1>1, ReaderFields
    <3>2. Stops(r, n, offset)
      BY <2>1, <2>4
    <3>3. after.m_total_read = r.m_total_read /\ r.m_total_read >= r.m_size
      BY <2>1, <3>1, <3>2 DEF BytesRead, Stops, ShouldStop
    <3>4. \A i \in 1..r.m_total_read : after.m_curr_data[i] \in Position
      BY <2>1, <3>1, SizesAssumption, SMTT(30)
    <3>5. /\ delivered' \in Seq(Position)
          /\ Len(delivered') = r.m_total_read
      BY <2>4, <3>1, <3>3, <3>4, SubSeqProperties DEF Consumed
    <3> QED  BY <2>2, <2>4, <3>1, <3>3, <3>5, SizesAssumption DEF Finished, Retired
  <2>5. CASE /\ reader' = Retired(after) /\ outcome' = Append(outcome, "too_large")
             /\ UNCHANGED <<m_ready, delivered>>
    BY <2>2, <2>5 DEF Refused, Retired
  <2>6. ~(offset >= n)
    BY <1>1, <1>3
  <2> QED  BY <2>3, <2>4, <2>5, <2>6, Zenon DEF ReadData
<1> QED  BY <1>2, <1>3 DEF ReadData

\* A header that comes in one piece is complete and decoded to what was sent.
LEMMA FreshHeader ==
  ASSUME received = 0, reader = NewReader("Header", 0), m_curr_offset = 0,
         NEW n \in Nat, n >= HeaderSize
  PROVE  /\ IsReady(AfterRead(reader, n, m_curr_offset))
         /\ PacketLen(AfterRead(reader, n, m_curr_offset)) = {len}
<1> DEFINE after == AfterRead(reader, n, 0)
<1>1. /\ reader.kind = "Header" /\ reader.m_total_read = 0
      /\ DOMAIN reader.m_curr_data = 1..HeaderSize
  BY DEF NewReader, Capacity
<1>2. Room(reader, n, 0) = HeaderSize
  BY <1>1, SizesAssumption DEF Room, Smaller, Capacity
<1>3. ~Stops(reader, n, 0)
  BY <1>1 DEF Stops, ShouldStop
<1>4. BytesRead(reader, n, 0) = HeaderSize
  BY <1>2, <1>3, SizesAssumption DEF BytesRead
<1>5. /\ after.m_curr_data = [i \in 1..HeaderSize |->
             IF i <= HeaderSize THEN received + 0 + 0 + i ELSE reader.m_curr_data[i]]
      /\ after.max_size_exceeded = (0 + HeaderSize >= HeaderSize)
  <2>1. after.m_curr_data = [i \in DOMAIN reader.m_curr_data |->
              IF i <= HeaderSize THEN received + 0 + 0 + i ELSE reader.m_curr_data[i]]
    BY <1>1, <1>3, <1>4 DEF AfterRead, NewReader
  <2>2. after.max_size_exceeded = (0 + HeaderSize >= HeaderSize)
    BY <1>1, <1>3, <1>4 DEF AfterRead, Capacity, NewReader
  <2> QED  BY <1>1, <2>1, <2>2
<1>6. after.m_curr_data = [i \in 1..HeaderSize |-> i]
  BY <1>5, SizesAssumption
<1>7. after.max_size_exceeded
  <2>1. 0 + HeaderSize >= HeaderSize
    BY SizesAssumption
  <2> QED  BY <1>5, <2>1, Zenon
<1> QED  BY <1>6, <1>7 DEF IsReady, PacketLen

\* perform_read<0>: the header reader is kept, or replaced by a data reader
\* that reads on in the same segment.
LEMMA HeaderStep ==
  ASSUME TypeOK, reader \in Readers("Header"), NEW n \in 0..MaxSegment,
         received + n <= MaxStream, ReadHeader(n)
  PROVE  /\ m_curr_offset' \in 0..MaxSegment
         /\ \/ /\ Kept /\ reader' \in Readers("Header")
               /\ \/ m_curr_offset >= n /\ m_curr_offset' = 0 /\ reader' = reader
                  \/ ~IsReady(AfterRead(reader, n, m_curr_offset))
            \/ \E size \in PacketLen(AfterRead(reader, n, m_curr_offset)) :
                 \/ Kept /\ reader' \in Readers("Data") /\ reader'.m_size = size
                 \/ Finished(size)
                 \/ Refused
<1> DEFINE after == AfterRead(reader, n, m_curr_offset)
           offset == m_curr_offset + BytesRead(reader, n, m_curr_offset)
<1>1. /\ n \in Nat /\ n <= MaxSegment /\ "Header" \in Kinds /\ "Data" \in Kinds
      /\ m_curr_offset \in Nat /\ MaxSegment \in Nat
  BY BoundsAssumption DEF Kinds, TypeOK
<1>2. CASE /\ m_curr_offset >= n /\ m_curr_offset' = 0
           /\ UNCHANGED <<reader, m_ready, outcome, delivered>>
  BY <1>1, <1>2 DEF Kept
<1>3. ASSUME m_curr_offset < n
      PROVE  /\ BytesRead(reader, n, m_curr_offset) \in Nat /\ offset <= n /\ offset \in Nat
             /\ ~IsReady(after) => after \in Readers("Header")
  BY <1>1, <1>3, ReadIsTyped
<1>4. CASE /\ m_curr_offset < n /\ ~IsReady(after) /\ reader' = after
           /\ m_curr_offset' = offset /\ UNCHANGED <<m_ready, outcome, delivered>>
  <2>1. m_curr_offset' \in 0..MaxSegment
    BY <1>1, <1>3, <1>4
  <2> QED  BY <1>3, <1>4, <2>1 DEF Kept
<1>5. CASE /\ m_curr_offset < n /\ IsReady(after)
           /\ \E size \in PacketLen(after) : ReadData(NewReader("Data", size), n, offset)
  <2>1. PICK size \in PacketLen(after) : ReadData(NewReader("Data", size), n, offset)
    BY <1>5
  <2>2. size \in Lens \cup {0}
    BY <2>1 DEF PacketLen, TypeOK
  <2>3. /\ NewReader("Data", size) \in Readers("Data")
        /\ NewReader("Data", size).m_size = size
    BY <1>1, <2>2, NewReaderIsTyped
  <2>4. /\ m_curr_offset' \in 0..MaxSegment
        /\ \/ Kept /\ reader' \in Readers("Data") /\ reader'.m_size = size
           \/ Finished(size)
           \/ Refused
    BY <1>3, <1>5, <2>1, <2>3, DataStep
  <2> QED  BY <2>1, <2>4
<1> QED  BY <1>2, <1>4, <1>5 DEF ReadHeader

-----------------------------------------------------------------------------
(* The invariant *)

\* No segment has been handed over.
LEMMA InitInv == Init => Inv
<1> SUFFICES ASSUME Init PROVE Inv
  OBVIOUS
<1> USE DEF Init
<1>1. reader \in Readers("Header") /\ reader # NoReader /\ reader.kind = "Header"
  BY NewReaderIsTyped, ReaderFields DEF Kinds
<1>2. TypeOK
  <2>1. 0 \in 0..MaxSegment /\ 0 \in Position
    BY BoundsAssumption DEF Position
  <2>2. outcome \in Seq({"finished", "too_large"}) /\ delivered \in Seq(Position)
    BY EmptySeq
  <2> QED  BY <1>1, <2>1, <2>2, Zenon DEF TypeOK
<1>3. OneVerdict
  BY <1>1 DEF OneVerdict
<1>4. HeaderInv
  BY <1>1 DEF HeaderInv, HeaderIsRight
<1>5. FinishedIsLongEnough
  BY DEF FinishedIsLongEnough
<1> QED  BY <1>2, <1>3, <1>4, <1>5 DEF Inv

\* A call of on_message either leaves everything as it was, or the reader is
\* kept, or it gives a verdict.
LEMMA ReaderStep ==
  ASSUME TypeOK, NEW n \in 0..MaxSegment, OnMessage(n)
  PROVE  /\ m_curr_offset' \in 0..MaxSegment
         /\ \/ reader = NoReader /\ UNCHANGED <<reader, m_ready, outcome, delivered>>
            \/ reader # NoReader /\ Kept
            \/ reader # NoReader /\ \E size \in Nat : Finished(size)
            \/ reader # NoReader /\ Refused
<1>1. received + n <= MaxStream
  BY DEF OnMessage
<1>2. CASE reader \in Readers("Header")
  <2>1. reader.kind = "Header" /\ reader # NoReader
    BY <1>2, ReaderFields DEF Kinds
  <2>2. ReadHeader(n)
    BY <2>1, NoReaderKind DEF OnMessage
  <2>3. \A size \in PacketLen(AfterRead(reader, n, m_curr_offset)) : size \in Nat
    BY LensAreNaturals DEF PacketLen, TypeOK
  <2> QED  BY <1>1, <1>2, <2>1, <2>2, <2>3, HeaderStep
<1>3. CASE reader \in Readers("Data")
  <2>1. reader.kind = "Data" /\ reader # NoReader /\ reader.m_size \in Nat
    BY <1>3, ReaderFields DEF Kinds
  <2>2. ReadData(reader, n, m_curr_offset)
    BY <2>1, NoReaderKind DEF OnMessage
  <2>3. m_curr_offset \in Nat
    BY BoundsAssumption DEF TypeOK
  <2> QED  BY <1>1, <1>3, <2>1, <2>2, <2>3, DataStep
<1>4. CASE reader = NoReader
  BY <1>4, NoReaderKind DEF OnMessage, TypeOK
<1> QED  BY <1>2, <1>3, <1>4 DEF TypeOK

\* on_message preserves the type invariant.
LEMMA MessageIsTyped ==
  ASSUME Inv, NEW n \in 0..MaxSegment, OnMessage(n)
  PROVE  TypeOK'
<1> TypeOK /\ OneVerdict
  BY DEF Inv
<1>1. /\ m_curr_offset' \in 0..MaxSegment
      /\ \/ reader = NoReader /\ UNCHANGED <<reader, m_ready, outcome, delivered>>
         \/ reader # NoReader /\ Kept
         \/ reader # NoReader /\ \E size \in Nat : Finished(size)
         \/ reader # NoReader /\ Refused
  BY ReaderStep
<1>2. received' \in Position /\ whole' \in BOOLEAN /\ len' \in Lens
  <2>1. received' = received + n /\ received + n <= MaxStream /\ len' = len
    BY DEF OnMessage
  <2>2. received \in 0..MaxStream /\ n \in Nat /\ whole \in BOOLEAN /\ len \in Lens
    BY BoundsAssumption DEF TypeOK, Position
  <2>3. whole' \in BOOLEAN
    BY DEF OnMessage
  <2> QED  BY <2>1, <2>2, <2>3, BoundsAssumption DEF Position
<1>3. outcome' \in Seq({"finished", "too_large"}) /\ delivered' \in Seq(Position)
  BY <1>1, AppendProperties DEF Kept, Finished, Refused, TypeOK
<1>4. reader' \in {NoReader} \cup Readers("Header") \cup Readers("Data")
  BY <1>1 DEF Kept, Finished, Refused, TypeOK
<1>5. m_ready' \in BOOLEAN
  <2>1. m_ready' \in {m_ready, TRUE}
    BY DEF OnMessage, ReadHeader, ReadData
  <2> QED  BY <2>1 DEF TypeOK
<1> QED  BY <1>1, <1>2, <1>3, <1>4, <1>5 DEF TypeOK

\* on_message gives a verdict only if there is a reader, and drops it then.
LEMMA MessageKeepsVerdict ==
  ASSUME Inv, NEW n \in 0..MaxSegment, OnMessage(n)
  PROVE  OneVerdict'
<1> TypeOK /\ OneVerdict
  BY DEF Inv
<1>1. CASE reader = NoReader /\ UNCHANGED <<reader, m_ready, outcome, delivered>>
  BY <1>1 DEF OneVerdict
<1>2. CASE reader # NoReader /\ Kept
  <2>1. reader' # NoReader
    BY <1>2, ReaderFields DEF Kept, Kinds
  <2> QED  BY <1>2, <2>1 DEF OneVerdict, Kept
<1>3. CASE reader # NoReader /\ \E size \in Nat : Finished(size)
  <2>1. outcome = <<>>
    BY <1>3 DEF OneVerdict
  <2>2. /\ reader' = NoReader /\ m_ready' = TRUE
        /\ outcome' = Append(outcome, "finished")
    BY <1>3 DEF Finished
  <2>3. outcome' = <<"finished">>
    BY <2>1, <2>2
  <2>4. m_ready'
    BY <2>2
  <2>5. Len(outcome') <= 1 /\ outcome' # <<>>
    BY <2>3
  <2> QED  BY <2>2, <2>3, <2>4, <2>5, Zenon DEF OneVerdict
<1>4. CASE reader # NoReader /\ Refused
  <2>1. outcome = <<>> /\ ~m_ready
    BY <1>4 DEF OneVerdict
  <2>2. outcome' = <<"too_large">> /\ reader' = NoReader /\ ~m_ready'
    BY <1>4, <2>1 DEF Refused
  <2> QED  BY <2>2 DEF OneVerdict
<1> QED  BY <1>1, <1>2, <1>3, <1>4, ReaderStep

\* A data reader made from the right header, and a verdict of such a reader.
LEMMA VerdictIsRight ==
  ASSUME NEW size \in Nat, received' # 0, whole' => size = len', ~m_ready,
         \/ Kept /\ reader' \in Readers("Data") /\ reader'.m_size = size
         \/ Finished(size)
         \/ Refused
  PROVE  HeaderInv' /\ FinishedIsLongEnough'
<1>1. CASE Kept /\ reader' \in Readers("Data") /\ reader'.m_size = size
  <2>1. reader'.kind = "Data" /\ ~m_ready'
    BY <1>1, ReaderFields DEF Kept, Kinds
  <2> QED  BY <1>1, <2>1 DEF HeaderInv, HeaderIsRight, FinishedIsLongEnough
<1>2. CASE Finished(size)
  <2>1. Len(delivered') \in size..(MaxSize - 1) /\ reader'.kind = "none"
    BY <1>2, NoReaderKind DEF Finished
  <2>2. size <= Len(delivered') /\ Len(delivered') < MaxSize
    BY <2>1, SizesAssumption
  <2> QED  BY <2>1, <2>2 DEF HeaderInv, HeaderIsRight, FinishedIsLongEnough
<1>3. CASE Refused
  BY <1>3, NoReaderKind DEF Refused, HeaderInv, HeaderIsRight, FinishedIsLongEnough
<1> QED  BY <1>1, <1>2, <1>3

\* The header's bytes are used when they are all there.
LEMMA MessageKeepsHeader ==
  ASSUME Inv, NEW n \in 0..MaxSegment, OnMessage(n)
  PROVE  HeaderInv' /\ FinishedIsLongEnough'
<1> TypeOK /\ OneVerdict /\ HeaderInv /\ FinishedIsLongEnough
  BY DEF Inv
<1>1. /\ n \in Nat /\ received \in Nat /\ received' = received + n /\ len' = len
      /\ len \in Nat
      /\ whole' = (whole \/ (received = 0 /\ n >= HeaderSize))
      /\ received + n <= MaxStream
  BY BoundsAssumption, LensAreNaturals DEF OnMessage, TypeOK, Position
<1>2. CASE reader = NoReader
  <2>1. UNCHANGED <<reader, m_curr_offset, m_ready, outcome, delivered>>
    BY <1>2, NoReaderKind DEF OnMessage
  <2>2. received # 0
    <3>1. NewReader("Header", 0).kind = "Header"
      BY DEF NewReader
    <3> QED  BY <1>2, <3>1, NoReaderKind DEF HeaderInv
  <2>3. whole' = whole /\ received' # 0
    BY <1>1, <2>2 DEF TypeOK
  <2> QED  BY <1>1, <2>1, <2>3 DEF HeaderInv, HeaderIsRight, FinishedIsLongEnough
<1>3. CASE reader \in Readers("Data")
  <2>1. reader.kind = "Data" /\ reader # NoReader /\ ~m_ready /\ reader.m_size \in Nat
    BY <1>3, ReaderFields DEF Kinds, OneVerdict
  <2>2. received # 0
    <3>1. NewReader("Header", 0).kind = "Header"
      BY DEF NewReader
    <3> QED  BY <2>1, <3>1 DEF HeaderInv
  <2>3. whole' = whole /\ received' # 0 /\ (whole => reader.m_size = len)
    BY <1>1, <2>1, <2>2 DEF TypeOK, HeaderInv, HeaderIsRight
  <2>4. ReadData(reader, n, m_curr_offset) /\ m_curr_offset \in Nat
    BY <2>1, NoReaderKind, BoundsAssumption DEF OnMessage, TypeOK
  <2>5. \/ Kept /\ reader' \in Readers("Data") /\ reader'.m_size = reader.m_size
        \/ Finished(reader.m_size)
        \/ Refused
    BY <1>1, <1>3, <2>4, DataStep
  <2> QED  BY <1>1, <2>1, <2>3, <2>5, VerdictIsRight
<1>4. CASE reader \in Readers("Header")
  <2>1. reader.kind = "Header" /\ reader # NoReader /\ ~m_ready /\ ~whole
    BY <1>4, ReaderFields DEF Kinds, OneVerdict, HeaderInv
  <2>2. ReadHeader(n)
    BY <2>1, NoReaderKind DEF OnMessage
  <2>3. CASE received = 0 /\ n >= HeaderSize
    <3>1. reader = NewReader("Header", 0) /\ m_curr_offset = 0
      BY <2>3 DEF HeaderInv
    <3>2. /\ IsReady(AfterRead(reader, n, m_curr_offset))
          /\ PacketLen(AfterRead(reader, n, m_curr_offset)) = {len}
      BY <1>1, <2>3, <3>1, FreshHeader
    <3>3. ~(m_curr_offset >= n) /\ received' # 0
      BY <1>1, <2>3, <3>1, SizesAssumption
    <3>4. \/ Kept /\ reader' \in Readers("Data") /\ reader'.m_size = len
          \/ Finished(len)
          \/ Refused
      BY <1>1, <1>4, <2>2, <3>2, <3>3, HeaderStep
    <3> QED  BY <1>1, <2>1, <3>3, <3>4, VerdictIsRight
  <2>4. CASE ~(received = 0 /\ n >= HeaderSize)
    <3>1. ~whole'
      BY <1>1, <2>1, <2>4
    <3>2. ASSUME received' = 0
          PROVE  reader' = NewReader("Header", 0) /\ m_curr_offset' = 0
      <4>1. received = 0 /\ n = 0
        BY <1>1, <3>2
      <4>2. reader = NewReader("Header", 0) /\ m_curr_offset = 0 /\ ~(m_curr_offset < n)
        BY <4>1 DEF HeaderInv
      <4> QED  BY <2>2, <4>2 DEF ReadHeader
    <3> QED  BY <3>1, <3>2 DEF HeaderInv, HeaderIsRight, FinishedIsLongEnough
  <2> QED  BY <2>3, <2>4
<1> QED  BY <1>2, <1>3, <1>4 DEF TypeOK

-----------------------------------------------------------------------------
(* What a verdict has cost *)

Verdicts ==
  /\ m_ready =>
       /\ Len(delivered) < MaxSize
       /\ received > HeaderSize + 2 * Len(delivered)
       /\ delivered # <<>> => Head(delivered) > HeaderSize + 2 * Len(delivered)
  /\ outcome = <<"too_large">> => received >= HeaderSize + MaxSize

\* No byte is counted twice: what the readers have counted has been received.
Counted ==
  /\ reader.kind = "Header" => reader.m_total_read <= received
  /\ reader.kind = "Data" => HeaderSize + reader.m_total_read <= received

\* A call counts bytes behind those counted before, up to the segment's end; a
\* reader that stops stores one byte from behind them all.
LEMMA ReadCounts ==
  ASSUME TypeOK,
         NEW kind \in Kinds, NEW r \in Readers(kind), NEW n \in Nat,
         NEW offset \in Nat, offset < n
  PROVE  /\ offset + BytesRead(r, n, offset) <= n
         /\ AfterRead(r, n, offset).max_size_exceeded =>
              r.m_total_read + BytesRead(r, n, offset) >= Capacity(kind)
         /\ Stops(r, n, offset) =>
              /\ offset + r.m_total_read < n
              /\ BytesRead(r, n, offset) = 0
              /\ AfterRead(r, n, offset).m_curr_data[1]
                   = received + offset + r.m_total_read + 1
<1> DEFINE count == BytesRead(r, n, offset)
<1>1. /\ r.kind = kind /\ r.m_total_read \in Nat /\ Capacity(kind) \in Nat \ {0}
      /\ DOMAIN r.m_curr_data = 1..Capacity(kind)
  BY ReaderFields, CapacityIsPositive
<1>2. /\ Room(r, n, offset) \in Int
      /\ Room(r, n, offset) + r.m_total_read <= n - offset
  BY <1>1 DEF Room, Smaller
<1>3. offset + count <= n
  BY <1>1, <1>2 DEF BytesRead
<1>4. AfterRead(r, n, offset).max_size_exceeded =>
        r.m_total_read + count >= Capacity(kind)
  BY <1>1 DEF AfterRead, Readers
<1>5. ASSUME Stops(r, n, offset)
      PROVE  /\ offset + r.m_total_read < n /\ count = 0
             /\ AfterRead(r, n, offset).m_curr_data[1]
                  = received + offset + r.m_total_read + 1
  <2>1. offset + r.m_total_read < n /\ count = 0
    BY <1>1, <1>2, <1>5 DEF Stops, BytesRead
  <2>2. 1 \in 1..Capacity(kind)
    BY <1>1
  <2>3. AfterRead(r, n, offset).m_curr_data =
          [i \in 1..Capacity(kind) |->
             IF i <= 1 THEN received + offset + r.m_total_read + i
             ELSE r.m_curr_data[i]]
    BY <1>1, <1>5 DEF AfterRead, Readers
  <2> QED  BY <2>1, <2>2, <2>3
<1> QED  BY <1>3, <1>4, <1>5

\* perform_read<1> with a reader that has counted data bytes before offset.
LEMMA DataCounts ==
  ASSUME TypeOK, outcome = <<>>, ~m_ready, NEW r \in Readers("Data"),
         NEW n \in 0..MaxSegment, NEW offset \in Nat,
         received + n <= MaxStream, received' = received + n,
         HeaderSize + r.m_total_read <= received + offset,
         HeaderSize + r.m_total_read <= received + n,
         ReadData(r, n, offset)
  PROVE  (Counted /\ Verdicts)'
<1> DEFINE after == AfterRead(r, n, offset)
           count == BytesRead(r, n, offset)
<1>0. n \in Nat /\ "Data" \in Kinds /\ Capacity("Data") = MaxSize
  BY BoundsAssumption DEF Kinds, Capacity
<1>1. /\ n \in Nat
      /\ received \in Nat /\ HeaderSize \in Nat /\ MaxSize \in Nat
      /\ r.m_total_read \in 0..(MaxSize - 1) /\ r.kind = "Data"
      /\ r.m_size \in Nat
  BY <1>0, BoundsAssumption, SizesAssumption, ReaderFields DEF TypeOK, Position
<1>2. CASE offset >= n /\ reader' = r /\ UNCHANGED <<m_ready, outcome, delivered>>
  BY <1>1, <1>2 DEF Counted, Verdicts
<1>3. CASE offset < n
  <2>1. /\ count \in Nat /\ offset + count <= n
        /\ after.m_total_read = r.m_total_read + count
        /\ after.stop_condition_reached = Stops(r, n, offset)
        /\ after.max_size_exceeded => r.m_total_read + count >= MaxSize
        /\ Stops(r, n, offset) =>
             /\ offset + r.m_total_read < n /\ count = 0
             /\ after.m_curr_data[1] = received + offset + r.m_total_read + 1
        /\ after.m_curr_data \in [1..MaxSize -> Position]
        /\ ~IsReady(after) => after \in Readers("Data")
    <3>1. /\ offset + count <= n
          /\ after.max_size_exceeded => r.m_total_read + count >= MaxSize
          /\ Stops(r, n, offset) =>
               /\ offset + r.m_total_read < n /\ count = 0
               /\ after.m_curr_data[1] = received + offset + r.m_total_read + 1
      BY <1>0, <1>3, ReadCounts, Zenon
    <3>2. /\ count \in Nat
          /\ after.m_total_read = r.m_total_read + count
          /\ after.stop_condition_reached = Stops(r, n, offset)
          /\ after.m_curr_data \in [1..MaxSize -> Position]
          /\ ~IsReady(after) => after \in Readers("Data")
      BY <1>0, <1>3, ReadIsTyped, Zenon
    <3> QED  BY <3>1, <3>2
  <2>2. HeaderSize + r.m_total_read + count <= received + n
    BY <1>1, <2>1
  <2>3. CASE ~IsReady(after) /\ reader' = after /\ UNCHANGED <<m_ready, outcome, delivered>>
    <3>1. reader'.kind = "Data" /\ reader'.m_total_read = r.m_total_read + count
      BY <1>0, <2>1, <2>3, ReaderFields
    <3> QED  BY <1>1, <2>1, <2>2, <2>3, <3>1 DEF Counted, Verdicts
  <2>4. CASE /\ reader' = Retired(after) /\ after.stop_condition_reached
             /\ m_ready' = TRUE /\ outcome' = Append(outcome, "finished")
             /\ delivered' = Consumed(after)
    <3>1. /\ offset + r.m_total_read < n /\ count = 0
          /\ after.m_total_read = r.m_total_read
          /\ after.m_curr_data[1] = received + offset + r.m_total_read + 1
      BY <1>1, <2>1, <2>4
    <3>2. \A i \in 1..r.m_total_read : after.m_curr_data[i] \in Position
      BY <1>1, <2>1, SMTT(30)
    <3>3. /\ Len(delivered') = r.m_total_read
          /\ delivered' # <<>> => Head(delivered') = after.m_curr_data[1]
      BY <1>1, <2>4, <3>1, <3>2, SubSeqProperties DEF Consumed
    <3>4. received' > HeaderSize + 2 * Len(delivered')
      BY <1>1, <3>1, <3>3
    <3>5. delivered' # <<>> => Head(delivered') > HeaderSize + 2 * Len(delivered')
      BY <1>1, <3>1, <3>3
    <3>6. reader'.kind = "none" /\ outcome' = <<"finished">>
      BY <2>4, NoReaderKind DEF Retired
    <3> QED  BY <1>1, <3>3, <3>4, <3>5, <3>6 DEF Counted, Verdicts
  <2>5. CASE /\ reader' = Retired(after) /\ IsReady(after)
             /\ ~after.stop_condition_reached
             /\ UNCHANGED <<m_ready, delivered>>
    <3>1. received' >= HeaderSize + MaxSize
      BY <1>1, <2>1, <2>2, <2>5 DEF IsReady
    <3>2. reader'.kind = "none"
      BY <2>5, NoReaderKind DEF Retired
    <3> QED  BY <2>5, <3>1, <3>2 DEF Counted, Verdicts
  <2>6. ~(offset >= n)
    BY <1>1, <1>3
  <2> QED  BY <2>3, <2>4, <2>5, <2>6, Zenon DEF ReadData
<1> QED  BY <1>1, <1>2, <1>3 DEF ReadData

\* perform_read<0>: the bytes of a complete header lie before offset.
LEMMA HeaderCounts ==
  ASSUME TypeOK, OneVerdict, Counted, reader \in Readers("Header"),
         NEW n \in 0..MaxSegment, received + n <= MaxStream,
         received' = received + n, ReadHeader(n)
  PROVE  (Counted /\ Verdicts)'
<1> DEFINE after == AfterRead(reader, n, m_curr_offset)
           count == BytesRead(reader, n, m_curr_offset)
           offset == m_curr_offset + count
<1>0. /\ "Header" \in Kinds /\ "Data" \in Kinds /\ Capacity("Header") = HeaderSize
      /\ reader.kind = "Header" /\ reader # NoReader /\ reader.m_total_read \in 0..(HeaderSize - 1)
  BY ReaderFields DEF Kinds, Capacity
<1>4. outcome = <<>> /\ ~m_ready
  <2>1. reader # NoReader
    BY <1>0
  <2> QED  BY <2>1 DEF OneVerdict
<1>1. /\ n \in Nat /\ HeaderSize \in Nat /\ MaxSize \in Nat
      /\ received \in Nat /\ m_curr_offset \in Nat
      /\ reader.m_total_read \in Nat /\ outcome = <<>> /\ ~m_ready
      /\ reader.m_total_read <= received
  BY <1>0, <1>4, BoundsAssumption, SizesAssumption DEF TypeOK, Position, Counted
<1>2. CASE m_curr_offset >= n /\ UNCHANGED <<reader, m_ready, outcome, delivered>>
  BY <1>0, <1>1, <1>2 DEF Counted, Verdicts
<1>3. CASE m_curr_offset < n
  <2>1. /\ count \in Nat /\ offset <= n
        /\ after.m_total_read = reader.m_total_read + count
        /\ after.max_size_exceeded => reader.m_total_read + count >= HeaderSize
        /\ ~after.stop_condition_reached
        /\ ~IsReady(after) => after \in Readers("Header")
    <3>1. /\ offset <= n
          /\ after.max_size_exceeded => reader.m_total_read + count >= HeaderSize
      BY <1>0, <1>1, <1>3, ReadCounts
    <3>2. /\ count \in Nat
          /\ after.m_total_read = reader.m_total_read + count
          /\ after.stop_condition_reached = Stops(reader, n, m_curr_offset)
          /\ ~IsReady(after) => after \in Readers("Header")
      BY <1>0, <1>1, <1>3, ReadIsTyped
    <3>3. ~Stops(reader, n, m_curr_offset)
      BY <1>0 DEF Stops, ShouldStop
    <3> QED  BY <3>1, <3>2, <3>3
  <2>2. CASE ~IsReady(after) /\ reader' = after /\ UNCHANGED <<m_ready, outcome, delivered>>
    <3>1. reader'.kind = "Header" /\ reader'.m_total_read <= received'
      BY <1>0, <1>1, <2>1, <2>2, ReaderFields
    <3> QED  BY <1>1, <2>2, <3>1 DEF Counted, Verdicts
  <2>3. CASE /\ IsReady(after)
             /\ \E size \in PacketLen(after) : ReadData(NewReader("Data", size), n, offset)
    <3>1. PICK size \in PacketLen(after) : ReadData(NewReader("Data", size), n, offset)
      BY <2>3
    <3>2. size \in Lens \cup {0}
      BY <3>1 DEF PacketLen, TypeOK
    <3>3. /\ NewReader("Data", size) \in Readers("Data")
          /\ NewReader("Data", size).m_total_read = 0
      BY <1>0, <3>2, NewReaderIsTyped DEF NewReader
    <3>4. /\ offset \in Nat /\ HeaderSize + 0 <= received + offset
          /\ HeaderSize + 0 <= received + n
      BY <1>1, <2>1, <2>3 DEF IsReady
    <3> QED  BY <1>1, <3>1, <3>3, <3>4, DataCounts
  <2> QED  BY <1>1, <1>3, <2>2, <2>3 DEF ReadHeader
<1> QED  BY <1>1, <1>2, <1>3 DEF ReadHeader

LEMMA MessageCounts ==
  ASSUME Inv, Counted, Verdicts, NEW n \in 0..MaxSegment, OnMessage(n)
  PROVE  (Counted /\ Verdicts)'
<1> TypeOK /\ OneVerdict
  BY DEF Inv
<1>1. /\ n \in Nat /\ received \in Nat /\ received' = received + n
      /\ received + n <= MaxStream /\ HeaderSize \in Nat /\ MaxSize \in Nat
      /\ m_curr_offset \in Nat
  BY BoundsAssumption, SizesAssumption DEF OnMessage, TypeOK, Position
<1>2. CASE reader = NoReader
  <2>1. UNCHANGED <<reader, m_ready, outcome, delivered>>
    BY <1>2, NoReaderKind DEF OnMessage
  <2>2. Counted'
    BY <1>2, <2>1, NoReaderKind DEF Counted
  <2>3. delivered \in Seq(Position)
    BY DEF TypeOK
  <2> QED  BY <1>1, <2>1, <2>2, <2>3 DEF Verdicts
<1>3. CASE reader \in Readers("Data")
  <2>1. /\ reader.kind = "Data" /\ reader # NoReader /\ reader.m_total_read \in Nat
        /\ outcome = <<>> /\ ~m_ready
    BY <1>3, ReaderFields DEF Kinds, OneVerdict
  <2>2. ReadData(reader, n, m_curr_offset)
    BY <2>1, NoReaderKind DEF OnMessage
  <2>3. /\ HeaderSize + reader.m_total_read <= received + m_curr_offset
        /\ HeaderSize + reader.m_total_read <= received + n
    BY <1>1, <2>1 DEF Counted
  <2> QED  BY <1>1, <1>3, <2>1, <2>2, <2>3, DataCounts
<1>4. CASE reader \in Readers("Header")
  <2>1. reader.kind = "Header"
    BY <1>4, ReaderFields DEF Kinds
  <2>2. ReadHeader(n)
    BY <2>1, NoReaderKind DEF OnMessage
  <2> QED  BY <1>1, <1>4, <2>2, HeaderCounts
<1> QED  BY <1>2, <1>3, <1>4 DEF TypeOK

-----------------------------------------------------------------------------
(* The theorems *)

\* Inv is inductive.
THEOREM PacketInvariance == Spec => []Inv
<1>1. Inv /\ [Next]_vars => Inv'
  <2> SUFFICES ASSUME Inv, [Next]_vars PROVE Inv'
    OBVIOUS
  <2>1. CASE Next
    BY <2>1, MessageIsTyped, MessageKeepsVerdict, MessageKeepsHeader DEF Next, Inv
  <2>2. CASE UNCHANGED vars
    BY <2>2 DEF vars, Inv, TypeOK, OneVerdict, HeaderInv, HeaderIsRight,
                FinishedIsLongEnough
  <2> QED  BY <2>1, <2>2
<1> QED  BY <1>1, InitInv, PTL DEF Spec

\* The types: m_curr_offset stays within the segments, m_total_read below the
\* capacity, and every byte in m_curr_data is one that was received.
THEOREM TypeCorrect == Spec => []TypeOK
<1>1. Inv => TypeOK
  BY DEF Inv
<1> QED  BY <1>1, PacketInvariance, PTL

\* A connection gets one verdict and is never read again after it
\* (sequence_reader.h:146, 158).
THEOREM VerdictIsFinal == Spec => []OneVerdict
<1>1. Inv => OneVerdict
  BY DEF Inv
<1> QED  BY <1>1, PacketInvariance, PTL

\* A header that arrives in one piece is decoded from its own bytes, whatever
\* empty messages precede it (value_reader.h, header_reader.cpp).
THEOREM HeaderIsDecoded == Spec => []HeaderIsRight
<1>1. Inv => HeaderIsRight
  BY DEF Inv, HeaderInv
<1> QED  BY <1>1, PacketInvariance, PTL

\* A packet is finished only when as many bytes were counted as its header
\* announced, they fit the buffer, and more than as many again have arrived; the
\* first of them is never its own.  It is refused only when a whole buffer of
\* bytes has arrived (value_reader.cpp:17-32).
THEOREM VerdictsAreBacked == Spec => []VerdictIsBacked
<1>1. Init => Counted /\ Verdicts
  <2> SUFFICES ASSUME Init PROVE Counted /\ Verdicts
    OBVIOUS
  <2>1. reader.kind = "Header" /\ reader.m_total_read = 0 /\ received = 0
    BY DEF Init, NewReader
  <2>2. ~m_ready /\ outcome # <<"too_large">>
    BY DEF Init
  <2> QED  BY <2>1, <2>2 DEF Counted, Verdicts
<1>2. Inv /\ Counted /\ Verdicts /\ [Next]_vars => (Counted /\ Verdicts)'
  BY MessageCounts DEF Next, vars, Counted, Verdicts
<1>3. Inv /\ Verdicts => VerdictIsBacked
  BY DEF Inv, FinishedIsLongEnough, Verdicts, VerdictIsBacked
<1> QED  BY <1>1, <1>2, <1>3, PacketInvariance, PTL DEF Spec
=============================================================================
