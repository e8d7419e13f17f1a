-------------------------- MODULE FrameReaderProofs --------------------------
(***************************************************************************)
(* The invariants of the receive buffer, for any header size, framing      *)
(* rule, limits and stream.  The theorems about a node's dispatcher rest   *)
(* on them.                                                                *)
(***************************************************************************)
EXTENDS FrameReader, SequenceTheorems, TLAPS

\* The active bytes of recv_buffer_ are the last ones the peer has sent.
BufferIsInput ==
    /\ active_bytes <= Len(input)
    /\ \A i \in 1 .. active_bytes :
        recv_buffer[i] = input[Len(input) - active_bytes + i]

\* A read is issued only when the rest has been moved to the front.
ReadsFromFront == state = "reading" => current_offset = 0

ReaderInv ==
    /\ ReaderTypeOK
    /\ BufferIsInput
    /\ ReadsFromFront
    /\ FramesTile
    /\ NothingHeldBack
    /\ BufferBounded
-----------------------------------------------------------------------------
(***************************************************************************)
(* What the buffer holds at the offset.                                    *)
(***************************************************************************)
Placed ==
    /\ Len(recv_buffer) \in Nat /\ active_bytes \in Nat
    /\ current_offset \in Nat /\ Len(input) \in Nat
    /\ Unparsed \in Nat /\ Parsed \in Nat
    /\ Parsed + Unparsed = Len(input)
    /\ current_offset + Unparsed = active_bytes
    /\ active_bytes <= Len(recv_buffer)
    /\ Parsed = Len(input) - active_bytes + current_offset
    /\ HeaderSize \in Nat /\ HeaderSize > 0 /\ Chunk \in Nat /\ Chunk > 0
    /\ MaxMessageSize \in Nat

LEMMA Positions == ASSUME ReaderInv PROVE Placed
  BY FrameReaderAssumption, LenProperties
     DEF ReaderInv, ReaderTypeOK, BufferIsInput, Unparsed, Parsed, Placed

\* A piece of the input is a sequence of bytes.
LEMMA PieceOfInput ==
    ASSUME input \in Seq(Byte), NEW p \in Nat, NEW n \in Nat, p + n <= Len(input)
    PROVE  /\ InputAt(p, n) \in [1 .. n -> Byte]
           /\ InputAt(p, n) \in Seq(Byte)
           /\ Len(InputAt(p, n)) = n
  <1>1. \A i \in 1 .. n : input[p + i] \in Byte
    BY LenProperties
  <1>2. InputAt(p, n) \in [1 .. n -> Byte]
    BY <1>1 DEF InputAt
  <1>. QED BY <1>2

LEMMA SpanIsInput ==
    ASSUME ReaderInv, NEW n \in Nat, n <= Unparsed
    PROVE  /\ Span(n) = InputAt(Parsed, n)
           /\ Span(n) \in [1 .. n -> Byte]
           /\ Span(n) \in Seq(Byte)
           /\ Len(Span(n)) = n
  <1>p. Placed
    BY Positions
  <1>. USE <1>p DEF Placed
  <1>1. \A i \in 1 .. n : recv_buffer[current_offset + i] = input[Parsed + i]
    <2>. TAKE i \in 1 .. n
    <2>1. current_offset + i \in 1 .. active_bytes
      OBVIOUS
    <2>2. recv_buffer[current_offset + i] = input[Len(input) - active_bytes + (current_offset + i)]
      BY <2>1 DEF ReaderInv, BufferIsInput
    <2>3. Len(input) - active_bytes + (current_offset + i) = Parsed + i
      OBVIOUS
    <2>. QED BY <2>2, <2>3
  <1>2. Span(n) = InputAt(Parsed, n)
    BY <1>1 DEF Span, InputAt
  <1>3. input \in Seq(Byte) /\ Parsed + n <= Len(input)
    BY DEF ReaderInv, ReaderTypeOK
  <1>4. /\ InputAt(Parsed, n) \in [1 .. n -> Byte]
        /\ InputAt(Parsed, n) \in Seq(Byte)
        /\ Len(InputAt(Parsed, n)) = n
    BY <1>3, PieceOfInput
  <1>. QED BY <1>2, <1>4

LEMMA HeaderIsInput ==
    ASSUME ReaderInv, HaveHeader
    PROVE  /\ total_size = TotalSize(InputAt(Parsed, HeaderSize))
           /\ total_size \in Nat
           /\ Len(input) - Parsed >= HeaderSize
  <1>p. Placed
    BY Positions
  <1>. USE <1>p DEF Placed
  <1>1. HeaderSize <= Unparsed /\ Len(input) - Parsed >= HeaderSize
    BY DEF HaveHeader
  <1>2. Span(HeaderSize) = InputAt(Parsed, HeaderSize) /\ Span(HeaderSize) \in [1 .. HeaderSize -> Byte]
    BY <1>1, SpanIsInput
  <1>. QED BY <1>1, <1>2, FrameReaderAssumption DEF total_size

LEMMA AcceptableIsWellFormed ==
    ASSUME NEW n \in Nat
    PROVE  Acceptable(n) <=> n \in WellFormed
  BY FrameReaderAssumption DEF Acceptable, WellFormed
-----------------------------------------------------------------------------
(***************************************************************************)
(* The messages found so far, and the stream that goes on behind them.     *)
(***************************************************************************)
Message == [at : Nat, bytes : Seq(Byte)]

Framed(d) ==
    /\ TotalSize(InputAt(d.at, HeaderSize)) \in WellFormed
    /\ d.at + TotalSize(InputAt(d.at, HeaderSize)) <= Len(input)
    /\ d.bytes = InputAt(d.at, TotalSize(InputAt(d.at, HeaderSize)))

StartsAt(k) == IF k = 1 THEN 0 ELSE delivered[k - 1].at + Len(delivered[k - 1].bytes)

LEMMA TileParts ==
    MessagesTile <=> \A k \in DOMAIN delivered :
                        Framed(delivered[k]) /\ delivered[k].at = StartsAt(k)
  BY DEF MessagesTile, Framed, StartsAt

\* The input is what it was, and perhaps more.
Longer ==
    /\ input \in Seq(Byte) /\ input' \in Seq(Byte)
    /\ Len(input) <= Len(input')
    /\ \A i \in 1 .. Len(input) : input'[i] = input[i]

LEMMA PieceStays ==
    ASSUME Longer, NEW p \in Nat, NEW n \in Nat, p + n <= Len(input)
    PROVE  InputAt(p, n)' = InputAt(p, n)
  <1>1. Len(input) \in Nat
    BY LenProperties DEF Longer
  <1>2. \A i \in 1 .. n : input'[p + i] = input[p + i]
    BY <1>1 DEF Longer
  <1>. QED BY <1>2 DEF InputAt

LEMMA FramedStays ==
    ASSUME Longer, NEW d \in [at : Nat, bytes : Seq(Byte)], Framed(d)
    PROVE  Framed(d)'
  <1>1. /\ d.at \in Nat /\ HeaderSize \in Nat /\ MaxMessageSize \in Nat
        /\ Len(input) \in Nat /\ Len(input') \in Nat
    BY FrameReaderAssumption, LenProperties DEF Longer
  <1>2. PICK n \in Nat : /\ n = TotalSize(InputAt(d.at, HeaderSize))
                         /\ n >= HeaderSize /\ d.at + n <= Len(input)
                         /\ n \in WellFormed /\ d.bytes = InputAt(d.at, n)
    BY <1>1 DEF Framed, WellFormed
  <1>3. d.at + HeaderSize <= Len(input) /\ d.at + n <= Len(input')
    BY <1>1, <1>2 DEF Longer
  <1>4. InputAt(d.at, HeaderSize)' = InputAt(d.at, HeaderSize)
    BY <1>1, <1>3, PieceStays
  <1>5. InputAt(d.at, n)' = InputAt(d.at, n)
    BY <1>1, <1>2, PieceStays
  <1>. QED BY <1>2, <1>3, <1>4, <1>5 DEF Framed, WellFormed

LEMMA TileStays ==
    ASSUME Longer, delivered \in Seq([at : Nat, bytes : Seq(Byte)]),
           delivered' = delivered, MessagesTile
    PROVE  MessagesTile'
  <1>1. \A k \in DOMAIN delivered : delivered[k] \in [at : Nat, bytes : Seq(Byte)]
    BY LenProperties, ZenonT(30)
  <1>2. \A k \in DOMAIN delivered : Framed(delivered[k]) /\ delivered[k].at = StartsAt(k)
    BY TileParts
  <1>3. \A k \in DOMAIN delivered : Framed(delivered[k])'
    <2>1. \A d \in [at : Nat, bytes : Seq(Byte)] : Framed(d) => Framed(d)'
      BY FramedStays
    <2>. QED BY <1>1, <1>2, <2>1
  <1>. QED BY <1>2, <1>3 DEF MessagesTile, Framed, StartsAt
-----------------------------------------------------------------------------
(***************************************************************************)
(* Every step of the reader preserves the invariant.                       *)
(***************************************************************************)
LEMMA ZeroesType ==
    ASSUME NEW n \in Nat
    PROVE  Zeroes(n) \in Seq(Byte) /\ Len(Zeroes(n)) = n
  <1>1. Zeroes(n) \in [1 .. n -> Byte]
    BY FrameReaderAssumption DEF Zeroes
  <1>. QED BY <1>1

LEMMA ReaderInvInit == ASSUME ReaderInit PROVE ReaderInv
  <1>. USE DEF ReaderInit
  <1>1. /\ recv_buffer \in Seq(Byte) /\ Len(recv_buffer) = Chunk
        /\ Chunk \in Nat /\ HeaderSize \in Nat /\ HeaderSize > 0 /\ MaxMessageSize \in Nat
    BY ZeroesType, FrameReaderAssumption
  <1>2. /\ <<>> \in Seq(Byte) /\ <<>> \in Seq([at : Nat, bytes : Seq(Byte)])
        /\ Len(<<>>) = 0
    BY EmptySeq
  <1>3. ReaderTypeOK
    BY <1>1, <1>2 DEF ReaderTypeOK
  <1>4. BufferIsInput /\ ReadsFromFront
    BY <1>2 DEF BufferIsInput, ReadsFromFront
  <1>5. FramesTile
    BY <1>2 DEF FramesTile, MessagesTile, Parsed, Unparsed
  <1>6. NothingHeldBack
    <2>1. Len(input) - Parsed = 0
      BY <1>2 DEF Parsed, Unparsed
    <2>. QED BY <1>1, <2>1 DEF NothingHeldBack
  <1>7. BufferBounded
    BY <1>1 DEF BufferBounded, LargestRest
  <1>. QED BY <1>3, <1>4, <1>5, <1>6, <1>7 DEF ReaderInv

\* Bytes arrive behind the ones that are there.
LEMMA ReadInv ==
    ASSUME ReaderInv, Read
    PROVE  ReaderInv'
  <1>p. Placed
    BY Positions
  <1>. USE <1>p DEF Placed
  <1>0. /\ recv_buffer \in Seq(Byte) /\ input \in Seq(Byte)
        /\ delivered \in Seq([at : Nat, bytes : Seq(Byte)])
        /\ state = "reading" /\ current_offset = 0 /\ Unparsed = active_bytes
    BY DEF ReaderInv, ReaderTypeOK, ReadsFromFront, Read, Unparsed
  <1>a. PICK n \in 1 .. Len(recv_buffer) - active_bytes :
            /\ \E bytes \in [1 .. n -> Byte] :
                /\ recv_buffer' = Filled(recv_buffer, active_bytes, bytes)
                /\ input' = input \o bytes
            /\ active_bytes' = active_bytes + n
    BY DEF Read
  <1>1. PICK bytes \in [1 .. n -> Byte] :
            /\ recv_buffer' = Filled(recv_buffer, active_bytes, bytes)
            /\ input' = input \o bytes
            /\ active_bytes' = active_bytes + n
    BY <1>a
  <1>2. current_offset' = 0 /\ state' = "processing" /\ delivered' = delivered
    BY DEF Read
  <1>3. bytes \in Seq(Byte) /\ Len(bytes) = n /\ n \in Nat
    BY <1>a, <1>1
  <1>4. /\ input' \in Seq(Byte) /\ Len(input') = Len(input) + n
        /\ \A i \in 1 .. Len(input) : input'[i] = input[i]
        /\ \A i \in 1 .. n : input'[Len(input) + i] = bytes[i]
    BY <1>0, <1>1, <1>3, ConcatProperties
  <1>5. /\ recv_buffer' \in [1 .. Len(recv_buffer) -> Byte]
        /\ \A i \in 1 .. active_bytes : recv_buffer'[i] = recv_buffer[i]
        /\ \A i \in 1 .. n : recv_buffer'[active_bytes + i] = bytes[i]
    <2>1. \A i \in 1 .. Len(recv_buffer) : recv_buffer[i] \in Byte
      BY <1>0, ElementOfSeq
    <2>2. \A i \in 1 .. n : bytes[i] \in Byte
      BY <1>1
    <2>. QED BY <1>1, <1>3, <2>1, <2>2 DEF Filled
  <1>6. recv_buffer' \in Seq(Byte) /\ Len(recv_buffer') = Len(recv_buffer)
    BY <1>5
  <1>7. ReaderTypeOK'
    BY <1>0, <1>1, <1>2, <1>3, <1>4, <1>6 DEF ReaderTypeOK
  <1>8. BufferIsInput'
    <2>1. active_bytes' <= Len(input')
      BY <1>1, <1>3, <1>4 DEF ReaderInv, BufferIsInput
    <2>2. ASSUME NEW i \in 1 .. active_bytes + n
          PROVE  recv_buffer'[i] = input'[Len(input) - active_bytes + i]
      <3>1. CASE i \in 1 .. active_bytes
        <4>1. recv_buffer[i] = input[Len(input) - active_bytes + i]
          BY <3>1 DEF ReaderInv, BufferIsInput
        <4>2. Len(input) - active_bytes + i \in 1 .. Len(input)
          BY <3>1 DEF ReaderInv, BufferIsInput
        <4>. QED BY <3>1, <4>1, <4>2, <1>4, <1>5
      <3>2. CASE i \notin 1 .. active_bytes
        <4>1. PICK j \in 1 .. n : i = active_bytes + j
          <5>1. i - active_bytes \in 1 .. n /\ i = active_bytes + (i - active_bytes)
            BY <3>2, <1>3
          <5>. QED BY <5>1
        <4>2. Len(input) - active_bytes + i = Len(input) + j
          BY <4>1, <1>3
        <4>. QED BY <4>1, <4>2, <1>4, <1>5
      <3>. QED BY <3>1, <3>2
    <2>3. Len(input') - active_bytes' = Len(input) - active_bytes
      BY <1>1, <1>3, <1>4
    <2>. QED BY <1>1, <2>1, <2>2, <2>3 DEF BufferIsInput
  <1>9. Parsed' = Parsed
    BY <1>0, <1>1, <1>2, <1>3, <1>4 DEF Parsed, Unparsed
  <1>10. FramesTile'
    <2>1. Longer
      BY <1>0, <1>3, <1>4 DEF Longer
    <2>2. MessagesTile'
      BY <1>0, <1>2, <2>1, TileStays DEF ReaderInv, FramesTile
    <2>. QED BY <1>2, <1>9, <2>2 DEF ReaderInv, FramesTile
  <1>11. ReadsFromFront' /\ NothingHeldBack' /\ BufferBounded'
    BY <1>2, <1>6 DEF ReaderInv, ReadsFromFront, NothingHeldBack, BufferBounded
  <1>. QED BY <1>7, <1>8, <1>10, <1>11 DEF ReaderInv

\* The read fails, or the stream holds an unacceptable header.
LEMMA GivesUpInv ==
    ASSUME ReaderInv, ReadFails \/ Reject
    PROVE  ReaderInv'
  <1>1. /\ UNCHANGED <<recv_buffer, active_bytes, current_offset, input, delivered>>
        /\ state' \in {"closed", "rejected"}
    BY DEF ReadFails, Reject
  <1>2. /\ ReaderTypeOK' /\ BufferIsInput' /\ ReadsFromFront'
        /\ FramesTile' /\ BufferBounded'
    <2>1. ReaderTypeOK'
      BY <1>1 DEF ReaderInv, ReaderTypeOK
    <2>2. BufferIsInput' /\ ReadsFromFront' /\ BufferBounded'
      BY <1>1 DEF ReaderInv, BufferIsInput, ReadsFromFront, BufferBounded
    <2>3. Longer /\ Parsed' = Parsed
      BY <1>1 DEF ReaderInv, ReaderTypeOK, Longer, Parsed, Unparsed
    <2>4. MessagesTile'
      BY <1>1, <2>3, TileStays DEF ReaderInv, ReaderTypeOK, FramesTile
    <2>5. FramesTile'
      BY <1>1, <2>3, <2>4 DEF ReaderInv, FramesTile
    <2>. QED BY <2>1, <2>2, <2>5
  <1>3. NothingHeldBack'
    <2>1. CASE ReadFails
      BY <2>1 DEF ReadFails, NothingHeldBack
    <2>2. CASE Reject
      <3>1. HaveHeader /\ ~Acceptable(total_size)
        BY <2>2 DEF Reject
      <3>2. /\ TotalSize(InputAt(Parsed, HeaderSize)) \notin WellFormed
            /\ Len(input) - Parsed >= HeaderSize
        BY <3>1, HeaderIsInput, AcceptableIsWellFormed
      <3>3. state' = "rejected" /\ InputAt(Parsed, HeaderSize)' = InputAt(Parsed, HeaderSize)
            /\ Parsed' = Parsed
        BY <1>1, <2>2 DEF Reject, InputAt, Parsed, Unparsed
      <3>. QED BY <1>1, <3>2, <3>3 DEF NothingHeldBack, WellFormed
    <2>. QED BY <2>1, <2>2
  <1>. QED BY <1>2, <1>3 DEF ReaderInv

\* The messages with one more behind them, which starts where the last one ends.
LEMMA TileGrows ==
    ASSUME delivered \in Seq(Message), NEW d \in Message,
           delivered' = Append(delivered, d), UNCHANGED input,
           MessagesTile, Framed(d),
           d.at = StartsAt(Len(delivered) + 1)
    PROVE  MessagesTile'
  <1>. PICK m : m = Len(delivered)
    OBVIOUS
  <1>1. /\ m \in Nat
        /\ DOMAIN delivered = 1 .. m
        /\ DOMAIN delivered' = 1 .. m + 1
        /\ \A k \in 1 .. m : delivered'[k] = delivered[k]
        /\ delivered'[m + 1] = d
    BY AppendProperties, LenProperties
  <1>2. \A k \in 1 .. m + 1 : k = m + 1 \/ k \in 1 .. m
    BY <1>1
  <1>3. \A k \in 1 .. m + 1 : k # 1 => delivered'[k - 1] = delivered[k - 1]
    BY <1>1
  <1>4. \A k \in 1 .. m + 1 : StartsAt(k)' = StartsAt(k)
    BY <1>3 DEF StartsAt
  <1>5. \A k \in 1 .. m : Framed(delivered[k]) /\ delivered[k].at = StartsAt(k)
    BY <1>1, TileParts
  <1>6. \A k \in 1 .. m + 1 : Framed(delivered'[k]) /\ delivered'[k].at = StartsAt(k)'
    BY <1>1, <1>2, <1>4, <1>5
  <1>7. \A e : Framed(e) => Framed(e)'
    BY DEF Framed, InputAt, WellFormed
  <1>8. \A k \in DOMAIN delivered' : Framed(delivered[k])' /\ delivered'[k].at = StartsAt(k)'
    BY <1>1, <1>6, <1>7
  <1>. QED BY <1>8 DEF MessagesTile, Framed, StartsAt

\* A message is delivered: it is the next piece of the stream.
LEMMA DeliverFacts ==
    ASSUME ReaderInv, Deliver
    PROVE  \E d \in Message :
            /\ delivered' = Append(delivered, d)
            /\ Framed(d)
            /\ d.at = Parsed /\ d.bytes = InputAt(Parsed, total_size)
            /\ Len(d.bytes) = total_size
            /\ total_size \in Nat /\ HeaderSize <= total_size /\ total_size <= Unparsed
  <1>p. Placed
    BY Positions
  <1>0. HaveHeader /\ Acceptable(total_size) /\ Complete(total_size)
    BY DEF Deliver
  <1>. PICK p, n : p = Parsed /\ n = total_size
    OBVIOUS
  <1>1. /\ n = TotalSize(InputAt(p, HeaderSize)) /\ n \in Nat /\ p \in Nat
        /\ n \in WellFormed /\ n <= Unparsed /\ p + n <= Len(input) /\ HeaderSize <= n
    BY <1>p, <1>0, HeaderIsInput, AcceptableIsWellFormed DEF Complete, Placed, Acceptable
  <1>2. /\ Span(n) = InputAt(p, n) /\ InputAt(p, n) \in Seq(Byte)
        /\ Len(InputAt(p, n)) = n
    BY <1>1, SpanIsInput
  <1>3. PICK d : d = [at |-> p, bytes |-> InputAt(p, n)]
    OBVIOUS
  <1>4. d \in Message /\ d.at = p /\ d.bytes = InputAt(p, n) /\ Len(d.bytes) = n
    BY <1>1, <1>2, <1>3 DEF Message
  <1>5. delivered' = Append(delivered, d)
    BY <1>2, <1>3 DEF Deliver, Parsed
  <1>6. Framed(d)
    BY <1>1, <1>4 DEF Framed
  <1>. QED BY <1>1, <1>4, <1>5, <1>6

LEMMA DeliverInv ==
    ASSUME ReaderInv, Deliver
    PROVE  ReaderInv'
  <1>p. Placed
    BY Positions
  <1>0. /\ input \in Seq(Byte) /\ recv_buffer \in Seq(Byte)
        /\ delivered \in Seq(Message)
    BY DEF ReaderInv, ReaderTypeOK, Deliver, Message
  <1>. PICK p, n : p = Parsed /\ n = total_size
    OBVIOUS
  <1>1. PICK d \in Message :
            /\ delivered' = Append(delivered, d)
            /\ Framed(d)
            /\ d.at = p /\ Len(d.bytes) = n
            /\ n \in Nat /\ n <= Unparsed
    BY DeliverFacts
  <1>2. /\ current_offset' = current_offset + n
        /\ state' \in {"processing", "closing"}
        /\ UNCHANGED <<recv_buffer, active_bytes, input>>
    BY DEF Deliver, Processing
  <1>3. /\ delivered' \in Seq(Message) /\ delivered' # <<>>
        /\ Len(delivered) \in Nat /\ Len(delivered') = Len(delivered) + 1
        /\ delivered'[Len(delivered')] = d
    BY <1>0, <1>1, AppendProperties, LenProperties
  <1>4. Parsed' = p + n
    BY <1>p, <1>1, <1>2 DEF Parsed, Unparsed, Placed
  <1>5. ReaderTypeOK'
    <2>1. current_offset + n \in 0 .. active_bytes
      BY <1>p, <1>1 DEF Placed
    <2>. QED BY <1>2, <1>3, <2>1 DEF ReaderInv, ReaderTypeOK, Message
  <1>6. BufferIsInput' /\ ReadsFromFront' /\ NothingHeldBack' /\ BufferBounded'
    <2>1. BufferIsInput' /\ BufferBounded'
      BY <1>2 DEF ReaderInv, BufferIsInput, BufferBounded
    <2>2. ReadsFromFront' /\ NothingHeldBack'
      BY <1>2 DEF ReadsFromFront, NothingHeldBack
    <2>. QED BY <2>1, <2>2
  <1>7. d.at = StartsAt(Len(delivered) + 1)
    <2>1. p = IF delivered = <<>> THEN 0
              ELSE delivered[Len(delivered)].at + Len(delivered[Len(delivered)].bytes)
      BY DEF ReaderInv, FramesTile
    <2>2. delivered = <<>> <=> Len(delivered) = 0
      BY <1>0, EmptySeq
    <2>. QED BY <1>1, <1>3, <2>1, <2>2 DEF StartsAt
  <1>8. MessagesTile'
    BY <1>0, <1>1, <1>2, <1>7, TileGrows DEF ReaderInv, FramesTile
  <1>9. FramesTile'
    BY <1>1, <1>3, <1>4, <1>8 DEF FramesTile
  <1>. QED BY <1>5, <1>6, <1>9 DEF ReaderInv

LEMMA FrontOfConcat ==
    ASSUME NEW s \in Seq(Byte), NEW z \in Seq(Byte)
    PROVE  /\ s \o z \in Seq(Byte) /\ Len(s \o z) = Len(s) + Len(z)
           /\ \A i \in 1 .. Len(s) : (s \o z)[i] = s[i]
  <1>1. Len(s) \in Nat /\ Len(z) \in Nat
    BY LenProperties
  <1>. QED BY <1>1, ConcatProperties

\* Moving the rest to the front, and making room, keeps it.
LEMMA MovedToFront ==
    ASSUME ReaderInv
    PROVE  LET r == Enlarged(Compacted(Unparsed), Unparsed)
           IN  /\ r \in Seq(Byte)
               /\ Len(r) = Len(recv_buffer) \/ Len(r) = Unparsed + Chunk
               /\ Unparsed <= Len(r)
               /\ \A i \in 1 .. Unparsed : r[i] = recv_buffer[current_offset + i]
  <1>p. Placed
    BY Positions
  <1>. USE <1>p DEF Placed
  <1>. DEFINE c == Compacted(Unparsed)
              r == Enlarged(c, Unparsed)
  <1>0. \A i \in 1 .. Len(recv_buffer) : recv_buffer[i] \in Byte
    BY ElementOfSeq DEF ReaderInv, ReaderTypeOK
  <1>1. /\ c \in [1 .. Len(recv_buffer) -> Byte]
        /\ \A i \in 1 .. Unparsed : c[i] = recv_buffer[current_offset + i]
    BY SMTT(30), <1>0 DEF Compacted
  <1>2. c \in Seq(Byte) /\ Len(c) = Len(recv_buffer)
    BY <1>1
  <1>. HIDE DEF c
  <1>3. CASE Len(c) < Unparsed + Chunk
    <2>. DEFINE z == Zeroes(Unparsed + Chunk - Len(c))
    <2>1. Unparsed + Chunk - Len(c) \in Nat
      BY <1>2, <1>3
    <2>2. z \in Seq(Byte) /\ Len(z) = Unparsed + Chunk - Len(c)
      BY <2>1, ZeroesType
    <2>3. r = c \o z
      BY <1>3 DEF Enlarged
    <2>. HIDE DEF z, r
    <2>4. /\ c \o z \in Seq(Byte) /\ Len(c \o z) = Len(c) + Len(z)
          /\ \A i \in 1 .. Len(c) : (c \o z)[i] = c[i]
      BY <1>2, <2>2, FrontOfConcat
    <2>5. Len(r) = Unparsed + Chunk /\ Unparsed <= Len(r) /\ r \in Seq(Byte)
      BY <1>2, <2>1, <2>2, <2>3, <2>4
    <2>6. \A i \in 1 .. Unparsed : r[i] = c[i]
      BY <1>2, <2>3, <2>4, SMTT(30)
    <2>. QED BY <1>1, <2>5, <2>6 DEF r, c
  <1>4. CASE ~(Len(c) < Unparsed + Chunk)
    <2>1. r = c
      BY <1>4 DEF Enlarged
    <2>2. Unparsed <= Len(c)
      BY <1>2
    <2>. QED BY <1>1, <1>2, <2>1, <2>2 DEF c
  <1>. QED BY <1>3, <1>4

LEMMA StopInv ==
    ASSUME ReaderInv, Stop
    PROVE  ReaderInv'
  <1>p. Placed
    BY Positions
  <1>. PICK u, p : u = Unparsed /\ p = Parsed
    OBVIOUS
  <1>1. /\ recv_buffer' = Enlarged(Compacted(Unparsed), Unparsed)
        /\ active_bytes' = u
        /\ current_offset' = 0
        /\ state' \in {"reading", "closed"}
        /\ UNCHANGED <<input, delivered>>
        /\ LoopEnds
    BY DEF Stop
  <1>2. /\ recv_buffer' \in Seq(Byte)
        /\ Len(recv_buffer') = Len(recv_buffer) \/ Len(recv_buffer') = u + Chunk
        /\ u <= Len(recv_buffer')
        /\ \A i \in 1 .. u : recv_buffer'[i] = recv_buffer[current_offset + i]
    BY <1>1, MovedToFront
  <1>3. u \in Nat /\ Len(recv_buffer') \in Nat
    BY <1>p, <1>2, LenProperties DEF Placed
  <1>4. u < LargestRest
    <2>1. CASE HaveHeader
      <3>1. total_size \in Nat /\ total_size <= MaxMessageSize /\ u < total_size
        BY <1>1, <1>3, <2>1, HeaderIsInput DEF LoopEnds, Acceptable, Complete
      <3>. QED BY <1>p, <1>3, <3>1 DEF LargestRest, Placed
    <2>2. CASE ~HaveHeader
      BY <1>p, <1>3, <2>2 DEF HaveHeader, LargestRest, Placed
    <2>. QED BY <2>1, <2>2
  <1>5. Parsed' = p
    BY <1>p, <1>1, <1>3 DEF Parsed, Unparsed, Placed
  <1>6. ReaderTypeOK'
    <2>1. u \in 0 .. Len(recv_buffer') /\ 0 \in 0 .. u
      BY <1>2, <1>3
    <2>. QED BY <1>1, <1>2, <2>1 DEF ReaderInv, ReaderTypeOK
  <1>7. BufferIsInput'
    <2>1. u <= Len(input)
      BY <1>p DEF Placed
    <2>2. \A i \in 1 .. u : recv_buffer'[i] = input[Len(input) - u + i]
      <3>. TAKE i \in 1 .. u
      <3>1. /\ current_offset + i \in 1 .. active_bytes
            /\ Len(input) - active_bytes + (current_offset + i) = Len(input) - u + i
        BY <1>p, <1>3 DEF Placed
      <3>2. recv_buffer[current_offset + i]
              = input[Len(input) - active_bytes + (current_offset + i)]
        BY <3>1 DEF ReaderInv, BufferIsInput
      <3>. QED BY <1>2, <3>1, <3>2
    <2>. QED BY <1>1, <2>1, <2>2 DEF BufferIsInput
  <1>8. ReadsFromFront'
    BY <1>1 DEF ReadsFromFront
  <1>9. FramesTile'
    <2>1. Longer
      BY <1>p, <1>1 DEF Longer, ReaderInv, ReaderTypeOK, Placed
    <2>2. MessagesTile'
      BY <1>1, <2>1, TileStays DEF ReaderInv, ReaderTypeOK, FramesTile
    <2>. QED BY <1>1, <1>5, <2>2 DEF ReaderInv, FramesTile
  <1>10. NothingHeldBack'
    <2>. SUFFICES ASSUME Len(input) - p >= HeaderSize
                  PROVE  LET n == TotalSize(InputAt(p, HeaderSize))
                         IN  n \in WellFormed /\ p + n > Len(input)
      BY <1>1, <1>5 DEF NothingHeldBack, InputAt, WellFormed
    <2>1. HaveHeader
      BY <1>p DEF HaveHeader, Placed
    <2>2. /\ total_size = TotalSize(InputAt(p, HeaderSize)) /\ total_size \in Nat
          /\ Acceptable(total_size) /\ ~(u >= total_size)
      BY <1>1, <2>1, HeaderIsInput DEF LoopEnds, Complete
    <2>3. p + total_size > Len(input)
      BY <1>p, <2>2 DEF Placed
    <2>. QED BY <2>2, <2>3, AcceptableIsWellFormed
  <1>11. BufferBounded'
    <2>1. Chunk \in Nat /\ LargestRest \in Nat
      BY <1>p DEF Placed, LargestRest
    <2>. QED BY <1>2, <1>3, <1>4, <2>1 DEF ReaderInv, BufferBounded, LargestRest
  <1>. QED BY <1>6, <1>7, <1>8, <1>9, <1>10, <1>11 DEF ReaderInv

LEMMA ReaderStepInv ==
    ASSUME ReaderInv, ReaderStep \/ Deliver \/ UNCHANGED readerVars
    PROVE  ReaderInv'
  <1>1. CASE ReaderStep
    BY <1>1, ReadInv, GivesUpInv, StopInv DEF ReaderStep
  <1>2. CASE Deliver
    BY <1>2, DeliverInv
  <1>3. CASE UNCHANGED readerVars
    <2>1. UNCHANGED <<recv_buffer, active_bytes, current_offset, state, input, delivered>>
      BY <1>3 DEF readerVars
    <2>2. /\ ReaderTypeOK' /\ BufferIsInput' /\ ReadsFromFront' /\ BufferBounded'
          /\ Parsed' = Parsed /\ Longer
      BY <2>1 DEF ReaderInv, ReaderTypeOK, BufferIsInput, ReadsFromFront, BufferBounded,
                  Parsed, Unparsed, Longer
    <2>3. MessagesTile'
      BY <2>1, <2>2, TileStays DEF ReaderInv, ReaderTypeOK, FramesTile
    <2>4. FramesTile' /\ NothingHeldBack'
      BY <2>1, <2>2, <2>3 DEF ReaderInv, FramesTile, NothingHeldBack, InputAt, WellFormed
    <2>. QED BY <2>2, <2>4 DEF ReaderInv
  <1>. QED BY <1>1, <1>2, <1>3
=============================================================================
