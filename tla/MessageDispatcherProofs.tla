----------------------- MODULE MessageDispatcherProofs -----------------------
(***************************************************************************)
(* The safety properties of a receiving node, for any framing rule, any    *)
(* set of registered structs and any stream or datagram.                   *)
(***************************************************************************)
EXTENDS MessageDispatcher, FrameReaderProofs, FiniteSetTheorems

\* A call of a handler.
Handling == [type : Types, at : Nat, msg : Seq(Byte)]

\* A UDP node reads no stream, and a TCP node receives no datagram.
OneProtocol ==
    /\ udp => state = "reading" /\ input = <<>> /\ delivered = <<>>
    /\ ~udp => datagram = <<>>

DispatchTypeOK ==
    /\ udp \in BOOLEAN
    /\ datagram \in Seq(Byte)
    /\ handlers \in [Types -> Nat]
    /\ handled \in Seq(Handling)

DispatchInv == ReaderInv /\ DispatchTypeOK /\ OneProtocol /\ HandledExactly
-----------------------------------------------------------------------------
(***************************************************************************)
(* Ranks: the messages meant for a handler are numbered without gaps.      *)
(***************************************************************************)
LEMMA RankType ==
    ASSUME NEW m \in Nat, NEW S \in SUBSET (1 .. m)
    PROVE  /\ IsFiniteSet(S) /\ Cardinality(S) \in Nat
           /\ \A k \in S : Cardinality({i \in S : i <= k}) \in 1 .. Cardinality(S)
  <1>1. IsFiniteSet(S) /\ Cardinality(S) \in Nat
    <2>1. IsFiniteSet(1 .. m)
      BY FS_Interval
    <2>2. IsFiniteSet(S)
      BY <2>1, FS_Subset
    <2>. QED BY <2>2, FS_CardinalityType
  <1>2. ASSUME NEW k \in S
        PROVE  Cardinality({i \in S : i <= k}) \in 1 .. Cardinality(S)
    <2>. DEFINE T == {i \in S : i <= k}
    <2>1. k \in T /\ T \subseteq S
      OBVIOUS
    <2>. HIDE DEF T
    <2>2. IsFiniteSet(T) /\ Cardinality(T) <= Cardinality(S)
      BY <1>1, <2>1, FS_Subset
    <2>3. Cardinality(T) \in Nat /\ Cardinality(T) # 0
      BY <2>1, <2>2, FS_CardinalityType, FS_EmptySet
    <2>. QED BY <1>1, <2>2, <2>3 DEF T
  <1>. QED BY <1>1, <1>2

LEMMA RankOfNext ==
    ASSUME NEW m \in Nat, NEW S \in SUBSET (1 .. m)
    PROVE  LET T == S \cup {m + 1}
           IN  /\ Cardinality(T) = Cardinality(S) + 1
               /\ {i \in T : i <= m + 1} = T
               /\ \A k \in S : {i \in T : i <= k} = {i \in S : i <= k}
  <1>1. m + 1 \notin S /\ IsFiniteSet(S)
    BY RankType
  <1>2. Cardinality(S \cup {m + 1}) = Cardinality(S) + 1
    BY <1>1, FS_AddElement
  <1>3. \A i \in S : i \in Nat /\ i <= m
    OBVIOUS
  <1>4. {i \in S \cup {m + 1} : i <= m + 1} = S \cup {m + 1}
    <2>1. \A i \in S \cup {m + 1} : i <= m + 1
      BY <1>3
    <2>. QED BY <2>1, Zenon
  <1>5. \A k \in S : {i \in S \cup {m + 1} : i <= k} = {i \in S : i <= k}
    <2>. TAKE k \in S
    <2>1. ~(m + 1 <= k)
      BY <1>3
    <2>. QED BY <2>1
  <1>. QED BY <1>2, <1>4, <1>5
-----------------------------------------------------------------------------
(***************************************************************************)
(* The bytes of the message that is being dispatched.                      *)
(***************************************************************************)
LEMMA PieceOfSequence ==
    ASSUME NEW s \in Seq(Byte), NEW p \in Nat, NEW n \in Nat, p + n <= Len(s)
    PROVE  /\ SubSeq(s, p + 1, p + n) = [i \in 1 .. n |-> s[p + i]]
           /\ SubSeq(s, p + 1, p + n) \in Seq(Byte)
  <1>1. Len(s) \in Nat /\ \A i \in 1 .. Len(s) : s[i] \in Byte
    BY LenProperties
  <1>2. \A i \in p + 1 .. p + n : s[i] \in Byte
    BY <1>1
  <1>3. /\ SubSeq(s, p + 1, p + n) \in Seq(Byte)
        /\ Len(SubSeq(s, p + 1, p + n)) = n
        /\ \A i \in 1 .. n : SubSeq(s, p + 1, p + n)[i] = s[p + i]
    BY <1>2, SubSeqProperties
  <1>4. \A i \in 1 .. n : s[p + i] \in Byte
    BY <1>1
  <1>5. [i \in 1 .. n |-> s[p + i]] \in [1 .. n -> Byte]
    BY <1>4
  <1>6. /\ [i \in 1 .. n |-> s[p + i]] \in Seq(Byte)
        /\ Len([i \in 1 .. n |-> s[p + i]]) = n
    BY <1>5
  <1>. QED BY <1>3, <1>6, SeqEqual

LEMMA SentIsInput ==
    ASSUME ~udp, input \in Seq(Byte), NEW p \in Nat, NEW n \in Nat, p + n <= Len(input)
    PROVE  SentAt(p, n) = InputAt(p, n)
  BY PieceOfSequence DEF SentAt, InputAt

\* The header that a whole message begins with.
LEMMA HeaderOfPiece ==
    ASSUME NEW p \in Nat, NEW n \in Nat, HeaderSize <= n
    PROVE  Header(InputAt(p, n)) = InputAt(p, HeaderSize)
  BY FrameReaderAssumption DEF Header, InputAt

\* A message in the stream: what is expected of its handler depends on the
\* bytes of the message alone.
LEMMA ExpectedOfFramed ==
    ASSUME ~udp, input \in Seq(Byte), handlers \in [Types -> Nat],
           NEW d \in Message, Framed(d)
    PROVE  LET t == Extract(InputAt(d.at, HeaderSize))[1]
           IN  /\ Len(d.bytes) \in Nat /\ d.at \in Nat
               /\ d.at + Len(d.bytes) <= Len(input)
               /\ Meant(d) <=> t \in Types /\ handlers[t] \in 1 .. Len(d.bytes)
               /\ Meant(d) => Expected(d) = [type |-> t, at |-> d.at,
                                             msg |-> InputAt(d.at, handlers[t])]
  <1>. DEFINE n == TotalSize(InputAt(d.at, HeaderSize))
              t == Extract(InputAt(d.at, HeaderSize))[1]
  <1>1. /\ d.at \in Nat /\ HeaderSize \in Nat /\ MaxMessageSize \in Nat
        /\ Len(input) \in Nat
    BY FrameReaderAssumption, LenProperties DEF Message
  <1>2. n \in Nat /\ n >= HeaderSize /\ d.at + n <= Len(input) /\ d.bytes = InputAt(d.at, n)
    BY <1>1 DEF Framed, WellFormed
  <1>. HIDE DEF n
  <1>3. Len(d.bytes) = n
    BY <1>1, <1>2, PieceOfInput
  <1>4. Header(d.bytes) = InputAt(d.at, HeaderSize)
    BY <1>1, <1>2, HeaderOfPiece
  <1>5. Meant(d) <=> t \in Types /\ handlers[t] \in 1 .. n
    BY <1>1, <1>2, <1>3, <1>4 DEF Meant
  <1>6. SentAt(d.at, HeaderSize) = InputAt(d.at, HeaderSize)
    BY <1>1, <1>2, SentIsInput
  <1>7. ASSUME Meant(d) PROVE SentAt(d.at, handlers[t]) = InputAt(d.at, handlers[t])
    <2>1. handlers[t] \in Nat /\ d.at + handlers[t] <= Len(input)
      BY <1>1, <1>2, <1>5, <1>7
    <2>. QED BY <1>1, <2>1, SentIsInput
  <1>8. Meant(d) => Expected(d) = [type |-> t, at |-> d.at, msg |-> InputAt(d.at, handlers[t])]
    BY <1>6, <1>7 DEF Expected
  <1>. QED BY <1>1, <1>2, <1>3, <1>5, <1>8
-----------------------------------------------------------------------------
(***************************************************************************)
(* What the handlers have been called with, when messages come in.         *)
(***************************************************************************)

\* The messages that have been dispatched are expected to be handled as before.
SameExpected ==
    /\ \A m \in Message : Meant(m)' <=> Meant(m)
    /\ \A k \in MeantOnes : \A m \in Message :
        m = Messages[k] => Expected(m)' = Expected(m)

LEMMA HandledStays ==
    ASSUME HandledExactly, Messages \in Seq(Message),
           Messages' = Messages, handled' = handled, SameExpected
    PROVE  HandledExactly'
  <1>1. \A k \in DOMAIN Messages : Messages[k] \in Message
    BY LenProperties
  <1>2. MeantOnes' = MeantOnes
    BY <1>1 DEF MeantOnes, SameExpected
  <1>3. \A k \in MeantOnes : Expected(Messages[k])' = Expected(Messages[k])
    BY <1>1 DEF SameExpected, MeantOnes
  <1>. QED BY <1>2, <1>3 DEF HandledExactly, Rank

LEMMA HandledGrows ==
    ASSUME HandledExactly, handled \in Seq(Handling),
           Messages \in Seq(Message), NEW d \in Message,
           Messages' = Append(Messages, d), SameExpected,
           NEW e, Meant(d) => e \in Handling /\ e = Expected(d)',
           handled' = IF Meant(d) THEN Append(handled, e) ELSE handled
    PROVE  HandledExactly'
  <1>. PICK m, S : m = Len(Messages) /\ S = MeantOnes
    OBVIOUS
  <1>1. /\ m \in Nat
        /\ DOMAIN Messages = 1 .. m
        /\ DOMAIN Messages' = 1 .. m + 1
        /\ \A k \in 1 .. m : Messages'[k] = Messages[k] /\ Messages[k] \in Message
        /\ Messages'[m + 1] = d
    BY AppendProperties, LenProperties
  <1>2. S \in SUBSET (1 .. m)
    BY <1>1 DEF MeantOnes
  <1>3. MeantOnes' = IF Meant(d) THEN S \cup {m + 1} ELSE S
    <2>1. \A k \in 1 .. m + 1 : k \in 1 .. m \/ k = m + 1
      BY <1>1
    <2>2. \A k \in 1 .. m : Meant(Messages[k])' <=> k \in S
      BY <1>1 DEF MeantOnes, SameExpected
    <2>3. Meant(Messages[m + 1])' <=> Meant(d)
      BY <1>1 DEF SameExpected
    <2>4. MeantOnes' = {k \in 1 .. m + 1 : Meant(Messages[k])'}
      BY <1>1 DEF MeantOnes
    <2>5. m + 1 \notin 1 .. m /\ m + 1 \in 1 .. m + 1 /\ 1 .. m \subseteq 1 .. m + 1
      BY <1>1
    <2>. QED BY <1>2, <2>1, <2>2, <2>3, <2>4, <2>5
  <1>4. \A k \in S : Expected(Messages[k])' = Expected(Messages[k])
    BY <1>1, <1>2 DEF SameExpected
  <1>5. /\ Len(handled) \in Nat /\ Len(handled) = Cardinality(S)
        /\ \A k \in S : /\ Cardinality({i \in S : i <= k}) \in 1 .. Len(handled)
                        /\ handled[Cardinality({i \in S : i <= k})] = Expected(Messages[k])
    BY <1>1, <1>2, RankType, LenProperties DEF HandledExactly, Rank
  <1>6. CASE ~Meant(d)
    <2>1. MeantOnes' = S /\ handled' = handled
      BY <1>3, <1>6
    <2>. QED BY <1>4, <1>5, <2>1 DEF HandledExactly, Rank
  <1>7. CASE Meant(d)
    <2>1. MeantOnes' = S \cup {m + 1} /\ handled' = Append(handled, e)
      BY <1>3, <1>7
    <2>2. /\ Len(handled') = Len(handled) + 1
          /\ \A i \in 1 .. Len(handled) : handled'[i] = handled[i]
          /\ handled'[Len(handled) + 1] = e
      BY <1>7, <2>1, AppendProperties
    <2>3. /\ Cardinality(S \cup {m + 1}) = Cardinality(S) + 1
          /\ {i \in S \cup {m + 1} : i <= m + 1} = S \cup {m + 1}
          /\ \A k \in S : {i \in S \cup {m + 1} : i <= k} = {i \in S : i <= k}
      BY <1>1, <1>2, RankOfNext
    <2>4. Expected(Messages[m + 1])' = e
      BY <1>1, <1>7
    <2>5. ASSUME NEW k \in S
          PROVE  handled'[Cardinality({i \in S \cup {m + 1} : i <= k})] = Expected(Messages[k])'
      BY <1>4, <1>5, <2>2, <2>3
    <2>6. handled'[Cardinality({i \in S \cup {m + 1} : i <= m + 1})] = Expected(Messages[m + 1])'
      BY <1>5, <2>2, <2>3, <2>4
    <2>7. \A k \in MeantOnes' : handled'[Rank(k)'] = Expected(Messages[k])'
      BY <2>1, <2>5, <2>6 DEF Rank
    <2>8. Len(handled') = Cardinality(MeantOnes')
      BY <1>5, <2>1, <2>2, <2>3
    <2>. QED BY <2>7, <2>8 DEF HandledExactly
  <1>. QED BY <1>6, <1>7
-----------------------------------------------------------------------------
(***************************************************************************)
(* The steps.                                                              *)
(***************************************************************************)

\* Every message in the stream is a whole frame.
LEMMA StreamFramed ==
    ASSUME ReaderInv
    PROVE  /\ delivered \in Seq(Message)
           /\ \A k \in DOMAIN delivered : delivered[k] \in Message /\ Framed(delivered[k])
  <1>1. delivered \in Seq(Message)
    BY DEF ReaderInv, ReaderTypeOK, Message
  <1>. QED BY <1>1, LenProperties, TileParts DEF ReaderInv, FramesTile

LEMMA MessagesType ==
    ASSUME DispatchInv
    PROVE  Messages \in Seq(Message)
  <1>. USE DEF DispatchInv, DispatchTypeOK
  <1>1. CASE ~udp
    BY <1>1, StreamFramed DEF Messages
  <1>2. CASE udp /\ datagram = <<>>
    BY <1>2, EmptySeq DEF Messages
  <1>3. CASE udp /\ datagram # <<>>
    <2>1. [at |-> 0, bytes |-> datagram] \in Message
      BY DEF Message
    <2>. QED BY <1>3, <2>1 DEF Messages
  <1>. QED BY <1>1, <1>2, <1>3

\* As long as nothing has been received, no handler has been called.
LEMMA NothingYet ==
    ASSUME DispatchInv, Messages = <<>>
    PROVE  MeantOnes = {} /\ handled = <<>>
  <1>1. MeantOnes = {}
    BY DEF MeantOnes
  <1>2. Len(handled) = 0
    BY <1>1, FS_EmptySet DEF DispatchInv, HandledExactly
  <1>. QED BY <1>1, <1>2, EmptySeq DEF DispatchInv, DispatchTypeOK

LEMMA AddHandlerInv ==
    ASSUME DispatchInv, AddHandler
    PROVE  DispatchInv'
  <1>. USE DEF DispatchInv
  <1>1. /\ input = <<>> /\ datagram = <<>>
        /\ UNCHANGED <<readerVars, udp, datagram, handled>>
    BY DEF AddHandler
  <1>2. ReaderInv'
    BY <1>1, ReaderStepInv
  <1>3. DispatchTypeOK'
    <2>1. PICK d \in Definitions : handlers' = [handlers EXCEPT ![d[1]] = d[2]]
      BY DEF AddHandler
    <2>2. d[1] \in Types /\ d[2] \in Nat
      BY DispatcherAssumption DEF Types
    <2>. QED BY <1>1, <2>1, <2>2 DEF DispatchTypeOK
  <1>4. OneProtocol'
    BY <1>1 DEF OneProtocol, readerVars
  <1>5. delivered = <<>>
    <2>. SUFFICES ASSUME delivered # <<>> PROVE FALSE
      OBVIOUS
    <2>1. 1 \in DOMAIN delivered
      BY StreamFramed, EmptySeq, LenProperties
    <2>2. Framed(delivered[1]) /\ delivered[1].at \in Nat
      BY <2>1, StreamFramed DEF Message
    <2>3. Len(input) = 0
      BY <1>1, EmptySeq
    <2>. QED BY <2>2, <2>3, FrameReaderAssumption DEF Framed, WellFormed
  <1>6. Messages = <<>> /\ Messages' = <<>>
    BY <1>1, <1>5 DEF Messages, readerVars
  <1>7. handled' = <<>> /\ MeantOnes' = {}
    BY <1>1, <1>6, NothingYet DEF MeantOnes
  <1>8. HandledExactly'
    BY <1>7, FS_EmptySet, EmptySeq DEF HandledExactly
  <1>. QED BY <1>2, <1>3, <1>4, <1>8

LEMMA ReadOnInv ==
    ASSUME DispatchInv, ReadOn
    PROVE  DispatchInv'
  <1>. USE DEF DispatchInv
  <1>1. ~udp /\ ReaderStep /\ UNCHANGED <<udp, datagram, handlers, handled>>
    BY DEF ReadOn
  <1>2. ReaderInv'
    BY <1>1, ReaderStepInv
  <1>3. DispatchTypeOK' /\ OneProtocol'
    BY <1>1 DEF DispatchTypeOK, OneProtocol
  <1>4. delivered' = delivered /\ Longer
    <2>1. /\ input \in Seq(Byte) /\ input' \in Seq(Byte) /\ delivered' = delivered
          /\ input' = input \/ \E bytes \in Seq(Byte) : input' = input \o bytes
      <3>1. input \in Seq(Byte) /\ input' \in Seq(Byte)
        BY <1>2 DEF ReaderInv, ReaderTypeOK
      <3>2. CASE Read
        <4>1. PICK n \in 1 .. Len(recv_buffer) - active_bytes :
                \E bytes \in [1 .. n -> Byte] : input' = input \o bytes
          BY <3>2 DEF Read
        <4>2. PICK bytes \in [1 .. n -> Byte] : input' = input \o bytes
          BY <4>1
        <4>3. n \in Nat
          BY Positions DEF Placed
        <4>4. bytes \in Seq(Byte)
          BY <4>3
        <4>. QED BY <3>1, <3>2, <4>2, <4>4 DEF Read
      <3>3. CASE ReadFails \/ Reject \/ Stop
        BY <3>1, <3>3 DEF ReadFails, Reject, Stop
      <3>. QED BY <1>1, <3>2, <3>3 DEF ReaderStep
    <2>2. CASE input' = input
      BY <2>1, <2>2, LenProperties DEF Longer
    <2>3. CASE \E bytes \in Seq(Byte) : input' = input \o bytes
      <3>1. PICK bytes \in Seq(Byte) : input' = input \o bytes
        BY <2>3
      <3>2. /\ Len(input \o bytes) = Len(input) + Len(bytes)
            /\ \A i \in 1 .. Len(input) : (input \o bytes)[i] = input[i]
        BY <2>1, FrontOfConcat
      <3>3. Len(input) \in Nat /\ Len(bytes) \in Nat
        BY <2>1, LenProperties
      <3>. QED BY <2>1, <3>1, <3>2, <3>3 DEF Longer
    <2>. QED BY <2>1, <2>2, <2>3
  <1>5. Messages = delivered /\ Messages' = delivered
    BY <1>1, <1>4 DEF Messages
  <1>6. SameExpected
    <2>1. \A m \in Message : Meant(m)' <=> Meant(m)
      BY <1>1 DEF Meant
    <2>2. ASSUME NEW k \in MeantOnes, NEW m \in Message, m = Messages[k]
          PROVE  Expected(m)' = Expected(m)
      <3>1. Meant(m) /\ Framed(m)
        BY <1>5, <2>2, StreamFramed DEF MeantOnes
      <3>. PICK t : t = Extract(InputAt(m.at, HeaderSize))[1]
        OBVIOUS
      <3>2. /\ m.at \in Nat /\ Len(m.bytes) \in Nat /\ m.at + Len(m.bytes) <= Len(input)
            /\ t \in Types /\ handlers[t] \in 1 .. Len(m.bytes)
            /\ Expected(m) = [type |-> t, at |-> m.at, msg |-> InputAt(m.at, handlers[t])]
        BY <1>1, <3>1, ExpectedOfFramed DEF DispatchTypeOK, Longer, ReaderInv, ReaderTypeOK
      <3>3. HeaderSize \in Nat /\ HeaderSize <= Len(m.bytes) /\ Len(input) \in Nat
        BY <3>1, Positions DEF Meant, Placed
      <3>4. PICK h : h = handlers[t] /\ h \in Nat /\ m.at + h <= Len(input)
        BY <3>2, <3>3
      <3>5. /\ InputAt(m.at, HeaderSize)' = InputAt(m.at, HeaderSize)
            /\ InputAt(m.at, h)' = InputAt(m.at, h)
        BY <1>4, <3>2, <3>3, <3>4, PieceStays
      <3>6. ~udp' /\ input' \in Seq(Byte) /\ Len(input) <= Len(input') /\ Len(input') \in Nat
        BY <1>1, <1>4, LenProperties DEF Longer
      <3>7. /\ SentAt(m.at, HeaderSize)' = InputAt(m.at, HeaderSize)'
            /\ SentAt(m.at, h)' = InputAt(m.at, h)'
        <4>1. m.at + HeaderSize <= Len(input') /\ m.at + h <= Len(input')
          BY <3>2, <3>3, <3>4, <3>6
        <4>2. /\ SubSeq(input', m.at + 1, m.at + HeaderSize)
                    = [i \in 1 .. HeaderSize |-> input'[m.at + i]]
              /\ SubSeq(input', m.at + 1, m.at + h) = [i \in 1 .. h |-> input'[m.at + i]]
          BY <3>2, <3>3, <3>4, <3>6, <4>1, PieceOfSequence, ZenonT(40)
        <4>. QED BY <3>6, <4>2 DEF SentAt, InputAt
      <3>. QED BY <1>1, <3>2, <3>4, <3>5, <3>7 DEF Expected
    <2>. QED BY <2>1, <2>2 DEF SameExpected
  <1>7. HandledExactly'
    BY <1>1, <1>5, <1>6, MessagesType, HandledStays
  <1>. QED BY <1>2, <1>3, <1>7

\* What dispatch() does with a message that is in memory: the handler of its
\* type, if there is one and the message is long enough, gets its first bytes.
LEMMA DispatchFacts ==
    ASSUME handlers \in [Types -> Nat], NEW memory \in Seq(Byte),
           NEW at \in Nat, NEW size \in Nat,
           HeaderSize <= size, size <= Len(memory), Dispatch(at, size, memory)
    PROVE  LET t == Extract([i \in 1 .. HeaderSize |-> memory[i]])[1]
               meant == t \in Types /\ handlers[t] \in 1 .. size
               e == [type |-> t, at |-> at, msg |-> [i \in 1 .. handlers[t] |-> memory[i]]]
           IN  /\ handled' = IF meant THEN Append(handled, e) ELSE handled
               /\ meant => e \in Handling
  <1>. DEFINE t == Extract([i \in 1 .. HeaderSize |-> memory[i]])[1]
  <1>1. Extract(Header(memory))[1] = t
    BY DEF Header
  <1>. HIDE DEF t
  <1>2. handled' = IF size >= HeaderSize /\ t \in Types /\ handlers[t] > 0 /\ size >= handlers[t]
                   THEN Append(handled, [type |-> t, at |-> at,
                                         msg |-> SubSeq(memory, 1, handlers[t])])
                   ELSE handled
    BY <1>1 DEF Dispatch, HasHeader, LongEnough
  <1>3. HeaderSize \in Nat /\ Len(memory) \in Nat
    BY FrameReaderAssumption, LenProperties
  <1>4. t \in Types => handlers[t] \in Nat
    OBVIOUS
  <1>5. t \in Types => (handlers[t] \in 1 .. size <=> handlers[t] > 0 /\ size >= handlers[t])
    BY <1>4
  <1>6. ASSUME t \in Types, handlers[t] \in 1 .. size
        PROVE  /\ SubSeq(memory, 1, handlers[t]) = [i \in 1 .. handlers[t] |-> memory[i]]
               /\ SubSeq(memory, 1, handlers[t]) \in Seq(Byte)
    <2>1. PICK h \in Nat : h = handlers[t] /\ 0 + h <= Len(memory)
      BY <1>3, <1>4, <1>6
    <2>2. /\ SubSeq(memory, 0 + 1, 0 + h) = [i \in 1 .. h |-> memory[0 + i]]
          /\ SubSeq(memory, 0 + 1, 0 + h) \in Seq(Byte)
      BY <2>1, PieceOfSequence
    <2>3. 0 + 1 = 1 /\ 0 + h = h /\ \A i \in 1 .. h : 0 + i = i
      OBVIOUS
    <2>4. [i \in 1 .. h |-> memory[0 + i]] = [i \in 1 .. h |-> memory[i]]
      BY <2>3
    <2>. QED BY <2>1, <2>2, <2>3, <2>4
  <1>7. CASE t \in Types /\ handlers[t] \in 1 .. size
    <2>1. handled' = Append(handled, [type |-> t, at |-> at,
                                      msg |-> [i \in 1 .. handlers[t] |-> memory[i]]])
      BY <1>2, <1>5, <1>6, <1>7
    <2>2. [type |-> t, at |-> at, msg |-> [i \in 1 .. handlers[t] |-> memory[i]]] \in Handling
      BY <1>6, <1>7 DEF Handling
    <2>. QED BY <1>7, <2>1, <2>2 DEF t
  <1>8. CASE ~(t \in Types /\ handlers[t] \in 1 .. size)
    <2>1. handled' = handled
      BY <1>2, <1>5, <1>8
    <2>. QED BY <1>8, <2>1 DEF t
  <1>. QED BY <1>7, <1>8

LEMMA DeliverMessageInv ==
    ASSUME DispatchInv, DeliverMessage
    PROVE  DispatchInv'
  <1>. USE DEF DispatchInv
  <1>p. Placed
    BY Positions
  <1>1. /\ Deliver /\ UNCHANGED <<udp, datagram, handlers, input>>
        /\ handlers \in [Types -> Nat] /\ input \in Seq(Byte) /\ recv_buffer \in Seq(Byte)
        /\ handled \in Seq(Handling) /\ delivered \in Seq(Message)
    BY StreamFramed DEF DeliverMessage, Deliver, DispatchTypeOK, ReaderInv, ReaderTypeOK
  <1>2. ~udp
    BY <1>1 DEF OneProtocol, Deliver, Processing
  <1>3. ReaderInv'
    BY <1>1, ReaderStepInv
  <1>. PICK p, n, r : p = Parsed /\ n = total_size /\ r = Len(recv_buffer) - current_offset
    OBVIOUS
  <1>4. PICK d \in Message :
            /\ delivered' = Append(delivered, d)
            /\ Framed(d)
            /\ d.at = p /\ d.bytes = InputAt(p, n)
            /\ Len(d.bytes) = n
            /\ n \in Nat /\ HeaderSize <= n /\ n <= Unparsed
    BY <1>1, DeliverFacts
  <1>5. /\ p \in Nat /\ r \in Nat /\ current_offset \in Nat /\ n <= r /\ HeaderSize \in Nat
        /\ Unparsed \in Nat /\ current_offset + r = Len(recv_buffer)
        /\ HeaderSize <= Unparsed
    BY <1>p, <1>4 DEF Placed, Unparsed
  <1>6. PICK memory :
            memory = SubSeq(recv_buffer, current_offset + 1, Len(recv_buffer))
    OBVIOUS
  <1>7. /\ memory = [i \in 1 .. r |-> recv_buffer[current_offset + i]]
        /\ memory \in Seq(Byte) /\ Len(memory) = r
    <2>1. /\ memory = [i \in 1 .. r |-> recv_buffer[current_offset + i]]
          /\ memory \in Seq(Byte)
      BY <1>1, <1>5, <1>6, PieceOfSequence
    <2>. QED BY <1>5, <2>1
  <1>8. \A h \in Nat : h <= n => [i \in 1 .. h |-> memory[i]] = InputAt(p, h)
    <2>. TAKE h \in Nat
    <2>. HAVE h <= n
    <2>1. Span(h) = InputAt(p, h)
      BY <1>4, <1>5, SpanIsInput
    <2>2. \A i \in 1 .. h : memory[i] = recv_buffer[current_offset + i]
      BY <1>4, <1>5, <1>7
    <2>. QED BY <2>1, <2>2 DEF Span
  <1>9. Dispatch(p, n, memory)
    BY <1>6 DEF DeliverMessage, Parsed
  <1>. PICK t : t = Extract(InputAt(p, HeaderSize))[1]
    OBVIOUS
  <1>10. /\ Meant(d) <=> t \in Types /\ handlers[t] \in 1 .. n
         /\ Meant(d) => Expected(d) = [type |-> t, at |-> p, msg |-> InputAt(p, handlers[t])]
    BY <1>1, <1>2, <1>4, ExpectedOfFramed
  <1>11. PICK e : /\ handled' = IF Meant(d) THEN Append(handled, e) ELSE handled
                  /\ Meant(d) => e \in Handling /\ e = Expected(d)
    <2>1. [i \in 1 .. HeaderSize |-> memory[i]] = InputAt(p, HeaderSize)
      BY <1>4, <1>5, <1>8
    <2>. DEFINE f == [type |-> t, at |-> p, msg |-> [i \in 1 .. handlers[t] |-> memory[i]]]
    <2>2. /\ handled' = IF t \in Types /\ handlers[t] \in 1 .. n
                        THEN Append(handled, f) ELSE handled
          /\ t \in Types /\ handlers[t] \in 1 .. n => f \in Handling
      BY <1>1, <1>4, <1>5, <1>7, <1>9, <2>1, DispatchFacts, ZenonT(40)
    <2>3. Meant(d) => f = Expected(d)
      <3>1. Meant(d) => handlers[t] \in Nat /\ handlers[t] <= n
        BY <1>1, <1>4, <1>10
      <3>. QED BY <1>8, <1>10, <3>1
    <2>. HIDE DEF f
    <2>4. /\ handled' = IF Meant(d) THEN Append(handled, f) ELSE handled
          /\ Meant(d) => f \in Handling /\ f = Expected(d)
      BY <1>10, <2>2, <2>3
    <2>. QED BY <2>4
  <1>12. Messages = delivered /\ Messages' = Append(delivered, d)
    BY <1>1, <1>2, <1>4 DEF Messages
  <1>13. (\A m \in Message : Meant(m)' <=> Meant(m)) /\ \A m \in Message : Expected(m)' = Expected(m)
    BY <1>1 DEF Meant, Expected, SentAt
  <1>14. HandledExactly'
    BY <1>1, <1>4, <1>11, <1>12, <1>13, HandledGrows DEF SameExpected
  <1>15. DispatchTypeOK'
    <2>1. handled' \in Seq(Handling)
      BY <1>1, <1>11, AppendProperties
    <2>. QED BY <1>1, <2>1 DEF DispatchTypeOK
  <1>16. OneProtocol'
    BY <1>1, <1>2 DEF OneProtocol
  <1>. QED BY <1>3, <1>14, <1>15, <1>16

LEMMA DatagramInv ==
    ASSUME DispatchInv, Datagram
    PROVE  DispatchInv'
  <1>. USE DEF DispatchInv
  <1>1. /\ udp /\ datagram = <<>> /\ UNCHANGED <<readerVars, udp, handlers>>
        /\ handlers \in [Types -> Nat] /\ handled \in Seq(Handling)
        /\ recv_buffer \in Seq(Byte)
        /\ HeaderSize \in Nat /\ Chunk \in Nat
    BY FrameReaderAssumption DEF Datagram, DispatchTypeOK, ReaderInv, ReaderTypeOK
  <1>2. PICK n \in 1 .. Chunk : \E bytes \in [1 .. n -> Byte] :
            datagram' = bytes /\ Dispatch(0, n, bytes \o recv_buffer)
    BY DEF Datagram
  <1>3. PICK bytes \in [1 .. n -> Byte] :
            datagram' = bytes /\ Dispatch(0, n, bytes \o recv_buffer)
    BY <1>2
  <1>4. n \in Nat /\ n > 0 /\ bytes \in Seq(Byte) /\ Len(bytes) = n /\ bytes # <<>>
    <2>1. n \in Nat /\ n > 0
      BY <1>1
    <2>2. bytes \in Seq(Byte) /\ Len(bytes) = n
      BY <2>1
    <2>. QED BY <2>1, <2>2, EmptySeq
  <1>5. PICK memory : memory = bytes \o recv_buffer
    OBVIOUS
  <1>6. /\ memory \in Seq(Byte) /\ n <= Len(memory)
        /\ \A i \in 1 .. n : memory[i] = bytes[i]
    <2>1. /\ memory \in Seq(Byte) /\ Len(memory) = Len(bytes) + Len(recv_buffer)
          /\ \A i \in 1 .. Len(bytes) : memory[i] = bytes[i]
      BY <1>1, <1>4, <1>5, FrontOfConcat
    <2>2. Len(recv_buffer) \in Nat
      BY <1>1, LenProperties
    <2>. QED BY <1>4, <2>1, <2>2
  <1>7. ReaderInv'
    BY <1>1, ReaderStepInv
  <1>8. OneProtocol'
    BY <1>1 DEF OneProtocol, readerVars
  <1>. PICK d : d = [at |-> 0, bytes |-> bytes]
    OBVIOUS
  <1>9. d \in Message /\ d.at = 0 /\ d.bytes = bytes
    BY <1>4 DEF Message
  <1>10. Messages = <<>> /\ Messages' = <<d>>
    BY <1>1, <1>3, <1>4 DEF Messages
  <1>11. Messages' = Append(Messages, d)
    BY <1>10
  <1>12. SameExpected
    <2>1. MeantOnes = {}
      BY <1>10, NothingYet
    <2>2. \A m \in Message : Meant(m)' <=> Meant(m)
      BY <1>1 DEF Meant
    <2>. QED BY <2>1, <2>2 DEF SameExpected
  <1>13. PICK e : /\ handled' = IF Meant(d) THEN Append(handled, e) ELSE handled
                  /\ Meant(d) => e \in Handling /\ e = Expected(d)'
    <2>1. CASE n < HeaderSize
      <3>1. ~Meant(d)
        BY <1>1, <1>4, <1>9, <2>1 DEF Meant
      <3>2. handled' = handled
        BY <1>1, <1>3, <1>4, <2>1 DEF Dispatch, HasHeader
      <3>. QED BY <3>1, <3>2
    <2>2. CASE HeaderSize <= n
      <3>. PICK t : t = Extract([i \in 1 .. HeaderSize |-> memory[i]])[1]
        OBVIOUS
      <3>. DEFINE f == [type |-> t, at |-> 0, msg |-> [i \in 1 .. handlers[t] |-> memory[i]]]
      <3>1. /\ handled' = IF t \in Types /\ handlers[t] \in 1 .. n
                          THEN Append(handled, f) ELSE handled
            /\ t \in Types /\ handlers[t] \in 1 .. n => f \in Handling
        <4>1. Dispatch(0, n, memory) /\ 0 \in Nat
          BY <1>3, <1>5
        <4>. QED BY <1>1, <1>4, <1>6, <2>2, <4>1, DispatchFacts
      <3>2. \A h \in Nat : h <= n => [i \in 1 .. h |-> memory[i]] = [i \in 1 .. h |-> bytes[i]]
        BY <1>4, <1>6
      <3>3. \A h \in Nat : h <= n => SubSeq(bytes, 0 + 1, 0 + h) = [i \in 1 .. h |-> bytes[i]]
        <4>. TAKE h \in Nat
        <4>. HAVE h <= n
        <4>1. 0 + h <= Len(bytes)
          BY <1>4
        <4>2. SubSeq(bytes, 0 + 1, 0 + h) = [i \in 1 .. h |-> bytes[0 + i]]
          BY <1>4, <4>1, PieceOfSequence
        <4>3. \A i \in 1 .. h : 0 + i = i
          OBVIOUS
        <4>. QED BY <4>2, <4>3
      <3>4. t = Extract(Header(bytes))[1]
        BY <1>1, <2>2, <3>2 DEF Header
      <3>5. Meant(d) <=> t \in Types /\ handlers[t] \in 1 .. n
        BY <1>4, <1>9, <2>2, <3>4 DEF Meant
      <3>6. /\ SentAt(d.at, HeaderSize)' = [i \in 1 .. HeaderSize |-> memory[i]]
            /\ \A h \in Nat : h <= n => SentAt(d.at, h)' = [i \in 1 .. h |-> memory[i]]
        <4>1. \A h \in Nat : SentAt(d.at, h)' = SubSeq(bytes, 0 + 1, 0 + h)
          BY <1>1, <1>3, <1>9 DEF SentAt
        <4>. QED BY <1>1, <2>2, <3>2, <3>3, <4>1
      <3>7. Meant(d) => Expected(d)' = f
        <4>1. Meant(d) => handlers[t] \in Nat /\ handlers[t] <= n
          BY <1>1, <1>4, <3>5
        <4>2. PICK h : h = handlers[t]
          OBVIOUS
        <4>3. Meant(d) => SentAt(d.at, h)' = [i \in 1 .. h |-> memory[i]]
          BY <3>6, <4>1, <4>2
        <4>. QED BY <1>1, <1>9, <3>6, <4>2, <4>3 DEF Expected
      <3>. HIDE DEF f
      <3>8. /\ handled' = IF Meant(d) THEN Append(handled, f) ELSE handled
            /\ Meant(d) => f \in Handling /\ f = Expected(d)'
        BY <3>1, <3>5, <3>7
      <3>. QED BY <3>8
    <2>. QED BY <1>1, <1>4, <2>1, <2>2
  <1>14. Messages \in Seq(Message)
    BY MessagesType
  <1>15. HandledExactly'
    BY <1>1, <1>9, <1>11, <1>12, <1>13, <1>14, HandledGrows
  <1>16. DispatchTypeOK'
    <2>1. handled' \in Seq(Handling)
      BY <1>1, <1>13, AppendProperties
    <2>. QED BY <1>1, <1>3, <1>4, <2>1 DEF DispatchTypeOK
  <1>. QED BY <1>7, <1>8, <1>15, <1>16

LEMMA DispatchInit == ASSUME Init PROVE DispatchInv
  <1>1. ReaderInv
    BY ReaderInvInit DEF Init
  <1>2. /\ udp \in BOOLEAN /\ datagram = <<>> /\ handlers = [t \in Types |-> 0] /\ handled = <<>>
        /\ state = "reading" /\ input = <<>> /\ delivered = <<>>
    BY DEF Init, ReaderInit
  <1>3. DispatchTypeOK
    BY <1>2, EmptySeq DEF DispatchTypeOK
  <1>4. OneProtocol
    BY <1>2 DEF OneProtocol
  <1>5. MeantOnes = {}
    BY <1>2 DEF MeantOnes, Messages
  <1>6. HandledExactly
    BY <1>2, <1>5, FS_EmptySet, EmptySeq DEF HandledExactly
  <1>. QED BY <1>1, <1>3, <1>4, <1>6 DEF DispatchInv

LEMMA DispatchStutters ==
    ASSUME DispatchInv, UNCHANGED vars
    PROVE  DispatchInv'
  <1>. USE DEF DispatchInv
  <1>1. UNCHANGED <<readerVars, udp, datagram, handlers, handled>>
    BY DEF vars
  <1>2. UNCHANGED <<input, delivered, state>>
    BY <1>1 DEF readerVars
  <1>3. ReaderInv'
    BY <1>1, ReaderStepInv
  <1>4. DispatchTypeOK' /\ OneProtocol'
    BY <1>1, <1>2 DEF DispatchTypeOK, OneProtocol
  <1>5. Messages' = Messages
    BY <1>1, <1>2 DEF Messages
  <1>6. SameExpected
    BY <1>1, <1>2 DEF SameExpected, Meant, Expected, SentAt
  <1>7. HandledExactly'
    BY <1>1, <1>5, <1>6, MessagesType, HandledStays
  <1>. QED BY <1>3, <1>4, <1>7
-----------------------------------------------------------------------------
(***************************************************************************)
(* The theorems.                                                           *)
(***************************************************************************)

\* DispatchInv is inductive: start_receive(), process_buffer() and dispatch()
\* preserve it, whatever the peer sends and however the kernel chops it.
THEOREM Invariance == Spec => []DispatchInv
  <1>1. Init => DispatchInv
    BY DispatchInit
  <1>2. DispatchInv /\ [Next]_vars => DispatchInv'
    BY AddHandlerInv, ReadOnInv, DeliverMessageInv, DatagramInv, DispatchStutters DEF Next
  <1>. QED BY <1>1, <1>2, PTL DEF Spec

\* The indices of process_buffer() stay within recv_buffer_, so that its
\* unsigned subtractions never wrap, and a handler is only ever called for a
\* registered type.
THEOREM TypeCorrect == Spec => []TypeOK
  <1>1. DispatchInv => TypeOK
    BY DEF DispatchInv, DispatchTypeOK, ReaderInv, TypeOK, Handling
  <1>. QED BY <1>1, Invariance, PTL

\* process_buffer() cuts the stream into messages that depend on the stream
\* alone: they tile it from its start, each as long as its header announces.
THEOREM MessagesFramed == Spec => []FramesTile
  <1>1. DispatchInv => FramesTile
    BY DEF DispatchInv, ReaderInv
  <1>. QED BY <1>1, Invariance, PTL

\* When start_receive() waits for more, process_buffer() has delivered every
\* complete message; it closes the connection only over an unacceptable header.
THEOREM AllDelivered == Spec => []NothingHeldBack
  <1>1. DispatchInv => NothingHeldBack
    BY DEF DispatchInv, ReaderInv
  <1>. QED BY <1>1, Invariance, PTL

\* recv_buffer_ holds no more than one incomplete message and one read, however
\* long the stream is: max_message_size_ bounds what a peer can make
\* start_receive() allocate.
THEOREM BufferStaysBounded == Spec => []BufferBounded
  <1>1. DispatchInv => BufferBounded
    BY DEF DispatchInv, ReaderInv
  <1>. QED BY <1>1, Invariance, PTL

\* dispatch() calls a handler for exactly the messages of a registered type
\* that fill the registered struct, in the order of the stream, with the bytes
\* of that very message.
THEOREM Dispatched == Spec => []HandledExactly
  <1>1. DispatchInv => HandledExactly
    BY DEF DispatchInv
  <1>. QED BY <1>1, Invariance, PTL
=============================================================================
