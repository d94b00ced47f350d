----------------------------- MODULE Bus_proofs -----------------------------
(***************************************************************************)
(* Theorems about Bus, for any threads and parsers that keep to the        *)
(* contract of extractPacket, and any length of input; and about           *)
(* MockDevice, for any messages, replies and nesting of mock contexts.     *)
(***************************************************************************)
EXTENDS Bus, TLAPS, SequenceTheorems, WellFoundedInduction

\* The constants and the state of MockDevice.
CONSTANTS Messages, Replies, Frameworks, Closes, MaxQueue, MaxDepth
VARIABLES open, mock, eof, to_driver, from_driver, expectations, replies, framework, depth,
          result, accepted, asked, answers, answered

Mock == INSTANCE MockDevice

USE DEF threadVars, dataVars

-----------------------------------------------------------------------------
(* What Bus::extractPacket answers.                                        *)

\* A set of naturals has a least one.
LEMMA LeastElement ==
  ASSUME NEW T \in SUBSET Nat, T # {}
  PROVE  \E m \in T : \A k \in T : m <= k
<1> DEFINE R == OpToRel(<, Nat)
<1>1. IsWellFoundedOn(R, Nat)
  BY NatLessThanWellFounded
<1>2. \A a, b \in Nat : <<a, b>> \in R <=> a < b
  BY DEF OpToRel
<1> HIDE DEF R
<1>3. PICK m \in T : \A k \in T : ~(<<k, m>> \in R)
  BY <1>1, WFMin
<1>4. m \in Nat /\ \A k \in T : k \in Nat /\ ~(k < m)
  BY <1>2, <1>3
<1>5. \A k \in T : m <= k
  BY <1>4
<1> QED
  BY <1>5

\* A parser answers for what is in the buffer: no more than that is dropped or taken, and
\* the packet that it sees is one by itself.
LEMMA ParserAnswers ==
  ASSUME NEW p \in Parsers, NEW b \in Seq(Byte), b # <<>>, Len(b) <= MaxInput
  PROVE  /\ Extract(p, b) \in -Len(b) .. Len(b)
         /\ Extract(p, b) > 0 => Extract(p, SubSeq(b, 1, Extract(p, b))) = Extract(p, b)
<1> DEFINE n == Len(b)
<1>1. n \in 1 .. MaxInput
  BY EmptySeq, LenProperties, BusAssumption
<1>2. b \in [1 .. n -> Byte]
  BY LenProperties
<1> QED
  BY <1>1, <1>2, ParserAssumption

\* What is skipped when no parser in particular reads: no more than there is.
LEMMA MinSkipProperties ==
  ASSUME ibuf \in Seq(Byte), ibuf # <<>>, Len(ibuf) <= MaxInput,
         registered \in Seq(Parsers), NEW n \in 0 .. Len(registered)
  PROVE  MinSkip(n) \in 0 .. Len(ibuf)
<1> DEFINE skip(i) == Magnitude(Extract(registered[i], ibuf))
           skips == {skip(i) : i \in 1 .. n} \cup {Len(ibuf)}
<1>1. Len(ibuf) \in Nat /\ Len(registered) \in Nat
  BY LenProperties
<1>2. ASSUME NEW i \in 1 .. n PROVE skip(i) \in Nat
  <2>1. registered[i] \in Parsers
    BY <1>1, ElementOfSeq
  <2>2. Extract(registered[i], ibuf) \in -Len(ibuf) .. Len(ibuf)
    BY <2>1, ParserAnswers
  <2> QED
    BY <1>1, <2>2 DEF Magnitude
<1>3. skips \in SUBSET Nat /\ Len(ibuf) \in skips
  BY <1>1, <1>2
<1>4. MinSkip(n) = CHOOSE s \in skips : \A u \in skips : s <= u
  BY DEF MinSkip
<1> HIDE DEF skips
<1>5. \E s \in skips : \A u \in skips : s <= u
  BY <1>3, LeastElement
<1>6. MinSkip(n) \in skips /\ \A u \in skips : MinSkip(n) <= u
  BY <1>4, <1>5
<1>7. MinSkip(n) \in Nat /\ MinSkip(n) <= Len(ibuf)
  BY <1>3, <1>6
<1> QED
  BY <1>1, <1>7

-----------------------------------------------------------------------------
(* The invariant.                                                          *)

\* The bytes of the bus are of its alphabet, and none is in two places.
BytesInv ==
  /\ ibuf \in Seq(Byte) /\ wire \in Seq(Byte) /\ stream \in Seq(Byte)
  /\ Len(ibuf) + Len(wire) <= Len(stream) /\ Len(stream) <= MaxInput

\* While a thread reads, `caller' is the parser that it reads for: the mutex keeps the
\* other threads out, for the whole of the call.
CallerInv ==
  /\ owner \in Threads \cup {NoThread}
  /\ op \in [Threads -> {"none", "read", "write"}]
  /\ for \in [Threads -> Parsers \cup {NoParser}]
  /\ registered \in Seq(Parsers)
  /\ owner # NoThread => op[owner] # "none"
  /\ Reading => caller = for[owner]
  /\ Reading /\ phase = "find" => ibuf # <<>>

BusInv == BytesInv /\ CallerInv /\ PacketsForReader

LEMMA BusInvInit == Init => BusInv
<1> SUFFICES ASSUME Init PROVE BusInv
  OBVIOUS
<1>1. Len(<<>>) = 0 /\ <<>> \in Seq(Byte) /\ <<>> \in Seq(Parsers)
  OBVIOUS
<1>2. BytesInv
  BY <1>1, BusAssumption DEF Init, BytesInv
<1>3. CallerInv /\ PacketsForReader
  BY <1>1 DEF Init, CallerInv, Reading, PacketsForReader, NoPacket
<1> QED
  BY <1>2, <1>3 DEF BusInv

\* The devices.
LEMMA BusInvSends ==
  ASSUME BusInv, NEW b \in Byte, DeviceSends(b)
  PROVE  BusInv'
<1>1. /\ Len(stream) < MaxInput /\ stream' = Append(stream, b) /\ wire' = Append(wire, b)
      /\ UNCHANGED <<owner, threadVars, caller, registered, phase, ibuf, got, dispatched>>
  BY DEF DeviceSends
<1>2. /\ stream \in Seq(Byte) /\ wire \in Seq(Byte) /\ ibuf \in Seq(Byte)
      /\ Len(stream) \in Nat /\ Len(wire) \in Nat /\ Len(ibuf) \in Nat
  BY LenProperties DEF BusInv, BytesInv
<1>3. /\ Append(stream, b) \in Seq(Byte) /\ Len(Append(stream, b)) = Len(stream) + 1
      /\ Append(wire, b) \in Seq(Byte) /\ Len(Append(wire, b)) = Len(wire) + 1
  BY <1>2, AppendProperties
<1>4. BytesInv'
  BY <1>1, <1>2, <1>3, BusAssumption DEF BusInv, BytesInv
<1>5. CallerInv' /\ PacketsForReader'
  BY <1>1 DEF BusInv, CallerInv, Reading, PacketsForReader
<1> QED
  BY <1>4, <1>5 DEF BusInv

\* Parsers come and go between calls.
LEMMA BusInvParsers ==
  ASSUME BusInv, NEW p \in Parsers, AddParser(p) \/ RemoveParser(p)
  PROVE  BusInv'
<1>1. /\ owner = NoThread /\ UNCHANGED <<owner, threadVars, caller, phase, dataVars, got>>
  BY DEF AddParser, RemoveParser
<1>2. registered \in Seq(Parsers)
  BY DEF BusInv, CallerInv
<1>3. registered' \in Seq(Parsers)
  <2>1. CASE AddParser(p)
    BY <1>2, <2>1, AppendProperties DEF AddParser
  <2>2. CASE RemoveParser(p)
    <3>1. PICK i \in 1 .. Len(registered) :
            registered' = SubSeq(registered, 1, i - 1) \o SubSeq(registered, i + 1, Len(registered))
      BY <2>2 DEF RemoveParser
    <3> DEFINE a == SubSeq(registered, 1, i - 1)
               b == SubSeq(registered, i + 1, Len(registered))
    <3>2. a \in Seq(Parsers) /\ b \in Seq(Parsers)
      <4>1. Len(registered) \in Nat /\ \A j \in 1 .. Len(registered) : registered[j] \in Parsers
        BY <1>2, LenProperties, ElementOfSeq
      <4>2. /\ \A j \in 1 .. i - 1 : registered[j] \in Parsers
            /\ \A j \in i + 1 .. Len(registered) : registered[j] \in Parsers
        BY <4>1
      <4>3. 1 \in Int /\ i - 1 \in Int /\ i + 1 \in Int /\ Len(registered) \in Int
        BY <4>1
      <4> QED
        BY <4>2, <4>3, SubSeqProperties
    <3> HIDE DEF a, b
    <3>3. a \o b \in Seq(Parsers)
      BY <3>2, ConcatProperties
    <3> QED
      BY <3>1, <3>3 DEF a, b
  <2> QED
    BY <2>1, <2>2
<1>4. CallerInv'
  BY <1>1, <1>3 DEF BusInv, CallerInv, Reading
<1>5. BytesInv' /\ PacketsForReader'
  BY <1>1 DEF BusInv, BytesInv, PacketsForReader
<1> QED
  BY <1>4, <1>5 DEF BusInv

\* Threads call the bus and wait for the mutex, have it, and leave.
LEMMA BusInvCalls ==
  ASSUME BusInv, NEW t \in Threads, NEW o \in {"read", "write"}, NEW p \in Parsers \cup {NoParser},
         Call(t, o, p) \/ ReadStarts(t) \/ WriteStarts(t)
  PROVE  BusInv'
<1>0. t # NoThread
  BY BusAssumption
<1>1. UNCHANGED <<dataVars, got, registered>>
  BY DEF Call, ReadStarts, WriteStarts
<1>2. BytesInv' /\ PacketsForReader'
  BY <1>1 DEF BusInv, BytesInv, PacketsForReader
<1>3. CASE Call(t, o, p)
  <2>1. owner # t
    BY <1>0, <1>3 DEF Call, BusInv, CallerInv
  <2>2. CallerInv'
    BY <1>1, <1>3, <2>1 DEF Call, BusInv, CallerInv, Reading
  <2> QED
    BY <1>2, <2>2 DEF BusInv
<1>4. CASE ReadStarts(t)
  <2>1. CallerInv'
    BY <1>1, <1>4 DEF ReadStarts, NewCaller, BusInv, CallerInv, Reading
  <2> QED
    BY <1>2, <2>1 DEF BusInv
<1>5. CASE WriteStarts(t)
  <2>1. CallerInv'
    BY <1>1, <1>5 DEF WriteStarts, BusInv, CallerInv, Reading
  <2> QED
    BY <1>2, <2>1 DEF BusInv
<1> QED
  BY <1>3, <1>4, <1>5

LEMMA BusInvEnds == BusInv /\ (WriteEnds \/ ReadThrows) => BusInv'
<1> SUFFICES ASSUME BusInv, WriteEnds \/ ReadThrows PROVE BusInv'
  OBVIOUS
<1>1. /\ UNCHANGED <<dataVars, got, registered, for>> /\ owner \in Threads
      /\ owner' = NoThread /\ op' = [op EXCEPT ![owner] = "none"]
  BY DEF WriteEnds, ReadThrows, Reading, Leave, BusInv, CallerInv
<1>2. BytesInv' /\ PacketsForReader'
  BY <1>1 DEF BusInv, BytesInv, PacketsForReader
<1>3. CallerInv'
  BY <1>1 DEF BusInv, CallerInv, Reading
<1> QED
  BY <1>2, <1>3 DEF BusInv

\* What findPacket finds: a packet of the parser that reads, or what no parser objects to.
LEMMA ExtractedProperties ==
  ASSUME BusInv, Reading, phase = "find"
  PROVE  /\ ibuf \in Seq(Byte) /\ Len(ibuf) \in Nat
         /\ Extracted \in -Len(ibuf) .. Len(ibuf)
         /\ for[owner] # NoParser /\ Extracted > 0
              => Extract(for[owner], SubSeq(ibuf, 1, Extracted)) = Extracted
<1>1. /\ ibuf \in Seq(Byte) /\ ibuf # <<>> /\ Len(ibuf) \in Nat /\ Len(wire) \in Nat
      /\ Len(ibuf) <= MaxInput
  <2>1. ibuf \in Seq(Byte) /\ wire \in Seq(Byte) /\ stream \in Seq(Byte)
    BY DEF BusInv, BytesInv
  <2>2. Len(ibuf) \in Nat /\ Len(wire) \in Nat /\ Len(stream) \in Nat
    BY <2>1, LenProperties
  <2> QED
    BY <2>1, <2>2, BusAssumption DEF BusInv, BytesInv, CallerInv
<1>2. owner \in Threads /\ caller = for[owner] /\ caller \in Parsers \cup {NoParser}
  BY DEF BusInv, CallerInv, Reading
<1>3. CASE caller # NoParser
  <2>1. caller \in Parsers /\ Extracted = Extract(caller, ibuf)
    BY <1>2, <1>3 DEF Extracted
  <2>2. /\ Extract(caller, ibuf) \in -Len(ibuf) .. Len(ibuf)
        /\ Extract(caller, ibuf) > 0
             => Extract(caller, SubSeq(ibuf, 1, Extract(caller, ibuf))) = Extract(caller, ibuf)
    BY <1>1, <2>1, ParserAnswers
  <2> QED
    BY <1>1, <1>2, <2>1, <2>2
<1>4. CASE caller = NoParser
  <2>1. registered \in Seq(Parsers) /\ Len(registered) \in 0 .. Len(registered)
    BY LenProperties DEF BusInv, CallerInv
  <2>2. MinSkip(Len(registered)) \in 0 .. Len(ibuf)
    BY <1>1, <2>1, MinSkipProperties
  <2>3. Extracted \in 0 .. Len(ibuf)
    BY <1>4, <2>2 DEF Extracted
  <2> QED
    BY <1>1, <1>2, <1>4, <2>3
<1> QED
  BY <1>3, <1>4

LEMMA BusInvFind == BusInv /\ Find => BusInv'
<1> SUFFICES ASSUME BusInv, Find PROVE BusInv'
  OBVIOUS
<1> DEFINE e == Extracted
<1>1. Reading /\ phase = "find" /\ UNCHANGED <<caller, registered, wire, stream>>
  BY DEF Find
<1>2. /\ ibuf \in Seq(Byte) /\ Len(ibuf) \in Nat /\ e \in -Len(ibuf) .. Len(ibuf)
      /\ for[owner] # NoParser /\ e > 0 => Extract(for[owner], SubSeq(ibuf, 1, e)) = e
  BY <1>1, ExtractedProperties
<1>3. owner \in Threads /\ Len(wire) \in Nat /\ Len(stream) \in Nat
  BY <1>1, LenProperties DEF Reading, BusInv, CallerInv, BytesInv
<1>4. \A i \in 1 .. Len(ibuf) : ibuf[i] \in Byte
  BY <1>2, ElementOfSeq
<1>5. CASE e = 0
  <2>1. phase' = "stream" /\ UNCHANGED <<owner, threadVars, ibuf, got>>
    BY <1>5 DEF Find
  <2> QED
    BY <1>1, <2>1 DEF BusInv, BytesInv, CallerInv, PacketsForReader, Reading
<1>6. CASE e < 0
  <2>1. /\ ibuf' = SubSeq(ibuf, 1 - e, Len(ibuf))
        /\ phase' = IF ibuf' = <<>> THEN "stream" ELSE "find"
        /\ UNCHANGED <<owner, threadVars, got>>
    BY <1>2, <1>6 DEF Find
  <2> HIDE DEF e
  <2>2. ibuf' \in Seq(Byte) /\ Len(ibuf') <= Len(ibuf)
    <3>1. 1 - e \in 1 .. Len(ibuf) + 1
      BY <1>2, <1>6
    <3>2. \A i \in 1 - e .. Len(ibuf) : ibuf[i] \in Byte
      BY <1>2, <1>4, <3>1
    <3>3. /\ SubSeq(ibuf, 1 - e, Len(ibuf)) \in Seq(Byte)
          /\ Len(SubSeq(ibuf, 1 - e, Len(ibuf))) =
               IF 1 - e <= Len(ibuf) THEN Len(ibuf) - (1 - e) + 1 ELSE 0
      BY <1>2, <3>1, <3>2, SubSeqProperties
    <3> QED
      BY <1>2, <2>1, <3>1, <3>3
  <2>3. Len(ibuf') \in Nat
    BY <2>2, LenProperties
  <2>4. BytesInv'
    BY <1>1, <1>2, <1>3, <2>2, <2>3 DEF BusInv, BytesInv
  <2>5. CallerInv' /\ PacketsForReader'
    BY <1>1, <2>1 DEF BusInv, CallerInv, PacketsForReader, Reading
  <2> QED
    BY <2>4, <2>5 DEF BusInv
<1>7. CASE e > 0
  <2>1. /\ got' = [for |-> for[owner], bytes |-> SubSeq(ibuf, 1, e)]
        /\ ibuf' = SubSeq(ibuf, e + 1, Len(ibuf)) /\ Leave
    BY <1>2, <1>7 DEF Find
  <2> HIDE DEF e
  <2>2. SubSeq(ibuf, 1, e) \in Seq(Byte) /\ Len(SubSeq(ibuf, 1, e)) = e
    <3>1. \A i \in 1 .. e : ibuf[i] \in Byte
      BY <1>2, <1>4
    <3> QED
      BY <1>2, <1>7, <3>1, SubSeqProperties
  <2>3. PacketsForReader'
    BY <1>2, <1>7, <2>1, <2>2 DEF PacketsForReader
  <2>4. ibuf' \in Seq(Byte) /\ Len(ibuf') <= Len(ibuf)
    <3>1. e + 1 \in 1 .. Len(ibuf) + 1
      BY <1>2, <1>7
    <3>2. \A i \in e + 1 .. Len(ibuf) : ibuf[i] \in Byte
      BY <1>2, <1>4, <3>1
    <3>3. /\ SubSeq(ibuf, e + 1, Len(ibuf)) \in Seq(Byte)
          /\ Len(SubSeq(ibuf, e + 1, Len(ibuf))) =
               IF e + 1 <= Len(ibuf) THEN Len(ibuf) - (e + 1) + 1 ELSE 0
      BY <1>2, <3>1, <3>2, SubSeqProperties
    <3> QED
      BY <1>2, <2>1, <3>1, <3>3
  <2>5. Len(ibuf') \in Nat
    BY <2>4, LenProperties
  <2>6. BytesInv'
    BY <1>1, <1>2, <1>3, <2>4, <2>5 DEF BusInv, BytesInv
  <2>7. CallerInv'
    BY <1>1, <1>3, <2>1 DEF BusInv, CallerInv, Leave, Reading
  <2> QED
    BY <2>3, <2>6, <2>7 DEF BusInv
<1> QED
  BY <1>2, <1>5, <1>6, <1>7

LEMMA BusInvRead ==
  ASSUME BusInv, NEW n \in 1 .. MaxInput, ReadBytes(n)
  PROVE  BusInv'
<1>1. /\ n <= Len(wire) /\ ibuf' = ibuf \o SubSeq(wire, 1, n)
      /\ wire' = SubSeq(wire, n + 1, Len(wire))
      /\ UNCHANGED <<owner, threadVars, caller, registered, stream, got, dispatched>>
  BY DEF ReadBytes
<1>2. /\ ibuf \in Seq(Byte) /\ wire \in Seq(Byte) /\ Len(ibuf) \in Nat /\ Len(wire) \in Nat
      /\ Len(stream) \in Nat /\ n \in Nat \ {0}
  BY LenProperties, BusAssumption DEF BusInv, BytesInv
<1>3. \A i \in 1 .. Len(wire) : wire[i] \in Byte
  BY <1>2, ElementOfSeq
<1> DEFINE a == SubSeq(wire, 1, n)
           b == SubSeq(wire, n + 1, Len(wire))
<1>4. a \in Seq(Byte) /\ Len(a) = n
  <2>1. \A i \in 1 .. n : wire[i] \in Byte
    BY <1>1, <1>2, <1>3
  <2> QED
    BY <1>1, <1>2, <2>1, SubSeqProperties
<1>5. b \in Seq(Byte) /\ Len(b) = Len(wire) - n
  <2>1. \A i \in n + 1 .. Len(wire) : wire[i] \in Byte
    BY <1>1, <1>2, <1>3
  <2> QED
    BY <1>1, <1>2, <2>1, SubSeqProperties
<1> HIDE DEF a, b
<1>6. ibuf \o a \in Seq(Byte) /\ Len(ibuf \o a) = Len(ibuf) + n
  BY <1>2, <1>4, ConcatProperties
<1>7. /\ ibuf' \in Seq(Byte) /\ Len(ibuf') = Len(ibuf) + n
      /\ wire' \in Seq(Byte) /\ Len(wire') = Len(wire) - n
  BY <1>1, <1>5, <1>6 DEF a, b
<1>8. ibuf' # <<>>
  <2>1. Len(<<>>) = 0
    OBVIOUS
  <2> QED
    BY <1>2, <1>7, <2>1
<1>9. BytesInv'
  <2>1. Len(ibuf) + Len(wire) <= Len(stream) /\ Len(stream) <= MaxInput /\ stream \in Seq(Byte)
    BY DEF BusInv, BytesInv
  <2>2. Len(ibuf') + Len(wire') = Len(ibuf) + Len(wire)
    BY <1>2, <1>7
  <2>3. stream' = stream
    BY <1>1
  <2> QED
    BY <1>7, <2>1, <2>2, <2>3 DEF BytesInv
<1>10. CallerInv' /\ PacketsForReader'
  BY <1>1, <1>8 DEF BusInv, CallerInv, PacketsForReader, Reading
<1> QED
  BY <1>9, <1>10 DEF BusInv

LEMMA BusInvNext == BusInv /\ [Next]_vars => BusInv'
<1> SUFFICES ASSUME BusInv, [Next]_vars PROVE BusInv'
  OBVIOUS
<1>1. CASE Holder
  BY <1>1, BusInvEnds, BusInvFind, BusInvRead DEF Holder
<1>2. ASSUME NEW b \in Byte, DeviceSends(b) PROVE BusInv'
  BY <1>2, BusInvSends
<1>3. ASSUME NEW p \in Parsers, AddParser(p) \/ RemoveParser(p) PROVE BusInv'
  BY <1>3, BusInvParsers
<1>4. ASSUME NEW t \in Threads, NEW o \in {"read", "write"}, NEW p \in Parsers \cup {NoParser},
             Call(t, o, p) \/ ReadStarts(t) \/ WriteStarts(t)
      PROVE  BusInv'
  BY <1>4, BusInvCalls
<1>5. CASE UNCHANGED vars
  BY <1>5 DEF vars, BusInv, BytesInv, CallerInv, PacketsForReader, Reading
<1> QED
  BY <1>1, <1>2, <1>3, <1>4, <1>5 DEF Next

\* Whatever the other threads ask for, register, write and drop meanwhile: a read for a
\* parser returns what that parser takes for a packet.
THEOREM ReaderGetsItsPackets == Spec => []PacketsForReader
<1>1. BusInv => PacketsForReader
  BY DEF BusInv
<1> QED
  BY BusInvInit, BusInvNext, <1>1, PTL DEF Spec

-----------------------------------------------------------------------------
(* MockDevice.  One more message makes what the device has answered longer *)
(* by the reply to it.                                                     *)

\* What the first k of a sequence of sequences come to, defined along the sequence.
Joins(g, seqs, k) ==
  \A i \in 1 .. k : g[i] = IF i = 1 THEN seqs[i] ELSE g[i - 1] \o seqs[i]

LEMMA JoinExists ==
  ASSUME NEW S, NEW seqs \in Seq(Seq(S))
  PROVE  \A k \in 0 .. Len(seqs) : \E g \in [1 .. k -> Seq(S)] : Joins(g, seqs, k)
<1> DEFINE n == Len(seqs)
           Bad == {k \in 0 .. n : ~ \E g \in [1 .. k -> Seq(S)] : Joins(g, seqs, k)}
<1>1. n \in Nat /\ \A i \in 1 .. n : seqs[i] \in Seq(S)
  BY LenProperties
<1>2. SUFFICES ASSUME Bad # {} PROVE FALSE
  OBVIOUS
<1>3. PICK k \in Bad : \A j \in Bad : k <= j
  <2>1. Bad \in SUBSET Nat
    BY <1>1
  <2> HIDE DEF Bad
  <2> QED
    BY <1>2, <2>1, LeastElement
<1>4. k \in 0 .. n /\ ~ \E g \in [1 .. k -> Seq(S)] : Joins(g, seqs, k)
  BY <1>3
<1>5. CASE k = 0
  <2> DEFINE g == [i \in 1 .. 0 |-> <<>>]
  <2>1. g \in [1 .. 0 -> Seq(S)] /\ Joins(g, seqs, 0)
    BY DEF Joins
  <2> QED
    BY <1>4, <1>5, <2>1
<1>6. CASE k # 0
  <2> DEFINE j == k - 1
  <2>1. j \in 0 .. n /\ j + 1 = k /\ ~(k <= j)
    BY <1>1, <1>4, <1>6
  <2> HIDE DEF j
  <2>2. PICK g \in [1 .. j -> Seq(S)] : Joins(g, seqs, j)
    BY <1>3, <2>1
  <2> DEFINE v == IF k = 1 THEN seqs[k] ELSE g[k - 1] \o seqs[k]
             h == [i \in 1 .. k |-> IF i = k THEN v ELSE g[i]]
  <2>3. v \in Seq(S)
    <3>1. k \in 1 .. n /\ seqs[k] \in Seq(S)
      BY <1>1, <1>4, <1>6
    <3>2. CASE k = 1
      BY <3>1, <3>2
    <3>3. CASE k # 1
      <4>1. k - 1 \in 1 .. j
        BY <1>1, <2>1, <3>1, <3>3
      <4> QED
        BY <2>2, <3>1, <3>3, <4>1, ConcatProperties
    <3> QED
      BY <3>2, <3>3
  <2> HIDE DEF v
  <2>4. h \in [1 .. k -> Seq(S)]
    BY <1>1, <1>4, <2>1, <2>2, <2>3
  <2>5. ASSUME NEW i \in 1 .. k
        PROVE  h[i] = IF i = 1 THEN seqs[i] ELSE h[i - 1] \o seqs[i]
    <3>1. i # 1 => i - 1 \in 1 .. k /\ i - 1 # k /\ h[i - 1] = g[i - 1]
      BY <1>4
    <3>2. CASE i = k
      <4>1. h[i] = v
        BY <3>2
      <4> HIDE DEF h
      <4> QED
        BY <3>1, <3>2, <4>1 DEF v
    <3>3. CASE i # k
      <4>1. i \in 1 .. j /\ h[i] = g[i]
        BY <1>4, <2>1, <3>3
      <4>2. g[i] = IF i = 1 THEN seqs[i] ELSE g[i - 1] \o seqs[i]
        BY <2>2, <4>1 DEF Joins
      <4> HIDE DEF h
      <4> QED
        BY <3>1, <4>1, <4>2
    <3> QED
      BY <3>2, <3>3
  <2>6. Joins(h, seqs, k)
    BY <2>5 DEF Joins
  <2> HIDE DEF h
  <2> QED
    BY <1>4, <2>4, <2>6
<1> QED
  BY <1>5, <1>6

LEMMA JoinUnique ==
  ASSUME NEW seqs, NEW k \in Nat, NEW g, NEW h, Joins(g, seqs, k), Joins(h, seqs, k)
  PROVE  \A i \in 1 .. k : g[i] = h[i]
<1> DEFINE Bad == {i \in 1 .. k : g[i] # h[i]}
<1>2. SUFFICES ASSUME Bad # {} PROVE FALSE
  OBVIOUS
<1>3. PICK i \in Bad : \A j \in Bad : i <= j
  <2>1. Bad \in SUBSET Nat
    OBVIOUS
  <2> HIDE DEF Bad
  <2> QED
    BY <1>2, <2>1, LeastElement
<1>4. i \in 1 .. k /\ g[i] # h[i]
  BY <1>3
<1>5. CASE i = 1
  BY <1>4, <1>5 DEF Joins
<1>6. CASE i # 1
  <2>1. i - 1 \in 1 .. k /\ ~(i <= i - 1)
    BY <1>4, <1>6
  <2>2. g[i - 1] = h[i - 1]
    BY <1>3, <2>1
  <2> QED
    BY <1>4, <1>6, <2>2 DEF Joins
<1> QED
  BY <1>5, <1>6

\* FlattenSeq is what the sequences joined one after the other come to.
LEMMA FlattenJoins ==
  ASSUME NEW S, NEW seqs \in Seq(Seq(S)), NEW g, Joins(g, seqs, Len(seqs))
  PROVE  /\ Len(seqs) = 0 => Mock!FlattenSeq(seqs) = <<>>
         /\ Len(seqs) # 0 => Mock!FlattenSeq(seqs) = g[Len(seqs)]
<1> DEFINE n == Len(seqs)
           Value(f, i) == IF i = 1 THEN seqs[i] ELSE f[i - 1] \o seqs[i]
           flatten == CHOOSE f : f = [i \in 1 .. n |-> Value(f, i)]
<1>1. n \in Nat
  BY LenProperties
<1>2. CASE n = 0
  BY <1>2, EmptySeq DEF Mock!FlattenSeq
<1>3. CASE n # 0
  <2>1. PICK f \in [1 .. n -> Seq(S)] : Joins(f, seqs, n)
    <3>1. n \in 0 .. n
      BY <1>1
    <3> QED
      BY <3>1, JoinExists
  <2>2. f = [i \in 1 .. n |-> Value(f, i)]
    <3>1. \A i \in 1 .. n : f[i] = Value(f, i)
      BY <2>1 DEF Joins
    <3> HIDE DEF Value, n
    <3> QED
      BY <2>1, <3>1
  <2>3. flatten = [i \in 1 .. n |-> Value(flatten, i)]
    BY <2>2, Zenon
  <2>4. Mock!FlattenSeq(seqs) = flatten[n]
    BY <1>3, Zenon DEF Mock!FlattenSeq
  <2>5. Joins(flatten, seqs, n)
    <3> HIDE DEF flatten
    <3>1. \A i \in 1 .. n : flatten[i] = Value(flatten, i)
      BY <2>3
    <3> QED
      BY <3>1 DEF Joins
  <2> HIDE DEF flatten
  <2>6. n \in 0 .. n /\ n \in 1 .. n
    BY <1>1, <1>3
  <2>7. \A i \in 1 .. n : flatten[i] = g[i]
    <3>1. Joins(g, seqs, n)
      OBVIOUS
    <3> HIDE DEF n
    <3> QED
      BY <1>1, <2>5, <3>1, JoinUnique
  <2> QED
    BY <1>3, <2>4, <2>6, <2>7
<1> QED
  BY <1>2, <1>3

LEMMA FlattenAppend ==
  ASSUME NEW S, NEW seqs \in Seq(Seq(S)), NEW e \in Seq(S)
  PROVE  Mock!FlattenSeq(Append(seqs, e)) = Mock!FlattenSeq(seqs) \o e
<1> DEFINE n == Len(seqs)
           z == n + 1
           more == Append(seqs, e)
<1>1. /\ more \in Seq(Seq(S)) /\ Len(more) = z /\ more[z] = e
      /\ \A i \in 1 .. n : more[i] = seqs[i]
  BY LenProperties, AppendProperties
<1>2. n \in Nat /\ z \in Nat /\ z \in 1 .. z /\ z \in 0 .. z /\ z # 0 /\ (z = 1 <=> n = 0)
      /\ z - 1 = n /\ \A i \in 1 .. n : i \in 1 .. z
  BY LenProperties
<1> HIDE DEF more, z
<1>3. PICK g \in [1 .. z -> Seq(S)] : Joins(g, more, z)
  BY <1>1, <1>2, JoinExists
<1>4. \A i \in 1 .. z : g[i] = IF i = 1 THEN more[i] ELSE g[i - 1] \o more[i]
  BY <1>3, Zenon DEF Joins
<1>5. Joins(g, seqs, n)
  BY <1>1, <1>2, <1>4 DEF Joins
<1>6. Mock!FlattenSeq(more) = g[z]
  BY <1>1, <1>2, <1>3, FlattenJoins
<1>7. /\ n = 0 => Mock!FlattenSeq(seqs) = <<>>
      /\ n # 0 => Mock!FlattenSeq(seqs) = g[n]
  BY <1>5, FlattenJoins
<1> HIDE DEF n
<1>8. g[z] = IF z = 1 THEN more[z] ELSE g[z - 1] \o more[z]
  BY <1>2, <1>4, Zenon
<1>9. CASE n = 0
  <2>1. g[z] = e
    BY <1>1, <1>2, <1>8, <1>9
  <2> QED
    BY <1>6, <1>7, <1>9, <2>1, ConcatEmptySeq DEF more
<1>10. CASE n # 0
  <2>1. g[z] = g[n] \o e
    BY <1>1, <1>2, <1>8, <1>10
  <2> QED
    BY <1>6, <1>7, <1>10, <2>1 DEF more
<1> QED
  BY <1>9, <1>10

USE DEF Mock!streamVars, Mock!testVars, Mock!observers

\* What MockDevice assumes of its constants.
MockAssumption ==
  /\ Messages \cup Replies \subseteq Seq(Nat)
  /\ Frameworks \subseteq {"boost", "gtest"} /\ Closes \in BOOLEAN
  /\ MaxQueue \in Nat /\ MaxDepth \in Nat

\* The messages are made of bytes that some message is made of.
LEMMA MessageBytes ==
  ASSUME MockAssumption, NEW m \in Messages \cup Replies
  PROVE  m \in Seq(Mock!Bytes) /\ m \in Seq(Nat)
<1>1. m \in Seq(Nat) /\ Len(m) \in Nat /\ m = [i \in 1 .. Len(m) |-> m[i]]
  BY LenProperties DEF MockAssumption
<1>2. ASSUME NEW i \in 1 .. Len(m) PROVE m[i] \in Mock!Bytes
  <2>1. DOMAIN m = 1 .. Len(m)
    BY <1>1
  <2>2. m[i] \in Mock!Range(m)
    BY <2>1 DEF Mock!Range
  <2> QED
    BY <2>2 DEF Mock!Bytes
<1> QED
  BY <1>1, <1>2

\* The queues of the stream, and the types of what is only noted.
ObserverInv ==
  /\ accepted \in Seq(Messages) /\ asked \in Seq(Messages) /\ answers \in Seq(Replies)
  /\ mock => Len(accepted) <= Len(answers)

MockInv == Mock!TypeOK /\ ObserverInv /\ Mock!RepliesAreEarned

LEMMA EmptyQueues ==
  /\ <<>> \in Seq(Messages) /\ <<>> \in Seq(Replies) /\ <<>> \in Seq(Mock!Bytes)
  /\ Len(<<>>) = 0 /\ <<>> \o <<>> = <<>>
  /\ \A s \in Seq(Messages) \cup Seq(Replies) :
       SubSeq(s, 1, 0) = <<>> /\ <<>> \o s = s /\ Len(s) \in Nat
  /\ Mock!FlattenSeq(<<>>) = <<>>
<1>1. ASSUME NEW S, NEW s \in Seq(S)
      PROVE  SubSeq(s, 1, 0) = <<>> /\ <<>> \o s = s /\ Len(s) \in Nat
  BY SubSeqEmpty, ConcatEmptySeq, LenProperties
<1>2. Mock!FlattenSeq(<<>>) = <<>>
  BY DEF Mock!FlattenSeq
<1>3. \A s \in Seq(Messages) : SubSeq(s, 1, 0) = <<>> /\ <<>> \o s = s /\ Len(s) \in Nat
  BY <1>1
<1>4. \A s \in Seq(Replies) : SubSeq(s, 1, 0) = <<>> /\ <<>> \o s = s /\ Len(s) \in Nat
  BY <1>1
<1>5. <<>> \o <<>> = <<>>
  BY <1>1
<1> QED
  BY <1>2, <1>3, <1>4, <1>5

\* The driver and the test, as far as the types go.
LEMMA MockTypeNext ==
  ASSUME MockAssumption, Mock!TypeOK, [Mock!Next]_(Mock!vars)
  PROVE  Mock!TypeOK'
<1> USE DEF Mock!Results
<1>0. /\ <<>> \in Seq(Messages) /\ <<>> \in Seq(Replies) /\ <<>> \in Seq(Mock!Bytes)
      /\ Len(<<>>) = 0
  BY EmptyQueues
<1>1. ASSUME NEW m \in Messages, Mock!Write(m) PROVE Mock!TypeOK'
  <2>1. from_driver \o m \in Seq(Mock!Bytes)
    <3>1. from_driver \in Seq(Mock!Bytes) /\ m \in Seq(Mock!Bytes)
      BY MessageBytes DEF Mock!TypeOK
    <3> HIDE DEF Mock!Bytes
    <3> QED
      BY <3>1, ConcatProperties
  <2>2. CASE Mock!WriteExpected(m)
    <3>1. /\ expectations # <<>> /\ expectations \in Seq(Messages) /\ replies \in Seq(Replies)
          /\ Len(expectations) = Len(replies) /\ to_driver \in Seq(Mock!Bytes)
      BY <2>2 DEF Mock!WriteExpected, Mock!TypeOK
    <3>2. Len(expectations) # 0
      BY <3>1, EmptySeq
    <3>3. replies # <<>>
      BY <1>0, <3>1, <3>2
    <3>4. /\ Tail(expectations) \in Seq(Messages)
          /\ Len(Tail(expectations)) = Len(expectations) - 1
      BY <3>1, HeadTailProperties
    <3>5. /\ Tail(replies) \in Seq(Replies) /\ Len(Tail(replies)) = Len(replies) - 1
          /\ Head(replies) \in Replies
      BY <3>1, <3>3, HeadTailProperties
    <3>6. Head(replies) \in Seq(Mock!Bytes)
      BY <3>5, MessageBytes
    <3>7. to_driver \o Head(replies) \in Seq(Mock!Bytes)
      BY <3>1, <3>6, ConcatProperties
    <3>8. Len(Tail(expectations)) = Len(Tail(replies))
      BY <3>1, <3>4, <3>5
    <3> QED
      BY <1>0, <2>2, <3>4, <3>5, <3>7, <3>8 DEF Mock!WriteExpected, Mock!Pop, Mock!TypeOK
  <2>3. CASE Mock!WriteUnchecked(m)
    BY <2>1, <2>3 DEF Mock!WriteUnchecked, Mock!TypeOK
  <2>4. CASE Mock!WriteMismatch(m)
    BY <1>0, <2>1, <2>4 DEF Mock!WriteMismatch, Mock!TypeOK
  <2>5. CASE Mock!WriteUnexpected(m)
    BY <2>1, <2>5 DEF Mock!WriteUnexpected, Mock!TypeOK
  <2> QED
    BY <1>1, <2>2, <2>3, <2>4, <2>5 DEF Mock!Write
<1>2. CASE Mock!OpenTestMode \/ Mock!OpenURI \/ Mock!Close \/ Mock!ClearStream
  BY <1>0, <1>2 DEF Mock!OpenTestMode, Mock!OpenURI, Mock!Close, Mock!ClearStream, Mock!Fresh,
                    Mock!TypeOK
<1>3. ASSUME NEW n \in 1 .. Len(to_driver), Mock!Read(n) PROVE Mock!TypeOK'
  <2>1. to_driver \in Seq(Mock!Bytes) /\ Len(to_driver) \in Nat /\ n \in Nat
    <3>1. to_driver \in Seq(Mock!Bytes)
      BY DEF Mock!TypeOK
    <3>2. Len(to_driver) \in Nat
      BY <3>1, LenProperties
    <3> QED
      BY <3>1, <3>2
  <2>2. \A i \in n + 1 .. Len(to_driver) : i \in 1 .. Len(to_driver)
    BY <2>1
  <2>3. \A i \in n + 1 .. Len(to_driver) : to_driver[i] \in Mock!Bytes
    BY <2>1, <2>2, ElementOfSeq
  <2>4. SubSeq(to_driver, n + 1, Len(to_driver)) \in Seq(Mock!Bytes)
    <3>1. n + 1 \in Int /\ Len(to_driver) \in Int
      BY <2>1
    <3> QED
      BY <2>3, <3>1, SubSeqProperties
  <2> QED
    BY <1>3, <2>4 DEF Mock!Read, Mock!TypeOK
<1>4. ASSUME NEW d \in Replies, Mock!PushDataToDriver(d) PROVE Mock!TypeOK'
  <2>1. to_driver \in Seq(Mock!Bytes) /\ d \in Seq(Mock!Bytes)
    BY MessageBytes DEF Mock!TypeOK
  <2>2. to_driver \o d \in Seq(Mock!Bytes)
    BY <2>1, ConcatProperties
  <2> QED
    BY <1>4, <2>2 DEF Mock!PushDataToDriver, Mock!TypeOK
<1>5. ASSUME NEW e \in Messages, NEW r \in Replies, Mock!ExpectReply(e, r) PROVE Mock!TypeOK'
  <2>1. CASE mock
    <3>1. /\ expectations \in Seq(Messages) /\ replies \in Seq(Replies)
          /\ Len(expectations) = Len(replies)
      BY DEF Mock!TypeOK
    <3>2. Append(expectations, e) \in Seq(Messages)
          /\ Len(Append(expectations, e)) = Len(expectations) + 1
      BY <3>1, AppendProperties
    <3>3. Append(replies, r) \in Seq(Replies) /\ Len(Append(replies, r)) = Len(replies) + 1
      BY <3>1, AppendProperties
    <3>4. Len(Append(expectations, e)) = Len(Append(replies, r))
      BY <3>1, <3>2, <3>3
    <3> QED
      BY <1>5, <2>1, <3>2, <3>3, <3>4 DEF Mock!ExpectReply, Mock!TypeOK
  <2>2. CASE ~mock
    BY <1>5, <2>2 DEF Mock!ExpectReply, Mock!TypeOK
  <2> QED
    BY <2>1, <2>2
<1>6. CASE Mock!ReadDataFromDriver \/ Mock!ClearExpectations
  BY <1>0, <1>6 DEF Mock!ReadDataFromDriver, Mock!ClearExpectations, Mock!TypeOK
<1>7. MaxDepth \in Nat /\ depth \in 0 .. MaxDepth
  BY DEF MockAssumption, Mock!TypeOK
<1>8. CASE Mock!BeginContext \/ Mock!MockModeOn
  <2>1. Mock!BeginMock /\ (depth' = depth \/ (depth < MaxDepth /\ depth' = depth + 1))
    BY <1>8 DEF Mock!BeginContext, Mock!MockModeOn
  <2>2. depth' \in 0 .. MaxDepth
    BY <1>7, <2>1
  <2> QED
    BY <1>0, <2>1, <2>2 DEF Mock!BeginMock, Mock!SetMockMode, Mock!TypeOK
<1>9. CASE Mock!MockModeOff
  BY <1>0, <1>9 DEF Mock!MockModeOff, Mock!SetMockMode, Mock!TypeOK
<1>10. CASE Mock!EndContext
  <2>1. depth' \in 0 .. MaxDepth
    <3>1. depth > 0 /\ depth' = depth - 1
      BY <1>10 DEF Mock!EndContext
    <3> QED
      BY <1>7, <3>1
  <2>2. /\ result' \in Mock!Results
        /\ \/ UNCHANGED <<expectations, replies>>
           \/ expectations' = <<>> /\ replies' = <<>>
    BY <1>10 DEF Mock!EndContext, Mock!EndBoostContext, Mock!EndGTestContext, Mock!TearDown
  <2> QED
    BY <1>0, <1>10, <2>1, <2>2 DEF Mock!EndContext, Mock!SetMockMode, Mock!TypeOK
<1>11. ASSUME NEW flag \in BOOLEAN, Mock!SetEOF(flag) PROVE Mock!TypeOK'
  BY <1>11 DEF Mock!SetEOF, Mock!TypeOK
<1>12. CASE UNCHANGED Mock!vars
  BY <1>12 DEF Mock!vars, Mock!TypeOK
<1> QED
  BY <1>1, <1>2, <1>3, <1>4, <1>5, <1>6, <1>8, <1>9, <1>10, <1>11, <1>12 DEF Mock!Next

\* What has been taken from the front of a queue, and what is left of it.
LEMMA TakeOne ==
  ASSUME NEW S, NEW s \in Seq(S), NEW t \in Seq(S), t # <<>>
  PROVE  Append(s, Head(t)) \o Tail(t) = s \o t
<1>1. /\ Len(s) \in Nat /\ Len(t) \in Nat /\ Len(t) # 0
      /\ Head(t) \in S /\ Head(t) = t[1] /\ Tail(t) \in Seq(S) /\ Len(Tail(t)) = Len(t) - 1
      /\ \A i \in 1 .. Len(t) - 1 : Tail(t)[i] = t[i + 1]
  BY LenProperties, EmptySeq, HeadTailProperties
<1>2. /\ Append(s, Head(t)) \in Seq(S) /\ Len(Append(s, Head(t))) = Len(s) + 1
      /\ \A i \in 1 .. Len(s) : Append(s, Head(t))[i] = s[i]
      /\ Append(s, Head(t))[Len(s) + 1] = t[1]
  BY <1>1, AppendProperties
<1> DEFINE a == Append(s, Head(t))
           b == Tail(t)
<1>3. /\ a \in Seq(S) /\ b \in Seq(S) /\ Len(a) = Len(s) + 1 /\ Len(b) = Len(t) - 1
      /\ \A i \in 1 .. Len(s) : a[i] = s[i]
      /\ a[Len(s) + 1] = t[1]
      /\ \A i \in 1 .. Len(t) - 1 : b[i] = t[i + 1]
  BY <1>1, <1>2
<1> HIDE DEF a, b
<1>4. /\ a \o b \in Seq(S) /\ Len(a \o b) = Len(s) + Len(t)
      /\ \A i \in 1 .. Len(s) + Len(t) :
           (a \o b)[i] = IF i <= Len(s) + 1 THEN a[i] ELSE b[i - (Len(s) + 1)]
  <2>1. (Len(s) + 1) + (Len(t) - 1) = Len(s) + Len(t)
    BY <1>1
  <2>2. /\ a \o b \in Seq(S) /\ Len(a \o b) = Len(a) + Len(b)
        /\ \A i \in 1 .. Len(a) + Len(b) :
             (a \o b)[i] = IF i <= Len(a) THEN a[i] ELSE b[i - Len(a)]
    BY <1>3, ConcatProperties
  <2> QED
    BY <1>3, <2>1, <2>2
<1>5. /\ s \o t \in Seq(S) /\ Len(s \o t) = Len(s) + Len(t)
      /\ \A i \in 1 .. Len(s) + Len(t) :
           (s \o t)[i] = IF i <= Len(s) THEN s[i] ELSE t[i - Len(s)]
  BY <1>1, ConcatProperties
<1>6. ASSUME NEW i \in 1 .. Len(s) + Len(t) PROVE (a \o b)[i] = (s \o t)[i]
  <2>1. CASE i <= Len(s)
    BY <1>1, <1>3, <1>4, <1>5, <2>1
  <2>2. CASE i = Len(s) + 1
    BY <1>1, <1>3, <1>4, <1>5, <2>2
  <2>3. CASE i > Len(s) + 1
    <3>1. i - (Len(s) + 1) \in 1 .. Len(t) - 1 /\ i - (Len(s) + 1) + 1 = i - Len(s)
      BY <1>1, <2>3
    <3>2. b[i - (Len(s) + 1)] = t[i - Len(s)]
      BY <1>3, <3>1
    <3> QED
      BY <1>1, <1>4, <1>5, <2>3, <3>2
  <2>4. i <= Len(s) \/ i = Len(s) + 1 \/ i > Len(s) + 1
    <3>1. Len(s) \in Nat /\ Len(t) \in Nat
      BY <1>1
    <3>2. \A m, n \in Nat : \A j \in 1 .. m + n : j <= m \/ j = m + 1 \/ j > m + 1
      OBVIOUS
    <3> QED
      BY <3>1, <3>2
  <2> QED
    BY <2>1, <2>2, <2>3, <2>4
<1>7. a \o b = s \o t
  BY <1>4, <1>5, <1>6, SeqEqual
<1> QED
  BY <1>7 DEF a, b

\* The front of a queue, when it is given in two parts.
LEMMA FrontOf ==
  ASSUME NEW S, NEW s \in Seq(S), NEW t \in Seq(S)
  PROVE  SubSeq(s \o t, 1, Len(s)) = s /\ Len(s) <= Len(s \o t)
<1>1. /\ Len(s) \in Nat /\ Len(t) \in Nat
      /\ s \o t \in Seq(S) /\ Len(s \o t) = Len(s) + Len(t)
      /\ \A i \in 1 .. Len(s) : (s \o t)[i] = s[i]
  BY LenProperties, ConcatProperties
<1> DEFINE c == s \o t
           f == SubSeq(c, 1, Len(s))
<1>2. \A i \in 1 .. Len(s) : c[i] \in S
  BY <1>1, ElementOfSeq
<1>3. /\ f \in Seq(S) /\ Len(f) = Len(s) /\ \A i \in 1 .. Len(s) : f[i] = c[i]
  <2> HIDE DEF c
  <2>1. \A i \in 1 .. Len(s) : 1 + i - 1 = i
    BY <1>1
  <2> QED
    BY <1>1, <1>2, <2>1, SubSeqProperties
<1> HIDE DEF f
<1>4. f = s
  BY <1>1, <1>3, SeqEqual
<1> QED
  BY <1>1, <1>4 DEF f

\* The replies q are those to the messages that the device has accepted, and what the
\* device is still to accept and to answer is in its queues.
EarnedBy(q) ==
  /\ q \in Seq(Replies) /\ Len(q) = Len(accepted)
  /\ asked = accepted \o expectations /\ answers = q \o replies
  /\ answered = Mock!FlattenSeq(q)

LEMMA EarnedReplies ==
  ASSUME Mock!TypeOK, ObserverInv, Mock!RepliesAreEarned, mock
  PROVE  EarnedBy(SubSeq(answers, 1, Len(accepted)))
<1> DEFINE k == Len(accepted)
           q == SubSeq(answers, 1, k)
<1>1. /\ answers \in Seq(Replies) /\ k \in Nat /\ Len(answers) \in Nat /\ k <= Len(answers)
  BY LenProperties DEF ObserverInv
<1>2. \A i \in 1 .. k : answers[i] \in Replies
  BY <1>1, ElementOfSeq
<1>3. q \in Seq(Replies) /\ Len(q) = IF 1 <= k THEN k - 1 + 1 ELSE 0
  <2> HIDE DEF k
  <2> QED
    BY <1>1, <1>2, SubSeqProperties
<1>4. Len(q) = k
  BY <1>1, <1>3
<1>5. /\ asked = accepted \o expectations /\ answers = q \o replies
      /\ answered = Mock!FlattenSeq(q)
  BY DEF Mock!RepliesAreEarned
<1> QED
  BY <1>3, <1>4, <1>5 DEF EarnedBy

LEMMA MockInvInit ==
  ASSUME MockAssumption, Mock!Init
  PROVE  MockInv
<1>1. Mock!TypeOK
  <2>1. MaxDepth \in Nat /\ 0 \in 0 .. MaxDepth
    BY DEF MockAssumption
  <2> QED
    BY <2>1, EmptyQueues DEF Mock!Init, Mock!TypeOK, Mock!Results
<1>2. ObserverInv /\ Mock!RepliesAreEarned
  BY EmptyQueues DEF Mock!Init, ObserverInv, Mock!RepliesAreEarned
<1> QED
  BY <1>1, <1>2 DEF MockInv

\* A step after which the mock mode is off, or that leaves the queues and the notes alone.
LEMMA QuietStep ==
  ASSUME ObserverInv, Mock!RepliesAreEarned,
         \/ UNCHANGED <<Mock!observers, expectations, replies>> /\ (mock' => mock)
         \/ Mock!Forget /\ (mock' => expectations' = <<>> /\ replies' = <<>>)
  PROVE  ObserverInv' /\ Mock!RepliesAreEarned'
<1>1. CASE UNCHANGED <<Mock!observers, expectations, replies>> /\ (mock' => mock)
  BY <1>1 DEF ObserverInv, Mock!RepliesAreEarned
<1>2. CASE Mock!Forget /\ (mock' => expectations' = <<>> /\ replies' = <<>>)
  <2>1. /\ accepted' = <<>> /\ asked' = <<>> /\ answers' = <<>> /\ answered' = <<>>
    BY <1>2 DEF Mock!Forget
  <2>2. ObserverInv'
    BY <2>1, EmptyQueues DEF ObserverInv
  <2>3. ASSUME mock' PROVE Mock!RepliesAreEarned'
    <3>1. expectations' = <<>> /\ replies' = <<>>
      BY <1>2, <2>3
    <3>2. SubSeq(<<>>, 1, 0) = <<>> /\ <<>> \o <<>> = <<>> /\ Len(<<>>) = 0
          /\ Mock!FlattenSeq(<<>>) = <<>>
      BY EmptyQueues
    <3> QED
      BY <2>1, <3>1, <3>2 DEF Mock!RepliesAreEarned
  <2>4. ~mock' => Mock!RepliesAreEarned'
    BY DEF Mock!RepliesAreEarned
  <2> QED
    BY <2>2, <2>3, <2>4
<1> QED
  BY <1>1, <1>2

\* write() of what was expected: the front of both queues moves to what has been done.
LEMMA ExpectedStep ==
  ASSUME MockAssumption, MockInv, NEW m \in Messages, Mock!WriteExpected(m)
  PROVE  ObserverInv' /\ Mock!RepliesAreEarned'
<1> DEFINE q == SubSeq(answers, 1, Len(accepted))
           e == Head(expectations)
           r == Head(replies)
<1>1. /\ mock /\ mock' = mock /\ expectations # <<>> /\ from_driver \o m = e
      /\ expectations' = Tail(expectations) /\ replies' = Tail(replies)
      /\ accepted' = Append(accepted, from_driver \o m) /\ answered' = answered \o r
      /\ asked' = asked /\ answers' = answers
  BY DEF Mock!WriteExpected, Mock!Matches, Mock!Pop
<1>2. /\ Mock!TypeOK /\ ObserverInv /\ Mock!RepliesAreEarned
      /\ expectations \in Seq(Messages) /\ replies \in Seq(Replies)
      /\ Len(expectations) = Len(replies)
      /\ accepted \in Seq(Messages) /\ asked \in Seq(Messages) /\ answers \in Seq(Replies)
  BY DEF MockInv, Mock!TypeOK, ObserverInv
<1>3. EarnedBy(q)
  BY <1>1, <1>2, EarnedReplies
<1> HIDE DEF q
<1>4. replies # <<>>
  <2>1. Len(expectations) # 0 /\ Len(<<>>) = 0
    BY <1>1, <1>2, EmptySeq
  <2> QED
    BY <1>2, <2>1
<1>5. e \in Messages /\ r \in Replies /\ Tail(replies) \in Seq(Replies)
  BY <1>1, <1>2, <1>4, HeadTailProperties
<1>6. accepted' = Append(accepted, e) /\ accepted' \in Seq(Messages)
      /\ Len(accepted') = Len(accepted) + 1
  <2>1. accepted' = Append(accepted, e)
    BY <1>1
  <2> HIDE DEF e
  <2> QED
    BY <1>2, <1>5, <2>1, AppendProperties
<1>7. Append(q, r) \in Seq(Replies) /\ Len(Append(q, r)) = Len(accepted')
  <2> HIDE DEF r
  <2> QED
    BY <1>3, <1>5, <1>6, AppendProperties DEF EarnedBy
<1>8. asked' = accepted' \o expectations'
  <2>1. Append(accepted, e) \o Tail(expectations) = accepted \o expectations
    BY <1>1, <1>2, TakeOne
  <2> QED
    BY <1>1, <1>3, <1>6, <2>1 DEF EarnedBy
<1>9. answers' = Append(q, r) \o replies'
  <2>1. Append(q, r) \o Tail(replies) = q \o replies
    BY <1>2, <1>3, <1>4, TakeOne DEF EarnedBy
  <2> QED
    BY <1>1, <1>3, <2>1 DEF EarnedBy
<1>10. answered' = Mock!FlattenSeq(Append(q, r))
  <2>1. q \in Seq(Seq(Nat)) /\ r \in Seq(Nat)
    <3>1. Replies \subseteq Seq(Nat)
      BY DEF MockAssumption
    <3> HIDE DEF r
    <3> QED
      BY <1>3, <1>5, <3>1, SeqMonotonic DEF EarnedBy
  <2> HIDE DEF r
  <2>2. Mock!FlattenSeq(Append(q, r)) = Mock!FlattenSeq(q) \o r
    BY <2>1, FlattenAppend
  <2>3. answered' = answered \o r
    BY <1>1 DEF r
  <2> QED
    BY <1>3, <2>2, <2>3 DEF EarnedBy
<1> DEFINE p == Append(q, r)
<1> HIDE DEF p
<1>11. /\ p \in Seq(Replies) /\ Len(p) = Len(accepted') /\ replies' \in Seq(Replies)
       /\ answers' = p \o replies' /\ answered' = Mock!FlattenSeq(p)
  BY <1>1, <1>5, <1>7, <1>9, <1>10 DEF p
<1>12. SubSeq(answers', 1, Len(accepted')) = p /\ Len(accepted') <= Len(answers')
  BY <1>11, FrontOf
<1>13. ObserverInv'
  BY <1>1, <1>2, <1>6, <1>12 DEF ObserverInv
<1>14. Mock!RepliesAreEarned'
  BY <1>8, <1>11, <1>12 DEF Mock!RepliesAreEarned
<1> QED
  BY <1>13, <1>14

\* EXPECT_REPLY in mock mode: both queues grow at their ends.
LEMMA ExpectStep ==
  ASSUME MockInv, NEW e \in Messages, NEW r \in Replies, mock, Mock!ExpectReply(e, r)
  PROVE  ObserverInv' /\ Mock!RepliesAreEarned'
<1> DEFINE q == SubSeq(answers, 1, Len(accepted))
<1>1. /\ mock' = mock
      /\ expectations' = Append(expectations, e) /\ replies' = Append(replies, r)
      /\ asked' = Append(asked, e) /\ answers' = Append(answers, r)
      /\ accepted' = accepted /\ answered' = answered
  BY DEF Mock!ExpectReply
<1>2. /\ Mock!TypeOK /\ ObserverInv /\ Mock!RepliesAreEarned
      /\ expectations \in Seq(Messages) /\ replies \in Seq(Replies)
      /\ accepted \in Seq(Messages) /\ asked \in Seq(Messages) /\ answers \in Seq(Replies)
  BY DEF MockInv, Mock!TypeOK, ObserverInv
<1>3. EarnedBy(q)
  BY <1>2, EarnedReplies
<1> HIDE DEF q
<1>4. asked' \in Seq(Messages) /\ answers' \in Seq(Replies) /\ replies' \in Seq(Replies)
  BY <1>1, <1>2, AppendProperties
<1>5. asked' = accepted' \o expectations'
  <2> DEFINE u == <<e>>
  <2>1. u \in Seq(Messages) /\ asked' = asked \o u /\ expectations' = expectations \o u
    BY <1>1, <1>2, AppendIsConcat
  <2> HIDE DEF u
  <2>2. asked = accepted \o expectations
    BY <1>3 DEF EarnedBy
  <2>3. accepted \in Seq(Messages) /\ expectations \in Seq(Messages) /\ u \in Seq(Messages)
    BY <1>2, <2>1
  <2>4. (accepted \o expectations) \o u = accepted \o (expectations \o u)
    BY <2>3, ConcatAssociative, SMTT(30)
  <2> QED
    BY <1>1, <2>1, <2>2, <2>4
<1>6. answers' = q \o replies'
  <2> DEFINE u == <<r>>
  <2>1. u \in Seq(Replies) /\ answers' = answers \o u /\ replies' = replies \o u
    BY <1>1, <1>2, AppendIsConcat
  <2> HIDE DEF u
  <2>2. q \in Seq(Replies) /\ answers = q \o replies
    BY <1>3 DEF EarnedBy
  <2>3. (q \o replies) \o u = q \o (replies \o u)
    BY <1>2, <2>1, <2>2, ConcatAssociative, SMTT(30)
  <2> QED
    BY <2>1, <2>2, <2>3
<1>7. q \in Seq(Replies) /\ Len(q) = Len(accepted') /\ answered' = Mock!FlattenSeq(q)
  BY <1>1, <1>3 DEF EarnedBy
<1>8. SubSeq(answers', 1, Len(accepted')) = q /\ Len(accepted') <= Len(answers')
  BY <1>4, <1>6, <1>7, FrontOf
<1>9. ObserverInv'
  BY <1>1, <1>2, <1>4, <1>8 DEF ObserverInv
<1>10. Mock!RepliesAreEarned'
  BY <1>5, <1>6, <1>7, <1>8 DEF Mock!RepliesAreEarned
<1> QED
  BY <1>9, <1>10

\* A new context: nothing has been accepted, and what is left expected counts as asked.
LEMMA BeginStep ==
  ASSUME Mock!TypeOK, Mock!BeginMock
  PROVE  ObserverInv' /\ Mock!RepliesAreEarned'
<1>1. /\ accepted' = <<>> /\ answered' = <<>> /\ asked' = expectations' /\ answers' = replies'
      /\ expectations' \in Seq(Messages) /\ replies' \in Seq(Replies)
  BY DEF Mock!BeginMock, Mock!TypeOK
<1>2. /\ Len(<<>>) = 0 /\ <<>> \in Seq(Messages) /\ Mock!FlattenSeq(<<>>) = <<>>
      /\ \A s \in Seq(Messages) \cup Seq(Replies) :
           SubSeq(s, 1, 0) = <<>> /\ <<>> \o s = s /\ Len(s) \in Nat
  BY EmptyQueues
<1>3. /\ SubSeq(answers', 1, 0) = <<>> /\ <<>> \o replies' = replies'
      /\ <<>> \o expectations' = expectations' /\ 0 <= Len(answers')
  BY <1>1, <1>2
<1> QED
  BY <1>1, <1>2, <1>3 DEF ObserverInv, Mock!RepliesAreEarned

LEMMA MockInvNext ==
  ASSUME MockAssumption, MockInv, [Mock!Next]_(Mock!vars)
  PROVE  MockInv'
<1>1. Mock!TypeOK /\ ObserverInv /\ Mock!RepliesAreEarned
  BY DEF MockInv
<1>2. Mock!TypeOK'
  BY <1>1, MockTypeNext
<1>3. SUFFICES ObserverInv' /\ Mock!RepliesAreEarned'
  BY <1>2 DEF MockInv
<1>4. ASSUME NEW m \in Messages, Mock!Write(m) PROVE ObserverInv' /\ Mock!RepliesAreEarned'
  <2>1. CASE Mock!WriteExpected(m)
    BY <2>1, ExpectedStep
  <2>2. CASE Mock!WriteUnchecked(m) \/ Mock!WriteUnexpected(m)
    BY <1>1, <2>2, QuietStep DEF Mock!WriteUnchecked, Mock!WriteUnexpected
  <2>3. CASE Mock!WriteMismatch(m)
    BY <1>1, <2>3, QuietStep DEF Mock!WriteMismatch
  <2> QED
    BY <1>4, <2>1, <2>2, <2>3 DEF Mock!Write
<1>5. CASE Mock!OpenTestMode \/ Mock!Close \/ Mock!ClearExpectations
  BY <1>1, <1>5, QuietStep DEF Mock!OpenTestMode, Mock!Close, Mock!Fresh,
                               Mock!ClearExpectations
<1>6. CASE Mock!OpenURI \/ Mock!ClearStream \/ Mock!ReadDataFromDriver
  BY <1>1, <1>6, QuietStep DEF Mock!OpenURI, Mock!ClearStream, Mock!ReadDataFromDriver
<1>7. ASSUME NEW n \in 1 .. Len(to_driver), Mock!Read(n)
      PROVE  ObserverInv' /\ Mock!RepliesAreEarned'
  BY <1>1, <1>7, QuietStep DEF Mock!Read
<1>8. ASSUME NEW d \in Replies, Mock!PushDataToDriver(d)
      PROVE  ObserverInv' /\ Mock!RepliesAreEarned'
  BY <1>1, <1>8, QuietStep DEF Mock!PushDataToDriver
<1>9. ASSUME NEW e \in Messages, NEW r \in Replies, Mock!ExpectReply(e, r)
      PROVE  ObserverInv' /\ Mock!RepliesAreEarned'
  <2>1. CASE mock
    BY <1>9, <2>1, ExpectStep
  <2>2. CASE ~mock
    BY <1>1, <1>9, <2>2, QuietStep DEF Mock!ExpectReply
  <2> QED
    BY <2>1, <2>2
<1>10. CASE Mock!BeginContext \/ Mock!MockModeOn
  BY <1>1, <1>10, BeginStep DEF Mock!BeginContext, Mock!MockModeOn
<1>11. CASE Mock!EndContext \/ Mock!MockModeOff
  BY <1>1, <1>11, QuietStep DEF Mock!EndContext, Mock!MockModeOff, Mock!SetMockMode
<1>12. ASSUME NEW flag \in BOOLEAN, Mock!SetEOF(flag)
      PROVE  ObserverInv' /\ Mock!RepliesAreEarned'
  BY <1>1, <1>12, QuietStep DEF Mock!SetEOF
<1>13. CASE UNCHANGED Mock!vars
  BY <1>1, <1>13, QuietStep DEF Mock!vars
<1> QED
  BY <1>4, <1>5, <1>6, <1>7, <1>8, <1>9, <1>10, <1>11, <1>12, <1>13 DEF Mock!Next

\* The queues of TestStream hold bytes, messages and replies, an expectation for each
\* reply, and a stream that is closed is neither in mock mode nor at its end.
THEOREM MockTypeCorrect ==
  ASSUME MockAssumption
  PROVE  Mock!Spec => []Mock!TypeOK
<1>1. Mock!Init => MockInv
  BY MockInvInit
<1>2. MockInv /\ [Mock!Next]_(Mock!vars) => MockInv'
  BY MockInvNext
<1>3. MockInv => Mock!TypeOK
  BY DEF MockInv
<1> QED
  BY <1>1, <1>2, <1>3, PTL DEF Mock!Spec

\* In mock mode (TestStream::write), what has been accepted is the front of what was
\* expected, the answers are the replies to it and to nothing else, and the device
\* expects the rest: for any messages, queues and nesting of mock contexts.
THEOREM DeviceAnswersWhatItExpects ==
  ASSUME MockAssumption
  PROVE  Mock!Spec => []Mock!RepliesAreEarned
<1>1. Mock!Init => MockInv
  BY MockInvInit
<1>2. MockInv /\ [Mock!Next]_(Mock!vars) => MockInv'
  BY MockInvNext
<1>3. MockInv => Mock!RepliesAreEarned
  BY DEF MockInv
<1> QED
  BY <1>1, <1>2, <1>3, PTL DEF Mock!Spec
=============================================================================
