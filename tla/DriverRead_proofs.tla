-------------------------- MODULE DriverRead_proofs --------------------------
(***************************************************************************)
(* Theorems about DriverRead, for every extractor that keeps to its        *)
(* contract, every buffer size and every input.                            *)
(***************************************************************************)
EXTENDS FindPacketRef, TLAPS, SequenceTheorems, WellFoundedInduction, NaturalsInduction

-----------------------------------------------------------------------------
(* Lemmas on the sequence operators the model is built from. *)

\* memmove in pullBytesFromInternal: what remains is the buffer shifted by n.
LEMMA DropFirstProperties ==
  ASSUME NEW S, NEW s \in Seq(S), NEW n \in 0 .. Len(s)
  PROVE  /\ DropFirst(s, n) \in Seq(S)
         /\ Len(DropFirst(s, n)) = Len(s) - n
         /\ \A i \in 1 .. Len(s) - n : DropFirst(s, n)[i] = s[i + n]
<1>1. Len(s) \in Nat
  BY LenProperties
<1>2. ASSUME NEW i \in n + 1 .. Len(s) PROVE s[i] \in S
  BY <1>1, LenProperties
<1>3. /\ SubSeq(s, n + 1, Len(s)) \in Seq(S)
      /\ Len(SubSeq(s, n + 1, Len(s))) =
           IF n + 1 <= Len(s) THEN Len(s) - (n + 1) + 1 ELSE 0
      /\ \A i \in 1 .. Len(s) - (n + 1) + 1 :
           SubSeq(s, n + 1, Len(s))[i] = s[n + 1 + i - 1]
  BY <1>1, <1>2, SubSeqProperties
<1> QED
  BY <1>1, <1>3 DEF DropFirst

\* A prefix or slice of a sequence.
LEMMA SliceProperties ==
  ASSUME NEW S, NEW s \in Seq(S), NEW m \in Nat, NEW n \in m .. Len(s)
  PROVE  /\ SubSeq(s, m + 1, n) \in Seq(S)
         /\ Len(SubSeq(s, m + 1, n)) = n - m
         /\ \A i \in 1 .. n - m : SubSeq(s, m + 1, n)[i] = s[m + i]
<1>1. Len(s) \in Nat
  BY LenProperties
<1>2. ASSUME NEW i \in m + 1 .. n PROVE s[i] \in S
  BY <1>1, LenProperties
<1>3. /\ SubSeq(s, m + 1, n) \in Seq(S)
      /\ Len(SubSeq(s, m + 1, n)) = IF m + 1 <= n THEN n - (m + 1) + 1 ELSE 0
      /\ \A i \in 1 .. n - (m + 1) + 1 : SubSeq(s, m + 1, n)[i] = s[m + 1 + i - 1]
  BY <1>1, <1>2, SubSeqProperties
<1> QED
  BY <1>1, <1>3
-----------------------------------------------------------------------------
(* Type correctness.  The sizes findPacket works with must be known to fit *)
(* the internal buffer before the buffer is known to stay within its size, *)
(* so the two are proved together.                                         *)

FindInv ==
  /\ pc = "scan" => find.at < Len(ibuf)
  /\ pc = "pull" => find.at <= Len(ibuf)
  /\ pc \in {"scan", "pull"} => find.start + find.size <= find.at
  /\ pc = "scan" /\ ~extractLast => find.size = 0

TypeInv == TypeOK /\ FindInv

\* findPacket never calls extractPacket on an empty buffer, and gets an answer
\* within the contract.
LEMMA LevelProperties ==
  ASSUME TypeInv, pc = "scan"
  PROVE  /\ Level \in Seq(Byte)
         /\ Len(Level) = Len(ibuf) - find.at
         /\ Len(Level) \in 1 .. MAX
         /\ ExtractPacket(Level) \in Int
         /\ ExtractPacket(Level) >= -Len(Level)
<1>1. ibuf \in Seq(Byte) /\ Len(ibuf) \in Nat /\ Len(ibuf) <= MAX /\ MAX \in Nat
  BY LenProperties, SizeAssumption DEF TypeInv, TypeOK
<1>2. find.at \in Nat /\ find.at < Len(ibuf)
  BY DEF TypeInv, TypeOK, FindInv
<1>3. Level \in Seq(Byte) /\ Len(Level) = Len(ibuf) - find.at
  <2>1. find.at \in 0 .. Len(ibuf)
    BY <1>1, <1>2
  <2> QED
    BY <1>1, <2>1, DropFirstProperties DEF Level
<1>4. Len(Level) \in 1 .. MAX
  BY <1>1, <1>2, <1>3
<1>5. Level \in [1 .. Len(Level) -> Byte]
  BY <1>3, LenProperties
<1>6. ExtractPacket(Level) \in Int /\ ExtractPacket(Level) >= -Len(Level)
  BY <1>4, <1>5, ExtractAssumption
<1> QED
  BY <1>3, <1>4, <1>6

FindType == [at : Nat, start : Nat, size : Nat]

LEMMA NoFindType == NoFind \in FindType /\ NoFind.at = 0 /\ NoFind.start = 0 /\ NoFind.size = 0
BY DEF NoFind, FindType

LEMMA TypeInvInit == Init => TypeInv
<1> SUFFICES ASSUME Init PROVE TypeInv
  OBVIOUS
<1>1. <<>> \in Seq(Byte) /\ Len(<<>>) = 0
  OBVIOUS
<1>2. find \in FindType
  BY NoFindType DEF Init
<1>3. extractLast \in BOOLEAN
  BY ChoiceAssumption, Zenon DEF Init
<1>4. Len(ibuf) <= MAX
  BY <1>1, SizeAssumption DEF Init
<1>5. TypeOK
  <2>1. pc \in {"idle", "scan", "pull", "read", "decide", "wait"} /\ cont \in Conts
        /\ result \in Outcomes /\ ttype \in {"FIRST_BYTE", "PACKET"}
    BY DEF Init, Conts, Outcomes
  <2>2. /\ ibuf \in Seq(Byte) /\ out \in Seq(Byte) /\ wire \in Seq(Byte)
        /\ readLog \in Seq(Byte)
    BY <1>1 DEF Init
  <2>3. /\ received \in BOOLEAN /\ valid \in BOOLEAN /\ eof \in BOOLEAN
        /\ peerClosed \in BOOLEAN
    BY DEF Init
  <2> QED
    BY <1>2, <1>3, <1>4, <2>1, <2>2, <2>3 DEF Init, TypeOK, FindType
<1>6. FindInv
  BY DEF Init, FindInv
<1> QED
  BY <1>5, <1>6 DEF TypeInv

\* The four ways a level of findPacket ends.
LEMMA TypeInvFind == TypeInv /\ FindPacket => TypeInv'
<1> SUFFICES ASSUME TypeInv, FindPacket PROVE TypeInv'
  OBVIOUS
<1> USE DEF driverVars, callVars, streamVars, ghostVars
<1> DEFINE r == ExtractPacket(Level)
<1>1. pc = "scan"
  BY DEF FindPacket, FindTooLong, FindIncomplete, FindGarbage, FindComplete
<1>2. /\ find \in FindType
      /\ find.at \in Nat /\ find.start \in Nat /\ find.size \in Nat
  BY DEF TypeInv, TypeOK, FindType
<1>3. /\ Len(ibuf) \in Nat
      /\ Len(Level) = Len(ibuf) - find.at
      /\ r \in Int /\ r >= -(Len(ibuf) - find.at)
  BY <1>1, LevelProperties, LenProperties DEF TypeInv, TypeOK
<1>4. /\ find.at < Len(ibuf)
      /\ find.start + find.size <= find.at
      /\ ~extractLast => find.size = 0
  BY <1>1 DEF TypeInv, FindInv
<1>5. CASE FindTooLong
  BY <1>5, NoFindType
  DEF FindTooLong, Return, TypeInv, TypeOK, FindInv, FindType, Outcomes
<1>6. CASE FindIncomplete
  BY <1>1, <1>2, <1>3, <1>4, <1>6 DEF FindIncomplete, TypeInv, TypeOK, FindInv
<1>7. CASE FindGarbage
  <2> DEFINE at == find.at - r
             start == IF extractLast /\ find.at > 0 THEN find.start ELSE at
  <2>1. /\ r < 0
        /\ find' = [find EXCEPT !.at = at, !.start = start]
        /\ bad' = IF extractLast THEN bad - r ELSE bad
        /\ pc' = IF at < Len(ibuf) THEN "scan" ELSE "pull"
    BY <1>2, <1>3, <1>7 DEF FindGarbage, TypeInv, TypeOK
  <2> HIDE DEF r
  <2>2. at \in Nat /\ at <= Len(ibuf) /\ start \in Nat /\ start + find.size <= at
    BY <1>2, <1>3, <1>4, <2>1, SMTT(30)
  <2> HIDE DEF at, start
  <2>3. find' \in FindType /\ find'.at = at /\ find'.start = start
        /\ find'.size = find.size
    BY <1>2, <2>1, <2>2 DEF FindType
  <2>4. bad' \in Nat
    BY <1>3, <2>1, SMTT(30) DEF TypeInv, TypeOK
  <2>5. TypeOK'
    BY <1>7, <2>1, <2>3, <2>4 DEF FindGarbage, TypeInv, TypeOK, FindType
  <2>6. FindInv'
    BY <1>4, <1>7, <2>1, <2>2, <2>3 DEF FindGarbage, FindInv
  <2> QED
    BY <2>5, <2>6 DEF TypeInv
<1>8. CASE FindComplete
  <2> DEFINE at == find.at + r
  <2>1. /\ r \in 1 .. Len(ibuf) - find.at
        /\ find' = [at |-> at, start |-> find.at, size |-> r]
        /\ good' = IF extractLast THEN good + r ELSE good
        /\ pc' = IF extractLast /\ at < Len(ibuf) THEN "scan" ELSE "pull"
    BY <1>3, <1>8 DEF FindComplete
  <2> HIDE DEF r
  <2>2. find' \in FindType /\ find'.at = at /\ find'.start = find.at
        /\ find'.size = r /\ at \in Nat /\ at <= Len(ibuf)
    BY <1>2, <1>3, <2>1 DEF FindType
  <2>3. good' \in Nat
    BY <2>1 DEF TypeInv, TypeOK
  <2>4. TypeOK'
    BY <1>8, <2>1, <2>2, <2>3 DEF FindComplete, TypeInv, TypeOK, FindType
  <2>5. FindInv'
    BY <1>2, <1>3, <1>8, <2>1, <2>2 DEF FindComplete, FindInv
  <2> QED
    BY <2>4, <2>5 DEF TypeInv
<1> QED
  BY <1>5, <1>6, <1>7, <1>8 DEF FindPacket
\* The operators that make up the other steps keep the types they touch.
LEMMA EnterReadInternalType ==
  ASSUME TypeInv, EnterReadInternal, UNCHANGED ibuf, UNCHANGED extractLast
  PROVE  /\ pc' \in {"read", "scan"} /\ cont' \in Conts /\ find' \in FindType
         /\ FindInv'
<1>1. ibuf # <<>> => Len(ibuf) > 0
  BY EmptySeq, LenProperties DEF TypeInv, TypeOK
<1>2. CASE ibuf = <<>>
  BY <1>2 DEF EnterReadInternal, TypeInv, TypeOK, FindInv, FindType
<1>3. CASE ibuf # <<>>
  BY <1>1, <1>3, NoFindType DEF EnterReadInternal, StartFind, FindInv, Conts
<1> QED
  BY <1>2, <1>3

LEMMA PullBytesType ==
  ASSUME TypeInv, pc = "pull", PullBytes
  PROVE  /\ ibuf' \in Seq(Byte) /\ out' \in Seq(Byte)
         /\ Len(ibuf') = Len(ibuf) - (find.start + find.size)
         /\ Len(ibuf') \in Nat /\ Len(ibuf') <= MAX
         /\ good' \in Nat /\ bad' \in Nat
<1>1. /\ ibuf \in Seq(Byte) /\ Len(ibuf) \in Nat /\ Len(ibuf) <= MAX /\ MAX \in Nat
      /\ find.at \in Nat /\ find.start \in Nat /\ find.size \in Nat
      /\ find.start + find.size <= find.at /\ find.at <= Len(ibuf)
  BY LenProperties, SizeAssumption DEF TypeInv, TypeOK, FindInv
<1>2. /\ find.start + find.size \in 0 .. Len(ibuf)
      /\ find.start + find.size \in find.start .. Len(ibuf)
  BY <1>1
<1>3. ibuf' \in Seq(Byte) /\ Len(ibuf') = Len(ibuf) - (find.start + find.size)
  BY <1>1, <1>2, DropFirstProperties DEF PullBytes
<1>4. SubSeq(ibuf, find.start + 1, find.start + find.size) \in Seq(Byte)
  BY <1>1, <1>2, SliceProperties
<1>5. out' \in Seq(Byte)
  BY <1>4 DEF PullBytes, TypeInv, TypeOK
<1>6. good' \in Nat /\ bad' \in Nat
  BY <1>1, SMTT(30) DEF PullBytes, TypeInv, TypeOK
<1> QED
  BY <1>1, <1>2, <1>3, <1>5, <1>6

\* doPacketExtraction, on behalf of each of its callers, and hasPacket.
LEMMA TypeInvExtract ==
  TypeInv /\ (ExtractOnEntry \/ ExtractAfterRead \/ ExtractWithoutStream \/ HasPacketReturns)
    => TypeInv'
<1> SUFFICES ASSUME TypeInv,
                    ExtractOnEntry \/ ExtractAfterRead \/ ExtractWithoutStream
                      \/ HasPacketReturns
             PROVE  TypeInv'
  OBVIOUS
<1> USE DEF streamVars, ghostVars
<1>1. pc = "pull"
  BY DEF ExtractOnEntry, ExtractAfterRead, ExtractWithoutStream, HasPacketReturns
<1>2. CASE ExtractOnEntry
  <2>1. PullBytes /\ pc' \in {"idle", "read"} /\ result' \in Outcomes
    BY <1>2 DEF ExtractOnEntry, Return, TypeInv, TypeOK, Outcomes
  <2>2. TypeOK'
    BY <1>1, <1>2, <2>1, PullBytesType, NoFindType
    DEF ExtractOnEntry, PullBytes, TypeInv, TypeOK, FindType
  <2> QED
    BY <2>1, <2>2 DEF TypeInv, FindInv
<1>3. CASE ExtractAfterRead
  <2>1. PullBytes /\ pc' \in {"idle", "read"} /\ result' \in Outcomes
    BY <1>3 DEF ExtractAfterRead, Return, TypeInv, TypeOK, Outcomes
  <2>2. TypeOK'
    BY <1>1, <1>3, <2>1, PullBytesType, NoFindType
    DEF ExtractAfterRead, PullBytes, TypeInv, TypeOK, FindType
  <2> QED
    BY <2>1, <2>2 DEF TypeInv, FindInv
<1>4. CASE ExtractWithoutStream
  <2>1. PullBytes /\ find' = NoFind /\ result' \in Outcomes /\ cont' \in Conts
    BY <1>4 DEF ExtractWithoutStream, Return, StartFind, TypeInv, TypeOK, Outcomes, Conts
  <2>2. pc' \in {"idle", "scan"} /\ (pc' = "scan" => ibuf' # <<>>)
    BY <1>4 DEF ExtractWithoutStream, Return, StartFind
  <2>3. TypeOK'
    BY <1>1, <1>4, <2>1, <2>2, PullBytesType, NoFindType
    DEF ExtractWithoutStream, PullBytes, TypeInv, TypeOK, FindType
  <2>4. ibuf' # <<>> => Len(ibuf') > 0
    BY <1>1, <2>1, PullBytesType, EmptySeq
  <2>5. FindInv'
    BY <2>1, <2>2, <2>4, NoFindType DEF FindInv
  <2> QED
    BY <2>3, <2>5 DEF TypeInv
<1>5. CASE HasPacketReturns
  <2>1. TypeOK'
    BY <1>5, NoFindType DEF HasPacketReturns, Return, TypeInv, TypeOK, FindType, Outcomes
  <2>2. FindInv'
    BY <1>5 DEF HasPacketReturns, Return, FindInv
  <2> QED
    BY <2>1, <2>2 DEF TypeInv
<1> QED
  BY <1>2, <1>3, <1>4, <1>5
\* A read takes no more than there is room for, so the buffer never overflows.
LEMMA ReadBytesType ==
  ASSUME TypeInv, ReadBytes
  PROVE  \E n \in 1 .. Len(wire) :
           /\ n <= MAX - Len(ibuf)
           /\ SubSeq(wire, 1, n) \in Seq(Byte) /\ Len(SubSeq(wire, 1, n)) = n
           /\ ibuf' = ibuf \o SubSeq(wire, 1, n)
           /\ readLog' = readLog \o SubSeq(wire, 1, n)
           /\ wire' = DropFirst(wire, n)
<1> DEFINE n == Min2(Room, Len(wire))
<1>1. wire \in Seq(Byte) /\ Len(wire) \in Nat /\ Len(ibuf) \in Nat /\ MAX \in Nat
  BY LenProperties, SizeAssumption DEF TypeInv, TypeOK
<1>2. wire # <<>> /\ Room > 0
  BY DEF ReadBytes
<1>3. Len(wire) > 0
  BY <1>1, <1>2, EmptySeq
<1>4. n \in 1 .. Len(wire) /\ n <= MAX - Len(ibuf)
  BY <1>1, <1>2, <1>3 DEF Min2, Room
<1>5. /\ ibuf' = ibuf \o SubSeq(wire, 1, n)
      /\ readLog' = readLog \o SubSeq(wire, 1, n)
      /\ wire' = DropFirst(wire, n)
  BY DEF ReadBytes
<1> HIDE DEF n
<1>6. n \in 0 .. Len(wire) /\ 0 \in Nat
  BY <1>4
<1>7. SubSeq(wire, 0 + 1, n) \in Seq(Byte) /\ Len(SubSeq(wire, 0 + 1, n)) = n - 0
  BY <1>1, <1>6, SliceProperties
<1>8. SubSeq(wire, 1, n) \in Seq(Byte) /\ Len(SubSeq(wire, 1, n)) = n
  BY <1>4, <1>7
<1> QED
  BY <1>4, <1>5, <1>8

\* read(), the decision to wait or give up, and waitRead().
LEMMA TypeInvWait ==
  TypeInv /\ (ReadBytes \/ ReadNothing \/ ReadFails \/ Decide \/ WaitReadTrue \/ WaitReadFalse
              \/ WaitInterrupted)
    => TypeInv'
<1> SUFFICES ASSUME TypeInv,
                    ReadBytes \/ ReadNothing \/ ReadFails \/ Decide
                      \/ WaitReadTrue \/ WaitReadFalse \/ WaitInterrupted
             PROVE  TypeInv'
  OBVIOUS
<1> USE DEF callVars, streamVars, ghostVars
<1>1. CASE ReadBytes
  <2>1. PICK n \in 1 .. Len(wire) :
           /\ n <= MAX - Len(ibuf)
           /\ SubSeq(wire, 1, n) \in Seq(Byte) /\ Len(SubSeq(wire, 1, n)) = n
           /\ ibuf' = ibuf \o SubSeq(wire, 1, n)
           /\ readLog' = readLog \o SubSeq(wire, 1, n)
           /\ wire' = DropFirst(wire, n)
    BY <1>1, ReadBytesType
  <2>2. /\ wire \in Seq(Byte) /\ Len(wire) \in Nat /\ n \in 0 .. Len(wire)
        /\ ibuf \in Seq(Byte) /\ Len(ibuf) \in Nat /\ MAX \in Nat
    BY <2>1, LenProperties, SizeAssumption DEF TypeInv, TypeOK
  <2>3. ibuf' \in Seq(Byte) /\ Len(ibuf') = Len(ibuf) + n
    BY <2>1, <2>2, ConcatProperties
  <2>4. readLog' \in Seq(Byte)
    BY <2>1, ConcatProperties DEF TypeInv, TypeOK
  <2>5. wire' \in Seq(Byte)
    BY <2>1, <2>2, DropFirstProperties
  <2>6. Len(ibuf') <= MAX /\ Len(ibuf') > 0
    BY <2>1, <2>2, <2>3
  <2>7. TypeOK'
    BY <1>1, <2>3, <2>4, <2>5, <2>6, NoFindType
    DEF ReadBytes, StartFind, TypeInv, TypeOK, FindType, Conts
  <2>8. FindInv'
    BY <1>1, <2>2, <2>3, <2>6, NoFindType DEF ReadBytes, StartFind, FindInv
  <2> QED
    BY <2>7, <2>8 DEF TypeInv
<1>2. CASE ReadNothing
  <2>1. eof' \in BOOLEAN
    BY <1>2, ChoiceAssumption DEF ReadNothing, TypeInv, TypeOK
  <2> QED
    BY <1>2, <2>1 DEF ReadNothing, TypeInv, TypeOK, FindInv
<1>3. CASE ReadFails
  BY <1>3 DEF ReadFails, Return, TypeInv, TypeOK, FindInv, Outcomes
<1>4. CASE Decide
  BY <1>4 DEF Decide, NextType, Return, TypeInv, TypeOK, FindInv, Outcomes
<1>5. CASE WaitReadTrue
  <2>1. EnterReadInternal /\ ibuf' = ibuf /\ extractLast' = extractLast /\ received' = FALSE
    BY <1>5 DEF WaitReadTrue
  <2>2. /\ pc' \in {"read", "scan"} /\ cont' \in Conts /\ find' \in FindType /\ FindInv'
    BY <2>1, EnterReadInternalType
  <2> QED
    BY <1>5, <2>1, <2>2 DEF WaitReadTrue, TypeInv, TypeOK, FindType
<1>6. CASE WaitReadFalse \/ WaitInterrupted
  BY <1>6
  DEF WaitReadFalse, WaitInterrupted, WaitReadsNothing, Return, TypeInv, TypeOK, FindInv,
      Outcomes
<1> QED
  BY <1>1, <1>2, <1>3, <1>4, <1>5, <1>6

\* The client's calls.
LEMMA TypeInvClient == TypeInv /\ Client => TypeInv'
<1> SUFFICES ASSUME TypeInv, Client PROVE TypeInv'
  OBVIOUS
<1> USE DEF driverVars, callVars, streamVars, ghostVars
<1>0. /\ Len(ibuf) \in Nat /\ Len(readLog) \in Nat
      /\ MAX \in Nat
  BY LenProperties, SizeAssumption DEF TypeInv, TypeOK
<1>1. ASSUME NEW p \in Timeouts, NEW f \in Timeouts \cup {-1}, ReadPacket(p, f)
      PROVE  TypeInv'
  <2>1. p \in Nat /\ FirstByteTimeout(p, f) \in Nat
    BY ChoiceAssumption DEF FirstByteTimeout, Min2
  <2>2. pc' \in {"idle", "read", "scan"} /\ cont' \in Conts /\ find' \in FindType /\ FindInv'
    <3>1. CASE valid
      BY <1>1, <3>1, EnterReadInternalType DEF ReadPacket
    <3>2. CASE ~valid /\ ibuf = <<>>
      BY <1>1, <3>2 DEF ReadPacket, Return, TypeInv, TypeOK, FindInv, FindType
    <3>3. CASE ~valid /\ ibuf # <<>>
      <4>1. Len(ibuf) > 0
        BY <1>0, <3>3, EmptySeq DEF TypeInv, TypeOK
      <4> QED
        BY <1>1, <3>3, <4>1, NoFindType DEF ReadPacket, StartFind, FindInv, Conts
    <3> QED
      BY <3>1, <3>2, <3>3
  <2>3. result' \in Outcomes
    BY <1>1 DEF ReadPacket, Return, StartFind, Outcomes
  <2>4. TypeOK'
    BY <1>0, <1>1, <2>1, <2>2, <2>3, EmptySeq DEF ReadPacket, TypeInv, TypeOK, FindType
  <2> QED
    BY <2>2, <2>4 DEF TypeInv
<1>2. CASE ReadPacketSmallBuffer
  BY <1>2 DEF ReadPacketSmallBuffer, Return, TypeInv, TypeOK, FindInv, Outcomes
<1>3. CASE HasPacket
  <2>1. pc' \in {"idle", "scan"} /\ cont' \in Conts /\ find' \in FindType /\ FindInv'
        /\ result' \in Outcomes
    <3>1. CASE ibuf = <<>>
      BY <1>3, <3>1 DEF HasPacket, Return, TypeInv, TypeOK, FindInv, FindType, Outcomes
    <3>2. CASE ibuf # <<>>
      <4>1. Len(ibuf) > 0
        BY <1>0, <3>2, EmptySeq DEF TypeInv, TypeOK
      <4> QED
        BY <1>3, <3>2, <4>1, NoFindType
        DEF HasPacket, StartFind, FindInv, Conts, Outcomes
    <3> QED
      BY <3>1, <3>2
  <2>2. TypeOK'
    BY <1>3, <2>1, EmptySeq DEF HasPacket, TypeInv, TypeOK, FindType
  <2> QED
    BY <2>1, <2>2 DEF TypeInv
<1>4. CASE Clear
  BY <1>0, <1>4, EmptySeq DEF Clear, TypeInv, TypeOK, FindInv, Outcomes
<1>5. ASSUME NEW s \in BOOLEAN, SetStream(s)
      PROVE  TypeInv'
  BY <1>5, EmptySeq DEF SetStream, TypeInv, TypeOK, FindInv, Outcomes
<1>6. ASSUME NEW flag \in Modes, SetExtractLastPacket(flag)
      PROVE  TypeInv'
  <2>1. flag \in BOOLEAN
    BY ChoiceAssumption, Zenon
  <2> QED
    BY <1>6, <2>1 DEF SetExtractLastPacket, TypeInv, TypeOK, FindInv, Outcomes
<1>7. CASE ResetStatus
  BY <1>0, <1>7 DEF ResetStatus, Consumed, TypeInv, TypeOK, FindInv, Outcomes
<1> QED
  BY <1>1, <1>2, <1>3, <1>4, <1>5, <1>6, <1>7 DEF Client
\* The internal buffer never holds more than MAX_PACKET_SIZE bytes, findPacket
\* stays within it, and every variable of the driver keeps its type.
LEMMA TypeInvNext == TypeInv /\ [Next]_vars => TypeInv'
<1> SUFFICES ASSUME TypeInv, [Next]_vars PROVE TypeInv'
  OBVIOUS
<1> USE DEF driverVars, callVars, streamVars, ghostVars
<1>1. CASE Device
  <2>1. ASSUME NEW b \in Byte, DeviceSend(b) PROVE TypeInv'
    BY <2>1, AppendProperties DEF DeviceSend, TypeInv, TypeOK, FindInv
  <2>2. CASE DeviceClose
    BY <2>2 DEF DeviceClose, TypeInv, TypeOK, FindInv
  <2> QED
    BY <1>1, <2>1, <2>2 DEF Device
<1>2. CASE Tick
  BY <1>2 DEF Tick, TypeInv, TypeOK, FindInv
<1>3. CASE Client
  BY <1>3, TypeInvClient
<1>4. CASE Driver
  BY <1>4, TypeInvFind, TypeInvExtract, TypeInvWait DEF Driver
<1>5. CASE UNCHANGED vars
  BY <1>5 DEF vars, TypeInv, TypeOK, FindInv
<1>6. CASE WaitInterrupted
  BY <1>6, TypeInvWait
<1> QED
  BY <1>1, <1>2, <1>3, <1>4, <1>5, <1>6 DEF Next

LEMMA TypeInvariant == Spec => []TypeInv
<1> QED
  BY TypeInvInit, TypeInvNext, PTL DEF Spec

\* readPacket, hasPacket and the other calls keep internal_buffer_size within
\* MAX_PACKET_SIZE and the rest of the driver's state well-formed.
THEOREM TypeCorrect == Spec => []TypeOK
<1>1. TypeInv => TypeOK
  BY DEF TypeInv
<1> QED
  BY <1>1, TypeInvariant, PTL
-----------------------------------------------------------------------------
(* What a step may do to the bytes and the counters, over all of Next. *)

Quiet ==
  /\ UNCHANGED <<ibuf, readLog, good, bad, forgotten, extractLast>>
  /\ out' \in {out, <<>>}
  /\ pc' \in {"scan", "pull"} =>
       \/ find' = NoFind
       \/ pc \in {"scan", "pull"} /\ find' = find

Pull == pc = "pull" /\ PullBytes /\ find' = NoFind

LEMMA StepCases ==
  ASSUME [Next]_vars
  PROVE  \/ Quiet \/ Pull \/ ReadBytes \/ FindGarbage \/ FindComplete
         \/ Clear \/ ResetStatus \/ \E flag \in Modes : SetExtractLastPacket(flag)
<1> USE DEF Quiet, driverVars, callVars, streamVars, ghostVars
<1>1. CASE Device
  BY <1>1 DEF Device, DeviceSend, DeviceClose
<1>2. CASE Tick
  BY <1>2 DEF Tick
<1>3. CASE Client
  <2>1. ASSUME NEW p \in Timeouts, NEW f \in Timeouts \cup {-1}, ReadPacket(p, f) PROVE Quiet
    BY <2>1 DEF ReadPacket, EnterReadInternal, StartFind, Return
  <2>2. CASE ReadPacketSmallBuffer
    BY <2>2 DEF ReadPacketSmallBuffer, Return
  <2>3. CASE HasPacket
    BY <2>3 DEF HasPacket, StartFind, Return
  <2>4. ASSUME NEW s \in BOOLEAN, SetStream(s) PROVE Quiet
    BY <2>4 DEF SetStream
  <2> QED
    BY <1>3, <2>1, <2>2, <2>3, <2>4 DEF Client
<1>4. CASE Driver
  <2>1. CASE FindTooLong \/ FindIncomplete
    BY <2>1 DEF FindTooLong, FindIncomplete, Return
  <2>2. CASE ExtractOnEntry \/ ExtractAfterRead
    BY <2>2 DEF ExtractOnEntry, ExtractAfterRead, Pull
  <2>3. CASE ExtractWithoutStream
    BY <2>3 DEF ExtractWithoutStream, StartFind, Pull
  <2>4. CASE HasPacketReturns
    BY <2>4 DEF HasPacketReturns, Return
  <2>5. CASE ReadNothing \/ ReadFails
    BY <2>5 DEF ReadNothing, ReadFails, Return
  <2>6. CASE Decide
    BY <2>6 DEF Decide, Return
  <2>7. CASE WaitReadTrue
    BY <2>7 DEF WaitReadTrue, EnterReadInternal, StartFind
  <2>8. CASE WaitReadFalse
    BY <2>8 DEF WaitReadFalse, WaitReadsNothing, Return
  <2> QED
    BY <1>4, <2>1, <2>2, <2>3, <2>4, <2>5, <2>6, <2>7, <2>8 DEF Driver, FindPacket
<1>5. CASE UNCHANGED vars
  BY <1>5 DEF vars
<1>6. CASE WaitInterrupted
  BY <1>6 DEF WaitInterrupted, WaitReadsNothing, Return
<1> QED
  BY <1>1, <1>2, <1>3, <1>4, <1>5, <1>6 DEF Next

-----------------------------------------------------------------------------
(* The internal buffer as the tail of the stream. *)

LEMMA PrefixOfConcat ==
  ASSUME NEW S, NEW s \in Seq(S), NEW c \in Seq(S)
  PROVE  SubSeq(s \o c, 1, Len(s)) = s
<1>1. Len(s) \in Nat /\ Len(c) \in Nat
  BY LenProperties
<1>2. /\ s \o c \in Seq(S) /\ Len(s \o c) = Len(s) + Len(c)
      /\ \A i \in 1 .. Len(s) + Len(c) :
           (s \o c)[i] = IF i <= Len(s) THEN s[i] ELSE c[i - Len(s)]
  BY ConcatProperties
<1>3. 0 \in Nat /\ Len(s) \in 0 .. Len(s \o c)
  BY <1>1, <1>2
<1>4. /\ SubSeq(s \o c, 0 + 1, Len(s)) \in Seq(S)
      /\ Len(SubSeq(s \o c, 0 + 1, Len(s))) = Len(s) - 0
      /\ \A i \in 1 .. Len(s) - 0 : SubSeq(s \o c, 0 + 1, Len(s))[i] = (s \o c)[0 + i]
  BY <1>2, <1>3, SliceProperties
<1>5. ASSUME NEW i \in 1 .. Len(s) PROVE SubSeq(s \o c, 0 + 1, Len(s))[i] = s[i]
  BY <1>1, <1>2, <1>4
<1>6. SubSeq(s \o c, 0 + 1, Len(s)) = s
  BY <1>1, <1>4, <1>5, SeqEqual
<1> QED
  BY <1>6

LEMMA DropDrop ==
  ASSUME NEW S, NEW s \in Seq(S), NEW m \in 0 .. Len(s), NEW n \in 0 .. Len(s) - m
  PROVE  DropFirst(DropFirst(s, m), n) = DropFirst(s, m + n)
<1>1. Len(s) \in Nat
  BY LenProperties
<1>2. m + n \in 0 .. Len(s)
  BY <1>1
<1>3. /\ DropFirst(s, m) \in Seq(S) /\ Len(DropFirst(s, m)) = Len(s) - m
      /\ \A i \in 1 .. Len(s) - m : DropFirst(s, m)[i] = s[i + m]
  BY DropFirstProperties
<1>4. /\ DropFirst(s, m + n) \in Seq(S) /\ Len(DropFirst(s, m + n)) = Len(s) - (m + n)
      /\ \A i \in 1 .. Len(s) - (m + n) : DropFirst(s, m + n)[i] = s[i + (m + n)]
  BY <1>2, DropFirstProperties
<1> DEFINE t == DropFirst(s, m)
<1> HIDE DEF t
<1>5. t \in Seq(S) /\ Len(t) = Len(s) - m /\ n \in 0 .. Len(t)
  BY <1>3 DEF t
<1>6. /\ DropFirst(t, n) \in Seq(S) /\ Len(DropFirst(t, n)) = Len(t) - n
      /\ \A i \in 1 .. Len(t) - n : DropFirst(t, n)[i] = t[i + n]
  BY <1>5, DropFirstProperties
<1>7. ASSUME NEW i \in 1 .. Len(s) - (m + n)
      PROVE  DropFirst(t, n)[i] = DropFirst(s, m + n)[i]
  <2>1. i \in 1 .. Len(t) - n /\ i + n \in 1 .. Len(s) - m /\ (i + n) + m = i + (m + n)
    BY <1>1, <1>3 DEF t
  <2> QED
    BY <1>3, <1>4, <1>6, <2>1 DEF t
<1>8. Len(DropFirst(t, n)) = Len(DropFirst(s, m + n))
  BY <1>1, <1>4, <1>5, <1>6
<1>9. Len(DropFirst(t, n)) = Len(s) - (m + n)
  BY <1>4, <1>8
<1> QED
  BY <1>4, <1>6, <1>7, <1>8, <1>9, SeqEqual DEF t

\* Dropping everything, or nothing.
LEMMA DropAll ==
  ASSUME NEW S, NEW s \in Seq(S)
  PROVE  DropFirst(s, Len(s)) = <<>> /\ DropFirst(s, 0) = s
<1>1. Len(s) \in Nat
  BY LenProperties
<1>2. DropFirst(s, Len(s)) = <<>>
  BY <1>1, DropFirstProperties, EmptySeq
<1>3. DropFirst(s, 0) \in Seq(S) /\ Len(DropFirst(s, 0)) = Len(s)
      /\ \A i \in 1 .. Len(s) : DropFirst(s, 0)[i] = s[i]
  <2>1. 0 \in 0 .. Len(s)
    BY <1>1
  <2>2. /\ DropFirst(s, 0) \in Seq(S) /\ Len(DropFirst(s, 0)) = Len(s) - 0
        /\ \A i \in 1 .. Len(s) - 0 : DropFirst(s, 0)[i] = s[i + 0]
    BY <2>1, DropFirstProperties
  <2> QED
    BY <1>1, <2>2
<1> QED
  BY <1>2, <1>3, SeqEqual

LEMMA DropConcat ==
  ASSUME NEW S, NEW s \in Seq(S), NEW c \in Seq(S), NEW n \in 0 .. Len(s)
  PROVE  DropFirst(s \o c, n) = DropFirst(s, n) \o c
<1>1. Len(s) \in Nat /\ Len(c) \in Nat
  BY LenProperties
<1>2. /\ s \o c \in Seq(S) /\ Len(s \o c) = Len(s) + Len(c)
      /\ \A i \in 1 .. Len(s) + Len(c) :
           (s \o c)[i] = IF i <= Len(s) THEN s[i] ELSE c[i - Len(s)]
  BY ConcatProperties
<1>3. n \in 0 .. Len(s \o c)
  BY <1>1, <1>2
<1>4. /\ DropFirst(s \o c, n) \in Seq(S)
      /\ Len(DropFirst(s \o c, n)) = Len(s \o c) - n
      /\ \A i \in 1 .. Len(s \o c) - n : DropFirst(s \o c, n)[i] = (s \o c)[i + n]
  BY <1>2, <1>3, DropFirstProperties
<1>5. /\ DropFirst(s, n) \in Seq(S) /\ Len(DropFirst(s, n)) = Len(s) - n
      /\ \A i \in 1 .. Len(s) - n : DropFirst(s, n)[i] = s[i + n]
  BY DropFirstProperties
<1>6. /\ DropFirst(s, n) \o c \in Seq(S)
      /\ Len(DropFirst(s, n) \o c) = Len(DropFirst(s, n)) + Len(c)
      /\ \A i \in 1 .. Len(DropFirst(s, n)) + Len(c) :
           (DropFirst(s, n) \o c)[i] =
             IF i <= Len(DropFirst(s, n)) THEN DropFirst(s, n)[i]
             ELSE c[i - Len(DropFirst(s, n))]
  BY <1>5, ConcatProperties
<1>7. Len(DropFirst(s \o c, n)) = Len(s) + Len(c) - n
      /\ Len(DropFirst(s, n) \o c) = Len(s) + Len(c) - n
  BY <1>1, <1>2, <1>4, <1>5, <1>6
<1>8. ASSUME NEW i \in 1 .. Len(s) + Len(c) - n
      PROVE  DropFirst(s \o c, n)[i] = (DropFirst(s, n) \o c)[i]
  <2>1. /\ i \in 1 .. Len(s \o c) - n /\ i + n \in 1 .. Len(s) + Len(c)
        /\ i \in 1 .. Len(DropFirst(s, n)) + Len(c)
    BY <1>1, <1>2, <1>5
  <2>2. CASE i <= Len(s) - n
    <3>1. i \in 1 .. Len(s) - n /\ i + n <= Len(s) /\ i <= Len(DropFirst(s, n))
      BY <1>1, <1>5, <2>2
    <3> QED
      BY <1>2, <1>4, <1>5, <1>6, <2>1, <3>1
  <2>3. CASE ~(i <= Len(s) - n)
    <3>1. ~(i + n <= Len(s)) /\ ~(i <= Len(DropFirst(s, n)))
          /\ i + n - Len(s) = i - Len(DropFirst(s, n))
      BY <1>1, <1>5, <2>3
    <3>2. (s \o c)[i + n] = c[i + n - Len(s)]
      BY <1>2, <2>1, <3>1
    <3> QED
      BY <1>4, <1>6, <2>1, <3>1, <3>2
  <2> QED
    BY <2>2, <2>3
<1> QED
  BY <1>4, <1>6, <1>7, <1>8, SeqEqual
TailInv == TypeInv /\ BufferIsUnconsumedTail

\* Facts about lengths used by every step below.
LEMMA TailLengths ==
  ASSUME TailInv
  PROVE  /\ ibuf \in Seq(Byte) /\ readLog \in Seq(Byte)
         /\ Len(ibuf) \in Nat /\ Len(readLog) \in Nat
         /\ Len(ibuf) <= Len(readLog)
         /\ Consumed \in 0 .. Len(readLog)
         /\ Len(readLog) - Consumed = Len(ibuf)
         /\ ibuf = DropFirst(readLog, Consumed)
BY LenProperties DEF TailInv, TypeInv, TypeOK, BufferIsUnconsumedTail, Consumed

\* What a pull does to the two ends of the buffer.
LEMMA PullLengths ==
  ASSUME TailInv, Pull
  PROVE  /\ find.start \in Nat /\ find.size \in Nat /\ find.at \in Nat
         /\ find.start + find.size <= find.at
         /\ find.start + find.size \in 0 .. Len(ibuf)
         /\ readLog' = readLog /\ forgotten' = forgotten /\ extractLast' = extractLast
         /\ ibuf' = DropFirst(ibuf, find.start + find.size)
         /\ Len(ibuf') = Len(ibuf) - (find.start + find.size)
         /\ Consumed' = Consumed + find.start + find.size
<1>1. pc = "pull" /\ PullBytes /\ TypeInv
  BY DEF Pull, TailInv
<1>2. /\ find.start \in Nat /\ find.size \in Nat /\ find.at \in Nat
      /\ find.start + find.size <= find.at /\ find.at <= Len(ibuf) /\ Len(ibuf) \in Nat
  BY <1>1, LenProperties DEF TypeInv, TypeOK, FindInv
<1>3. Len(ibuf') = Len(ibuf) - (find.start + find.size)
  BY <1>1, PullBytesType
<1>4. readLog' = readLog /\ forgotten' = forgotten /\ extractLast' = extractLast
      /\ ibuf' = DropFirst(ibuf, find.start + find.size)
  BY <1>1 DEF PullBytes, ghostVars
<1>5. Consumed' = Consumed + find.start + find.size
  BY <1>2, <1>3, <1>4, TailLengths DEF Consumed
<1> QED
  BY <1>2, <1>3, <1>4, <1>5

\* What a read does to the stream: it grows at its end only.
LEMMA ReadLengths ==
  ASSUME TailInv, ReadBytes
  PROVE  /\ \E c \in Seq(Byte) : /\ Len(c) \in Nat \ {0}
                                /\ ibuf' = ibuf \o c /\ readLog' = readLog \o c
         /\ Len(readLog') > Len(readLog)
         /\ Len(readLog') - Len(readLog) = Len(ibuf') - Len(ibuf)
         /\ Len(ibuf') \in Nat /\ Len(readLog') \in Nat
         /\ Consumed' = Consumed
<1>1. PICK n \in 1 .. Len(wire) :
         /\ SubSeq(wire, 1, n) \in Seq(Byte) /\ Len(SubSeq(wire, 1, n)) = n
         /\ ibuf' = ibuf \o SubSeq(wire, 1, n)
         /\ readLog' = readLog \o SubSeq(wire, 1, n)
  BY ReadBytesType DEF TailInv
<1>2. n \in Nat \ {0}
  BY LenProperties DEF TailInv, TypeInv, TypeOK
<1>3. Len(ibuf') = Len(ibuf) + n /\ Len(readLog') = Len(readLog) + n
  BY <1>1, <1>2, TailLengths, ConcatProperties
<1>4. Consumed' = Consumed
  BY <1>2, <1>3, TailLengths DEF Consumed
<1>5. Len(readLog') > Len(readLog) /\ Len(readLog') - Len(readLog) = Len(ibuf') - Len(ibuf)
      /\ Len(ibuf') \in Nat /\ Len(readLog') \in Nat
  BY <1>2, <1>3, TailLengths
<1> QED
  BY <1>1, <1>2, <1>4, <1>5

LEMMA TailInvInit == Init => TailInv
<1> SUFFICES ASSUME Init PROVE TailInv
  OBVIOUS
<1>1. TypeInv
  BY TypeInvInit
<1>2. ibuf = <<>> /\ readLog = <<>> /\ Len(<<>>) = 0
  BY DEF Init
<1>3. SubSeq(<<>>, 0 + 1, 0) = <<>>
  BY SubSeqEmpty
<1>4. Consumed = 0
  BY <1>2 DEF Consumed
<1> QED
  BY <1>1, <1>2, <1>3, <1>4 DEF TailInv, BufferIsUnconsumedTail, DropFirst

LEMMA TailInvNext == TailInv /\ [Next]_vars => TailInv'
<1> SUFFICES ASSUME TailInv, [Next]_vars PROVE TailInv'
  OBVIOUS
<1>1. TypeInv'
  BY TypeInvNext DEF TailInv
<1> SUFFICES BufferIsUnconsumedTail'
  BY <1>1 DEF TailInv
<1>2. CASE ibuf' = ibuf /\ readLog' = readLog
  BY <1>2 DEF TailInv, BufferIsUnconsumedTail, Consumed
<1>3. CASE Pull
  <2> DEFINE k == find.start + find.size
  <2>1. k \in 0 .. Len(readLog) - Consumed /\ Consumed' = Consumed + k
    BY <1>3, PullLengths, TailLengths
  <2>2. ibuf' = DropFirst(DropFirst(readLog, Consumed), k) /\ readLog' = readLog
    BY <1>3, PullLengths, TailLengths
  <2>3. DropFirst(DropFirst(readLog, Consumed), k) = DropFirst(readLog, Consumed + k)
    BY <2>1, TailLengths, DropDrop
  <2>4. Len(ibuf') <= Len(readLog')
    BY <1>3, PullLengths, TailLengths
  <2> QED
    BY <2>1, <2>2, <2>3, <2>4 DEF BufferIsUnconsumedTail
<1>4. CASE ReadBytes
  <2>1. PICK c \in Seq(Byte) : ibuf' = ibuf \o c /\ readLog' = readLog \o c
    BY <1>4, ReadLengths
  <2>2. DropFirst(readLog \o c, Consumed) = DropFirst(readLog, Consumed) \o c
    BY TailLengths, DropConcat
  <2>3. Len(ibuf') <= Len(readLog') /\ Consumed' = Consumed
    BY <1>4, ReadLengths, TailLengths
  <2> QED
    BY <2>1, <2>2, <2>3, TailLengths DEF BufferIsUnconsumedTail
<1>5. CASE Clear
  <2>1. ibuf' = <<>> /\ readLog' = readLog /\ Len(<<>>) = 0
    BY <1>5 DEF Clear
  <2>2. Consumed' = Len(readLog)
    BY <2>1, TailLengths DEF Consumed
  <2>3. SubSeq(readLog, Len(readLog) + 1, Len(readLog)) = <<>>
    BY TailLengths, SubSeqEmpty
  <2> QED
    BY <2>1, <2>2, <2>3, TailLengths DEF BufferIsUnconsumedTail, DropFirst
<1> QED
  <2>1. \/ ibuf' = ibuf /\ readLog' = readLog
        \/ Pull \/ ReadBytes \/ Clear
    BY StepCases
    DEF Quiet, FindGarbage, FindComplete, ResetStatus, SetExtractLastPacket,
        ghostVars
  <2> QED
    BY <1>2, <1>3, <1>4, <1>5, <2>1

LEMMA TailInvariant == Spec => []TailInv
<1> QED
  BY TailInvInit, TailInvNext, PTL DEF Spec

\* No byte is lost, repeated or reordered between read() and extractPacket: the
\* internal buffer is always the tail of the bytes read.
THEOREM NoByteLost == Spec => []BufferIsUnconsumedTail
<1>1. TailInv => BufferIsUnconsumedTail
  BY DEF TailInv
<1> QED
  BY <1>1, TailInvariant, PTL
-----------------------------------------------------------------------------
(* The statistics.  When the last packet is looked for, findPacket counts  *)
(* bytes as it examines them, before they are pulled and whether or not    *)
(* they will be; so between calls the counters may be ahead of the bytes   *)
(* consumed, and during a scan they are ahead of them by what has been     *)
(* examined at least.                                                      *)

ScanAhead ==
  extractLast /\ pc \in {"scan", "pull"} => Consumed + find.at <= good + bad + forgotten

CountsExact ==
  TRUE \notin Modes => ~extractLast /\ good + bad + forgotten = Consumed

CountInv == NoByteUncounted /\ ScanAhead /\ CountsExact

LEMMA CountTypes ==
  ASSUME TailInv
  PROVE  /\ good \in Nat /\ bad \in Nat /\ forgotten \in Int /\ extractLast \in BOOLEAN
         /\ find \in FindType /\ find.at \in Nat
         /\ Consumed \in Nat
BY TailLengths DEF TailInv, TypeInv, TypeOK, FindType

LEMMA CountInvInit == Init => CountInv
<1> SUFFICES ASSUME Init PROVE CountInv
  OBVIOUS
<1>1. Consumed = 0 /\ good = 0 /\ bad = 0 /\ forgotten = 0 /\ pc = "idle"
  BY EmptySeq DEF Init, Consumed
<1>2. TRUE \notin Modes => ~extractLast
  BY ChoiceAssumption DEF Init
<1>3. NoByteUncounted /\ ScanAhead
  BY <1>1 DEF NoByteUncounted, ScanAhead
<1>4. CountsExact
  BY <1>1, <1>2 DEF CountsExact
<1> QED
  BY <1>3, <1>4 DEF CountInv

LEMMA CountInvNext == TailInv /\ CountInv /\ [Next]_vars => CountInv'
<1> SUFFICES ASSUME TailInv, CountInv, [Next]_vars PROVE CountInv'
  OBVIOUS
<1>0. NoByteUncounted /\ ScanAhead /\ CountsExact
  BY DEF CountInv
<1>1. CASE Quiet
  <2>1. /\ Consumed' = Consumed /\ good' = good /\ bad' = bad /\ forgotten' = forgotten
        /\ extractLast' = extractLast
        /\ pc' \in {"scan", "pull"} =>
             find'.at = 0 \/ (pc \in {"scan", "pull"} /\ find'.at = find.at)
    BY <1>1, NoFindType DEF Quiet, Consumed
  <2>2. NoByteUncounted'
    BY <1>0, <2>1, CountTypes DEF NoByteUncounted, ScanAhead
  <2>3. ScanAhead'
    BY <1>0, <2>1, CountTypes DEF ScanAhead, NoByteUncounted
  <2>4. CountsExact'
    BY <1>0, <2>1, CountTypes DEF CountsExact
  <2> QED
    BY <2>2, <2>3, <2>4 DEF CountInv
<1>2. CASE Pull
  <2>1. /\ find.start \in Nat /\ find.size \in Nat /\ find.at \in Nat
        /\ find.start + find.size <= find.at
        /\ forgotten' = forgotten /\ extractLast' = extractLast
        /\ Consumed' = Consumed + find.start + find.size
    BY <1>2, PullLengths
  <2>2. /\ pc = "pull" /\ find'.at = 0
        /\ bad' = IF extractLast THEN bad ELSE bad + find.start
        /\ good' = IF extractLast THEN good ELSE good + find.size
    BY <1>2, NoFindType DEF Pull, PullBytes
  <2>3. NoByteUncounted'
    BY <1>0, <2>1, <2>2, CountTypes DEF NoByteUncounted, ScanAhead
  <2>4. ScanAhead'
    BY <1>0, <2>1, <2>2, CountTypes DEF ScanAhead, NoByteUncounted
  <2>5. CountsExact'
    BY <1>0, <2>1, <2>2, CountTypes DEF CountsExact
  <2> QED
    BY <2>3, <2>4, <2>5 DEF CountInv
<1>3. CASE ReadBytes
  <2>1. Consumed' = Consumed /\ find'.at = 0
    BY <1>3, ReadLengths, NoFindType DEF ReadBytes, StartFind
  <2>2. good' = good /\ bad' = bad /\ forgotten' = forgotten /\ extractLast' = extractLast
    BY <1>3 DEF ReadBytes
  <2>3. NoByteUncounted'
    BY <1>0, <2>1, <2>2, CountTypes DEF NoByteUncounted, ScanAhead
  <2>4. ScanAhead'
    BY <1>0, <2>1, <2>2, CountTypes DEF ScanAhead, NoByteUncounted
  <2>5. CountsExact'
    BY <1>0, <2>1, <2>2, CountTypes DEF CountsExact
  <2> QED
    BY <2>3, <2>4, <2>5 DEF CountInv
<1>4. CASE FindGarbage
  <2> DEFINE r == ExtractPacket(Level)
  <2>1. r \in Int /\ r < 0 /\ pc = "scan"
    BY <1>4, LevelProperties DEF FindGarbage, TailInv
  <2>2. find'.at = find.at - r /\ bad' = IF extractLast THEN bad - r ELSE bad
    BY <1>4, <2>1, CountTypes DEF FindGarbage, FindType
  <2>3. good' = good /\ forgotten' = forgotten /\ extractLast' = extractLast
        /\ Consumed' = Consumed
    BY <1>4 DEF FindGarbage, ghostVars, Consumed
  <2> HIDE DEF r
  <2>4. NoByteUncounted'
    BY <1>0, <2>1, <2>2, <2>3, CountTypes DEF NoByteUncounted, ScanAhead
  <2>5. ScanAhead'
    BY <1>0, <2>1, <2>2, <2>3, CountTypes DEF ScanAhead, NoByteUncounted
  <2>6. CountsExact'
    BY <1>0, <2>1, <2>2, <2>3, CountTypes DEF CountsExact
  <2> QED
    BY <2>4, <2>5, <2>6 DEF CountInv
<1>5. CASE FindComplete
  <2> DEFINE r == ExtractPacket(Level)
  <2>1. r \in Nat /\ pc = "scan"
    BY <1>5, LevelProperties DEF FindComplete, TailInv
  <2>2. find'.at = find.at + r /\ good' = IF extractLast THEN good + r ELSE good
    BY <1>5 DEF FindComplete
  <2>3. bad' = bad /\ forgotten' = forgotten /\ extractLast' = extractLast
        /\ Consumed' = Consumed
    BY <1>5 DEF FindComplete, ghostVars, Consumed
  <2> HIDE DEF r
  <2>4. NoByteUncounted'
    BY <1>0, <2>1, <2>2, <2>3, CountTypes DEF NoByteUncounted, ScanAhead
  <2>5. ScanAhead'
    BY <1>0, <2>1, <2>2, <2>3, CountTypes DEF ScanAhead, NoByteUncounted
  <2>6. CountsExact'
    BY <1>0, <2>1, <2>2, <2>3, CountTypes DEF CountsExact
  <2> QED
    BY <2>4, <2>5, <2>6 DEF CountInv
<1>6. CASE Clear
  <2>1. ibuf' = <<>> /\ readLog' = readLog /\ Len(<<>>) = 0 /\ pc' = "idle"
        /\ forgotten' = forgotten + Len(ibuf)
        /\ good' = good /\ bad' = bad /\ extractLast' = extractLast
    BY <1>6 DEF Clear
  <2>2. Consumed' = Consumed + Len(ibuf)
    BY <2>1, TailLengths DEF Consumed
  <2>3. NoByteUncounted'
    BY <1>0, <2>1, <2>2, CountTypes, TailLengths, SMTT(30) DEF NoByteUncounted, ScanAhead
  <2>4. ScanAhead'
    BY <1>0, <2>1, <2>2, CountTypes, TailLengths DEF ScanAhead, NoByteUncounted
  <2>5. CountsExact'
    BY <1>0, <2>1, <2>2, CountTypes, TailLengths DEF CountsExact
  <2> QED
    BY <2>3, <2>4, <2>5 DEF CountInv
<1>7. CASE ResetStatus
  <2>1. good' = 0 /\ bad' = 0 /\ forgotten' = Consumed /\ extractLast' = extractLast
        /\ pc' = "idle" /\ Consumed' = Consumed
    BY <1>7 DEF ResetStatus, Consumed
  <2>2. NoByteUncounted'
    BY <1>0, <2>1, CountTypes DEF NoByteUncounted, ScanAhead
  <2>3. ScanAhead'
    BY <1>0, <2>1, CountTypes DEF ScanAhead, NoByteUncounted
  <2>4. CountsExact'
    BY <1>0, <2>1, CountTypes DEF CountsExact
  <2> QED
    BY <2>2, <2>3, <2>4 DEF CountInv
<1>8. ASSUME NEW flag \in Modes, SetExtractLastPacket(flag) PROVE CountInv'
  <2>1. /\ good' = good /\ bad' = bad /\ forgotten' = forgotten /\ extractLast' = flag
        /\ pc' = "idle" /\ Consumed' = Consumed
    BY <1>8 DEF SetExtractLastPacket, ghostVars, Consumed
  <2>2. TRUE \notin Modes => ~flag
    BY ChoiceAssumption
  <2>3. NoByteUncounted'
    BY <1>0, <2>1, <2>2, CountTypes DEF NoByteUncounted, ScanAhead
  <2>4. ScanAhead'
    BY <1>0, <2>1, <2>2, CountTypes DEF ScanAhead, NoByteUncounted
  <2>5. CountsExact'
    BY <1>0, <2>1, <2>2, CountTypes DEF CountsExact
  <2> QED
    BY <2>3, <2>4, <2>5 DEF CountInv
<1> QED
  BY <1>1, <1>2, <1>3, <1>4, <1>5, <1>6, <1>7, <1>8, StepCases

LEMMA CountInvariant == Spec => []CountInv
<1> QED
  BY TailInvInit, TailInvNext, CountInvInit, CountInvNext, PTL DEF Spec

\* In either extraction mode, and across switches between them, no byte leaves
\* the internal buffer without being counted in the Status.
THEOREM NoneUncounted == Spec => []NoByteUncounted
<1>1. CountInv => NoByteUncounted
  BY DEF CountInv
<1> QED
  BY <1>1, CountInvariant, PTL

\* A driver that only ever extracts the first packet counts every byte once.
THEOREM AllCountedOnce == Spec => []EveryByteCountedOnce
<1>1. CountInv => EveryByteCountedOnce
  BY DEF CountInv, CountsExact, EveryByteCountedOnce
<1> QED
  BY <1>1, CountInvariant, PTL

-----------------------------------------------------------------------------
(* The refinement.  What findPacket has settled on must still be what      *)
(* extractPacket says of the buffer when the bytes are pulled.             *)

AcceptInv ==
  pc \in {"scan", "pull"} /\ find.size > 0 =>
    /\ find.start < Len(ibuf)
    /\ ExtractPacket(DropFirst(ibuf, find.start)) = find.size

LEMMA AcceptInvNext == TailInv /\ AcceptInv /\ [Next]_vars => AcceptInv'
<1> SUFFICES ASSUME TailInv, AcceptInv, [Next]_vars PROVE AcceptInv'
  OBVIOUS
<1>1. CASE Quiet
  BY <1>1, NoFindType DEF Quiet, AcceptInv
<1>2. CASE Pull
  BY <1>2, NoFindType DEF Pull, AcceptInv
<1>3. CASE ReadBytes
  BY <1>3, NoFindType DEF ReadBytes, StartFind, AcceptInv
<1>4. CASE FindGarbage
  <2> DEFINE r == ExtractPacket(Level)
  <2>1. /\ r \in Int /\ r < 0 /\ pc = "scan" /\ ibuf' = ibuf
        /\ find.start \in Nat /\ find.size \in Nat /\ find.at \in Nat
        /\ find.start + find.size <= find.at
        /\ ~extractLast => find.size = 0
    BY <1>4, LevelProperties DEF FindGarbage, TailInv, TypeInv, TypeOK, FindInv
  <2>2. find'.size = find.size
        /\ find'.start = IF extractLast /\ find.at > 0 THEN find.start ELSE find.at - r
    BY <1>4, <2>1, CountTypes DEF FindGarbage, FindType
  <2> HIDE DEF r
  <2>3. find'.size > 0 => find'.start = find.start
    BY <2>1, <2>2, CountTypes
  <2> QED
    BY <2>1, <2>2, <2>3 DEF AcceptInv
<1>5. CASE FindComplete
  <2>1. find'.start = find.at /\ find'.size = ExtractPacket(DropFirst(ibuf, find.at))
        /\ ibuf' = ibuf /\ pc = "scan"
    BY <1>5 DEF FindComplete, Level
  <2>2. find.at < Len(ibuf)
    BY <2>1 DEF TailInv, TypeInv, FindInv
  <2> QED
    BY <2>1, <2>2 DEF AcceptInv
<1>6. CASE Clear \/ ResetStatus \/ \E flag \in Modes : SetExtractLastPacket(flag)
  BY <1>6 DEF Clear, ResetStatus, SetExtractLastPacket, AcceptInv
<1> QED
  BY <1>1, <1>2, <1>3, <1>4, <1>5, <1>6, StepCases
LEMMA AcceptInvariant == Spec => []AcceptInv
<1>1. Init => AcceptInv
  BY DEF Init, AcceptInv
<1> QED
  BY <1>1, TailInvInit, TailInvNext, AcceptInvNext, PTL DEF Spec

\* Seen from the whole stream, the bytes pulled are a slice of it.
LEMMA SliceOfTail ==
  ASSUME NEW S, NEW s \in Seq(S), NEW m \in 0 .. Len(s),
         NEW i \in 0 .. Len(s) - m, NEW n \in 0 .. Len(s) - m - i
  PROVE  SubSeq(DropFirst(s, m), i + 1, i + n) = SubSeq(s, m + i + 1, m + i + n)
<1> DEFINE t == DropFirst(s, m)
<1>1. Len(s) \in Nat
  BY LenProperties
<1>2. /\ t \in Seq(S) /\ Len(t) = Len(s) - m
      /\ \A j \in 1 .. Len(s) - m : t[j] = s[j + m]
  BY DropFirstProperties
<1> HIDE DEF t
<1>3. i \in Nat /\ i + n \in i .. Len(t) /\ m + i \in Nat /\ m + i + n \in m + i .. Len(s)
  BY <1>1, <1>2
<1>4. /\ SubSeq(t, i + 1, i + n) \in Seq(S)
      /\ Len(SubSeq(t, i + 1, i + n)) = i + n - i
      /\ \A j \in 1 .. i + n - i : SubSeq(t, i + 1, i + n)[j] = t[i + j]
  BY <1>2, <1>3, SliceProperties
<1>5. /\ SubSeq(s, m + i + 1, m + i + n) \in Seq(S)
      /\ Len(SubSeq(s, m + i + 1, m + i + n)) = m + i + n - (m + i)
      /\ \A j \in 1 .. m + i + n - (m + i) :
           SubSeq(s, m + i + 1, m + i + n)[j] = s[m + i + j]
  <2> DEFINE a == m + i
             b == m + i + n
  <2>1. a \in Nat /\ b \in a .. Len(s)
    BY <1>3
  <2> HIDE DEF a, b
  <2>2. /\ SubSeq(s, a + 1, b) \in Seq(S) /\ Len(SubSeq(s, a + 1, b)) = b - a
        /\ \A j \in 1 .. b - a : SubSeq(s, a + 1, b)[j] = s[a + j]
    BY <2>1, SliceProperties
  <2> QED
    BY <2>2 DEF a, b
<1>6. i + n - i = n /\ m + i + n - (m + i) = n
  BY <1>1
<1>7. ASSUME NEW j \in 1 .. n
      PROVE  SubSeq(t, i + 1, i + n)[j] = SubSeq(s, m + i + 1, m + i + n)[j]
  <2>1. i + j \in 1 .. Len(s) - m /\ (i + j) + m = m + i + j
    BY <1>1
  <2> QED
    BY <1>2, <1>4, <1>5, <1>6, <2>1
<1>8. Len(SubSeq(t, i + 1, i + n)) = n /\ Len(SubSeq(s, m + i + 1, m + i + n)) = n
  BY <1>4, <1>5, <1>6
<1>9. SubSeq(t, i + 1, i + n) = SubSeq(s, m + i + 1, m + i + n)
  BY <1>4, <1>5, <1>7, <1>8, SeqEqual
<1> QED
  BY <1>9 DEF t

\* Every step of the driver is a step of the abstract stream, or none.
LEMMA StreamStep ==
  TailInv /\ AcceptInv /\ [Next]_vars => [Stream!Next]_<<readLog, Consumed, out>>
<1> SUFFICES ASSUME TailInv, AcceptInv, [Next]_vars
             PROVE  [Stream!Next]_<<readLog, Consumed, out>>
  OBVIOUS
<1>1. CASE Quiet
  BY <1>1 DEF Quiet, Consumed, Stream!Next, Stream!HandOver
<1>2. CASE Pull
  <2> DEFINE n == find.size
             i == Consumed + find.start
  <2>1. /\ find.start \in Nat /\ n \in Nat /\ find.start + n \in 0 .. Len(ibuf)
        /\ readLog' = readLog /\ Consumed' = i + n
    BY <1>2, PullLengths
  <2>2. out' = IF n > 0 THEN SubSeq(ibuf, find.start + 1, find.start + n) ELSE out
    BY <1>2 DEF Pull, PullBytes
  <2>3. /\ Consumed \in 0 .. Len(readLog) /\ Len(readLog) - Consumed = Len(ibuf)
        /\ readLog \in Seq(Byte) /\ Len(readLog) \in Nat /\ Len(ibuf) \in Nat
        /\ ibuf = DropFirst(readLog, Consumed)
    BY TailLengths
  <2>4. CASE n > 0
    <3>1. find.start < Len(ibuf) /\ ExtractPacket(DropFirst(ibuf, find.start)) = n
      BY <1>2, <2>4 DEF Pull, AcceptInv
    <3>2. find.start \in 0 .. Len(readLog) - Consumed
          /\ n \in 0 .. Len(readLog) - Consumed - find.start
      BY <2>1, <2>3, SMTT(30)
    <3>3. DropFirst(ibuf, find.start) = DropFirst(readLog, i)
      BY <2>3, <3>2, DropDrop
    <3>4. SubSeq(ibuf, find.start + 1, find.start + n) = SubSeq(readLog, i + 1, i + n)
      <4> DEFINE f == find.start
      <4>1. f \in 0 .. Len(readLog) - Consumed /\ n \in 0 .. Len(readLog) - Consumed - f
        BY <3>2
      <4> HIDE DEF f, n
      <4>2. SubSeq(DropFirst(readLog, Consumed), f + 1, f + n)
              = SubSeq(readLog, Consumed + f + 1, Consumed + f + n)
        BY <2>3, <4>1, SliceOfTail
      <4> QED
        BY <2>3, <4>2 DEF f
    <3>5. i \in Consumed .. Len(readLog) - 1 /\ n \in 1 .. Len(readLog) - i
      BY <2>1, <2>3, <2>4, <3>1
    <3>6. ExtractPacket(SubSeq(readLog, i + 1, Len(readLog))) = n
      BY <3>1, <3>3 DEF DropFirst
    <3>7. out' = SubSeq(readLog, i + 1, i + n)
      BY <2>2, <2>4, <3>4
    <3> HIDE DEF i, n
    <3> QED
      BY <2>1, <3>5, <3>6, <3>7 DEF Stream!Next, Stream!Deliver
  <2>5. CASE n = 0 /\ find.start > 0
    <3>1. Consumed' \in Consumed + 1 .. Len(readLog) /\ out' = out /\ readLog' = readLog
      BY <2>1, <2>2, <2>3, <2>5
    <3> QED
      BY <3>1 DEF Stream!Next, Stream!Discard
  <2>6. CASE n = 0 /\ find.start = 0
    BY <2>1, <2>2, <2>3, <2>6
  <2> QED
    BY <2>1, <2>4, <2>5, <2>6
<1>3. CASE ReadBytes
  <2>1. PICK c \in Seq(Byte) : readLog' = readLog \o c
    BY <1>3, ReadLengths
  <2>2. Len(readLog') > Len(readLog) /\ Consumed' = Consumed /\ out' = out
    BY <1>3, ReadLengths DEF ReadBytes
  <2>3. SubSeq(readLog', 1, Len(readLog)) = readLog
    BY <2>1, TailLengths, ConcatProperties, PrefixOfConcat
  <2> QED
    BY <2>2, <2>3 DEF Stream!Next, Stream!Receive
<1>4. CASE Clear
  <2>1. ibuf' = <<>> /\ readLog' = readLog /\ Len(<<>>) = 0 /\ out' = out
    BY <1>4 DEF Clear
  <2>2. Consumed' = Len(readLog)
    BY <2>1, TailLengths DEF Consumed
  <2>3. Consumed' \in Consumed + 1 .. Len(readLog) \/ Consumed' = Consumed
    BY <2>2, TailLengths
  <2> QED
    BY <2>1, <2>3 DEF Stream!Next, Stream!Discard
<1>5. CASE FindGarbage \/ FindComplete \/ ResetStatus
             \/ \E flag \in Modes : SetExtractLastPacket(flag)
  BY <1>5 DEF FindGarbage, FindComplete, ResetStatus, SetExtractLastPacket, ghostVars, Consumed
<1> QED
  BY <1>1, <1>2, <1>3, <1>4, <1>5, StepCases

\* The read path implements the abstract packet stream: whatever chunks the bytes
\* come in and whatever calls the client makes, it is handed in-order,
\* non-overlapping, contiguous slices of what was read, each accepted by
\* extractPacket.
THEOREM Refinement == Spec => DeliversPacketStream
<1>1. Init => Stream!Init
  BY DEF Init, Consumed, Stream!Init
<1> QED
  BY <1>1, TailInvariant, AcceptInvariant, StreamStep, PTL
  DEF Spec, DeliversPacketStream, Stream!Spec, Stream!vars
-----------------------------------------------------------------------------
(* Timeouts.                                                               *)

\* The timeout type is what came in during the call; a call is answered at its end only,
\* and one without a stream never waits.
CallInv ==
  /\ ttype = "PACKET" \/ received => Len(readLog) > callBase
  /\ ttype = "FIRST_BYTE" /\ ~received => Len(readLog) = callBase
  /\ pc = "wait" /\ ttype = "FIRST_BYTE" => ~received
  /\ pc \in {"scan", "pull"} /\ cont = "drain" => ~valid
  /\ pc # "idle" => result = "none"

LateInv == CallInv /\ TimeoutsAreLate

LEMMA LateInvInit == Init => LateInv
<1> SUFFICES ASSUME Init PROVE LateInv
  OBVIOUS
<1>1. Len(<<>>) = 0
  OBVIOUS
<1>2. CallInv
  BY <1>1 DEF Init, CallInv
<1>3. TimeoutsAreLate
  BY DEF Init, TimeoutsAreLate
<1> QED
  BY <1>2, <1>3 DEF LateInv

\* The client's calls: readPacket starts the clock and takes note of what was read
\* before, the others return at once or look at the internal buffer only.
LEMMA LateInvClient == TypeInv /\ LateInv /\ Client => LateInv'
<1> SUFFICES ASSUME TypeInv, LateInv, Client PROVE LateInv'
  OBVIOUS
<1> USE DEF driverVars, callVars, streamVars, ghostVars
<1>1. ASSUME NEW p \in Timeouts, NEW f \in Timeouts \cup {-1}, ReadPacket(p, f) PROVE LateInv'
  <2>1. /\ ttype' = "FIRST_BYTE" /\ received' = FALSE /\ callBase' = Len(readLog)
        /\ readLog' = readLog /\ valid' = valid
    BY <1>1 DEF ReadPacket
  <2>2. CASE valid
    <3>1. EnterReadInternal /\ result' = "none"
      BY <1>1, <2>2 DEF ReadPacket
    <3> QED
      BY <2>1, <3>1 DEF EnterReadInternal, StartFind, LateInv, CallInv, TimeoutsAreLate
  <2>3. CASE ~valid
    <3>1. \/ pc' = "idle"
          \/ pc' = "scan" /\ result' = "none"
      BY <1>1, <2>3 DEF ReadPacket, Return, StartFind
    <3> QED
      BY <2>1, <2>3, <3>1 DEF LateInv, CallInv, TimeoutsAreLate
  <2> QED
    BY <2>2, <2>3
<1>2. CASE ReadPacketSmallBuffer
  BY <1>2 DEF ReadPacketSmallBuffer, Return, LateInv, CallInv, TimeoutsAreLate
<1>3. CASE HasPacket
  <2>1. /\ UNCHANGED <<readLog, callBase, ttype, received, valid>>
        /\ \/ pc' = "idle" /\ result' = "false"
           \/ pc' = "scan" /\ cont' = "has" /\ result' = "none"
    BY <1>3 DEF HasPacket, Return, StartFind
  <2> QED
    BY <2>1 DEF LateInv, CallInv, TimeoutsAreLate
<1>4. CASE Clear
  BY <1>4 DEF Clear, LateInv, CallInv, TimeoutsAreLate
<1>5. ASSUME NEW s \in BOOLEAN, SetStream(s) PROVE LateInv'
  BY <1>5 DEF SetStream, LateInv, CallInv, TimeoutsAreLate
<1>6. ASSUME NEW flag \in Modes, SetExtractLastPacket(flag) PROVE LateInv'
  BY <1>6 DEF SetExtractLastPacket, LateInv, CallInv, TimeoutsAreLate
<1>7. CASE ResetStatus
  BY <1>7 DEF ResetStatus, LateInv, CallInv, TimeoutsAreLate
<1> QED
  BY <1>1, <1>2, <1>3, <1>4, <1>5, <1>6, <1>7 DEF Client

\* The steps that neither wait nor return an error of their own.
LEMMA LateInvExtract ==
  ASSUME TypeInv, LateInv,
         FindPacket \/ ExtractOnEntry \/ ExtractAfterRead \/ ExtractWithoutStream
           \/ HasPacketReturns
  PROVE  LateInv'
<1> USE DEF driverVars, callVars, streamVars, ghostVars
<1>1. CASE FindPacket
  <2>1. /\ pc = "scan" /\ UNCHANGED <<cont, valid, readLog, callBase, ttype, received>>
        /\ \/ pc' = "idle" /\ result' = "length_error"
           \/ pc' \in {"scan", "pull"} /\ UNCHANGED result
    BY <1>1
    DEF FindPacket, FindTooLong, FindIncomplete, FindGarbage, FindComplete, Return
  <2> QED
    BY <2>1 DEF LateInv, CallInv, TimeoutsAreLate
<1>2. CASE ExtractOnEntry \/ ExtractAfterRead
  <2>1. /\ pc = "pull" /\ UNCHANGED <<valid, readLog, callBase, ttype, received>>
        /\ \/ pc' = "idle" /\ result' \in {"packet", "length_error"}
           \/ pc' = "read" /\ UNCHANGED result
    BY <1>2 DEF ExtractOnEntry, ExtractAfterRead, PullBytes, Return
  <2> QED
    BY <2>1 DEF LateInv, CallInv, TimeoutsAreLate
<1>3. CASE ExtractWithoutStream
  <2>1. /\ pc = "pull" /\ cont = "drain"
        /\ UNCHANGED <<valid, readLog, callBase, ttype, received>>
        /\ \/ pc' = "idle" /\ result' \in {"packet", "PACKET"}
           \/ pc' = "scan" /\ UNCHANGED result
    BY <1>3 DEF ExtractWithoutStream, PullBytes, StartFind, Return
  <2>2. ~valid
    BY <2>1 DEF LateInv, CallInv
  <2> QED
    BY <2>1, <2>2 DEF LateInv, CallInv, TimeoutsAreLate
<1>4. CASE HasPacketReturns
  BY <1>4 DEF HasPacketReturns, Return, LateInv, CallInv, TimeoutsAreLate
<1> QED
  BY <1>1, <1>2, <1>3, <1>4

\* Reading and waiting: a byte read makes the timeout a PACKET one, and the two places
\* that give up look at the clock first.
LEMMA LateInvWait ==
  ASSUME TailInv, LateInv,
         ReadBytes \/ ReadNothing \/ ReadFails \/ Decide
           \/ WaitReadTrue \/ WaitReadFalse \/ WaitInterrupted
  PROVE  LateInv'
<1> USE DEF driverVars, callVars, streamVars, ghostVars
<1>1. /\ elapsed \in Nat /\ first \in Nat /\ pt \in Nat /\ callBase \in Nat
      /\ Len(readLog) \in Nat /\ ttype \in {"FIRST_BYTE", "PACKET"}
  BY TailLengths DEF TailInv, TypeInv, TypeOK
<1>2. CASE ReadBytes
  <2>1. Len(readLog') > Len(readLog) /\ Len(readLog') \in Nat
    BY <1>2, ReadLengths
  <2>2. Len(readLog) >= callBase
    BY <1>1 DEF LateInv, CallInv
  <2>3. Len(readLog') > callBase
    BY <1>1, <2>1, <2>2
  <2>4. /\ received' = TRUE /\ callBase' = callBase /\ pc' = "scan" /\ cont' = "loop"
        /\ result' = result /\ pc = "read"
    BY <1>2 DEF ReadBytes, StartFind
  <2> QED
    BY <2>3, <2>4 DEF LateInv, CallInv, TimeoutsAreLate
<1>3. CASE ReadNothing
  BY <1>3 DEF ReadNothing, LateInv, CallInv, TimeoutsAreLate
<1>4. CASE ReadFails
  BY <1>4 DEF ReadFails, Return, LateInv, CallInv, TimeoutsAreLate
<1>5. CASE Decide
  <2>1. UNCHANGED <<received, elapsed, pt, first, valid, readLog, callBase>> /\ result = "none"
    BY <1>5 DEF Decide, LateInv, CallInv
  <2>2. CASE out # <<>> /\ Return("packet") /\ UNCHANGED ttype
    BY <2>1, <2>2 DEF Return, LateInv, CallInv, TimeoutsAreLate
  <2>3. CASE pt = 0 /\ Return("FIRST_BYTE") /\ UNCHANGED ttype
    BY <2>1, <2>3 DEF Return, LateInv, CallInv, TimeoutsAreLate
  <2>4. CASE ttype' = NextType /\ elapsed > DeadlineOf(NextType) /\ Return(NextType)
    BY <1>1, <2>1, <2>4
    DEF Return, NextType, DeadlineOf, LateInv, CallInv, TimeoutsAreLate
  <2>5. CASE ttype' = NextType /\ pc' = "wait" /\ UNCHANGED result
    BY <1>1, <2>1, <2>5 DEF NextType, LateInv, CallInv, TimeoutsAreLate
  <2> QED
    BY <1>5, <2>2, <2>3, <2>4, <2>5 DEF Decide
<1>6. CASE WaitReadTrue
  <2>1. /\ received' = FALSE /\ UNCHANGED <<ttype, result, valid, readLog, callBase>>
        /\ pc = "wait"
        /\ \/ pc' = "read"
           \/ pc' = "scan" /\ cont' = "entry"
    BY <1>6 DEF WaitReadTrue, EnterReadInternal, StartFind
  <2> QED
    BY <1>1, <2>1 DEF LateInv, CallInv, TimeoutsAreLate
<1>7. CASE WaitReadFalse
  BY <1>1, <1>7
  DEF WaitReadFalse, WaitReadsNothing, Return, DeadlineOf, LateInv, CallInv, TimeoutsAreLate
<1>8. CASE WaitInterrupted
  BY <1>8 DEF WaitInterrupted, WaitReadsNothing, Return, LateInv, CallInv, TimeoutsAreLate
<1> QED
  BY <1>2, <1>3, <1>4, <1>5, <1>6, <1>7, <1>8

LEMMA LateInvNext == TailInv /\ LateInv /\ [Next]_vars => LateInv'
<1> SUFFICES ASSUME TailInv, LateInv, [Next]_vars PROVE LateInv'
  OBVIOUS
<1> USE DEF driverVars, callVars, streamVars, ghostVars
<1>1. CASE Device
  BY <1>1 DEF Device, DeviceSend, DeviceClose, LateInv, CallInv, TimeoutsAreLate
<1>2. CASE Tick
  BY <1>2 DEF Tick, LateInv, CallInv, TimeoutsAreLate
<1>3. CASE UNCHANGED vars
  BY <1>3 DEF vars, LateInv, CallInv, TimeoutsAreLate
<1> QED
  BY <1>1, <1>2, <1>3, LateInvClient, LateInvExtract, LateInvWait DEF Next, Driver, TailInv

\* readPacket throws a TimeoutError only once the deadline of its type is over, and the
\* type tells whether a byte came in during the call, for every pair of timeouts and
\* whatever the device and extractPacket do.
THEOREM TimeoutsInTime == Spec => []TimeoutsAreLate
<1>1. LateInv => TimeoutsAreLate
  BY DEF LateInv
<1> QED
  BY LateInvInit, LateInvNext, TailInvariant, <1>1, PTL DEF Spec
-----------------------------------------------------------------------------
(* Definitions by recursion: induction over a measure, and the existence   *)
(* of what is defined by recursion on something that gets smaller.         *)

\* A set of naturals has a least one.
LEMMA LeastElement ==
  ASSUME NEW T \in SUBSET Nat, T # {}
  PROVE  \E m \in T : \A k \in T : m <= k
<1> DEFINE R == OpToRel(<, Nat)
<1>1. IsWellFoundedOn(R, Nat)
  BY NatLessThanWellFounded
<1>2. \A a, b \in Nat : <<a, b>> \in R <=> a < b
  BY DEF OpToRel
<1> HIDE DEF R
<1>3. PICK m \in T : \A k \in T : ~(<<k, m>> \in R)
  BY <1>1, WFMin
<1>4. m \in Nat /\ \A k \in T : k \in Nat /\ ~(k < m)
  BY <1>2, <1>3
<1>5. \A k \in T : m <= k
  BY <1>4
<1> QED
  BY <1>5

\* Induction over a set: what holds of x whenever it holds of all that is less, by the
\* measure m, holds of all.
LEMMA MeasureInduction ==
  ASSUME NEW S, NEW m \in [S -> Nat], NEW T \in SUBSET S,
         \A x \in S : (\A y \in S : m[y] < m[x] => y \in T) => x \in T
  PROVE  \A x \in S : x \in T
<1> DEFINE D == S \ T
           M == {m[x] : x \in D}
<1>1. SUFFICES ASSUME D # {} PROVE FALSE
  BY Zenon
<1>2. M \in SUBSET Nat /\ M # {}
  BY <1>1
<1>3. PICK l \in M : \A j \in M : l <= j
  <2> HIDE DEF M
  <2> QED
    BY <1>2, LeastElement
<1>4. PICK x \in D : l = m[x]
  BY <1>3
<1>5. ASSUME NEW y \in S, m[y] < m[x], y \notin T PROVE FALSE
  <2>1. y \in S \ T
    BY <1>5
  <2>2. m[y] \in M
    BY <2>1
  <2>3. m[x] <= m[y] /\ m[y] \in Nat /\ m[x] \in Nat
    BY <1>3, <1>4, <2>2
  <2> QED
    BY <1>5, <2>3
<1> QED
  BY <1>4, <1>5, Zenon

\* What f returns is defined by recursion from x to next[x], which is less by the measure m.
Decreases(S, m, next, stop) ==
  m \in [S -> Nat] /\ next \in [S -> S] /\ \A x \in S : x \notin stop => m[next[x]] < m[x]
Recurs(f, S, next, stop, base, step) ==
  \A x \in S : f[x] = IF x \in stop THEN base[x] ELSE step[<<x, f[next[x]]>>]

\* Such a function exists.
LEMMA RecursionIsDefined ==
  ASSUME NEW S, NEW V, NEW m, NEW next, NEW stop, Decreases(S, m, next, stop),
         NEW base \in [S -> V], NEW step \in [S \X V -> V]
  PROVE  \E f \in [S -> V] : Recurs(f, S, next, stop, base, step)
<1> USE DEF Decreases
<1> DEFINE Part(n) == {x \in S : m[x] < n}
           Value(g, x) == IF x \in stop THEN base[x] ELSE step[<<x, g[next[x]]>>]
           Fits(g, n) == g \in [Part(n) -> V] /\ \A x \in Part(n) : g[x] = Value(g, x)
<1>0. ASSUME NEW x \in S, NEW n \in Nat, x \in Part(n + 1), x \notin stop
      PROVE  next[x] \in Part(n)
  <2>1. m[x] \in Nat /\ m[next[x]] \in Nat /\ next[x] \in S /\ m[next[x]] < m[x] /\ m[x] < n + 1
    BY <1>0
  <2> QED
    BY <2>1
<1>1. ASSUME NEW n \in Nat, NEW k \in Nat, NEW g, NEW h, Fits(g, n), Fits(h, k),
             NEW y \in Part(n) \cap Part(k)
      PROVE  g[y] = h[y]
  <2> DEFINE B == Part(n) \cap Part(k)
             T == {x \in S : x \in B => g[x] = h[x]}
  <2>1. ASSUME NEW x \in S, \A z \in S : m[z] < m[x] => z \in T PROVE x \in T
    <3> SUFFICES ASSUME x \in B PROVE g[x] = h[x]
      OBVIOUS
    <3>1. g[x] = Value(g, x) /\ h[x] = Value(h, x)
      BY <1>1, Zenon
    <3>2. CASE x \in stop
      BY <3>1, <3>2
    <3>3. CASE x \notin stop
      <4>1. /\ m[x] \in Nat /\ m[next[x]] \in Nat /\ next[x] \in S
            /\ m[next[x]] < m[x] /\ m[x] < n /\ m[x] < k
        BY <3>3
      <4>2. next[x] \in T /\ next[x] \in B
        BY <2>1, <4>1
      <4> QED
        BY <3>1, <3>3, <4>2
    <3> QED
      BY <3>2, <3>3
  <2>2. T \in SUBSET S /\ y \in S
    OBVIOUS
  <2>3. y \in T
    <3> HIDE DEF T
    <3> QED
      BY <2>1, <2>2, MeasureInduction
  <2> QED
    BY <2>3
<1>2. ASSUME NEW n \in Nat PROVE \E g : Fits(g, n)
  <2> DEFINE B == {k \in Nat : ~\E g : Fits(g, k)}
  <2>1. SUFFICES ASSUME B # {} PROVE FALSE
    BY Zenon
  <2>2. PICK k \in B : \A j \in B : k <= j
    <3>1. B \in SUBSET Nat
      BY Zenon
    <3> HIDE DEF B
    <3> QED
      BY <2>1, <3>1, LeastElement
  <2>3. k \in Nat /\ ~\E g : Fits(g, k)
    BY <2>2, Zenon
  <2>4. CASE k = 0
    <3> DEFINE g == [x \in Part(0) |-> base[x]]
    <3>1. Part(0) = {}
      <4> SUFFICES ASSUME NEW x \in S, m[x] < 0 PROVE FALSE
        OBVIOUS
      <4>1. m[x] \in Nat
        OBVIOUS
      <4> QED
        BY <4>1
    <3>2. Fits(g, 0)
      BY <3>1
    <3> QED
      BY <2>3, <2>4, <3>2
  <2>5. CASE k # 0
    <3> DEFINE p == k - 1
    <3>1. p \in Nat /\ p + 1 = k /\ ~(k <= p)
      BY <2>3, <2>5
    <3> HIDE DEF p
    <3>2. p \notin B
      BY <2>2, <3>1, Zenon
    <3>3. PICK g : Fits(g, p)
      BY <3>1, <3>2, Zenon
    <3> DEFINE h == [x \in Part(k) |-> Value(g, x)]
    <3>4. ASSUME NEW x \in Part(k), x \notin stop
          PROVE  next[x] \in Part(p) /\ next[x] \in Part(k) /\ g[next[x]] \in V
      <4>1. x \in S /\ next[x] \in Part(p)
        BY <1>0, <3>1, <3>4
      <4>2. next[x] \in Part(k)
        <5>1. next[x] \in S /\ m[next[x]] \in Nat /\ m[next[x]] < p
          BY <4>1
        <5> QED
          BY <3>1, <5>1
      <4> QED
        BY <3>3, <4>1, <4>2
    <3>5. \A x \in Part(k) : Value(g, x) \in V
      <4> SUFFICES ASSUME NEW x \in Part(k) PROVE Value(g, x) \in V
        OBVIOUS
      <4>1. x \in S
        OBVIOUS
      <4>2. CASE x \in stop
        BY <4>1, <4>2
      <4>3. CASE x \notin stop
        <5>1. <<x, g[next[x]]>> \in S \X V
          BY <3>4, <4>1, <4>3
        <5> QED
          BY <4>3, <5>1
      <4> QED
        BY <4>2, <4>3
    <3>6. h \in [Part(k) -> V]
      BY <3>5
    <3>7. ASSUME NEW x \in Part(p) PROVE g[x] = h[x]
      <4>1. x \in Part(k)
        <5>1. x \in S /\ m[x] \in Nat /\ m[x] < p
          OBVIOUS
        <5> QED
          BY <3>1, <5>1
      <4>2. g[x] = Value(g, x)
        BY <3>3, Zenon
      <4>3. h[x] = Value(g, x)
        BY <4>1
      <4> QED
        BY <4>2, <4>3, Zenon
    <3>8. \A x \in Part(k) : h[x] = Value(h, x)
      <4> SUFFICES ASSUME NEW x \in Part(k) PROVE h[x] = Value(h, x)
        OBVIOUS
      <4>1. h[x] = Value(g, x)
        OBVIOUS
      <4>2. CASE x \in stop
        BY <4>1, <4>2
      <4>3. CASE x \notin stop
        <5>1. g[next[x]] = h[next[x]]
          BY <3>4, <3>7, <4>3, Zenon
        <5> HIDE DEF h
        <5> QED
          BY <4>1, <4>3, <5>1
      <4> QED
        BY <4>2, <4>3
    <3> HIDE DEF h
    <3>9. Fits(h, k)
      BY <3>6, <3>8, Zenon
    <3> QED
      BY <2>3, <3>9, Zenon
  <2> QED
    BY <2>4, <2>5
<1> DEFINE G(n) == CHOOSE g : Fits(g, n)
           f == [x \in S |-> G(m[x] + 1)[x]]
<1>3. ASSUME NEW x \in S
      PROVE  /\ m[x] + 1 \in Nat /\ x \in Part(m[x] + 1)
             /\ Fits(G(m[x] + 1), m[x] + 1) /\ f[x] = G(m[x] + 1)[x]
  <2>1. m[x] \in Nat /\ m[x] < m[x] + 1 /\ m[x] + 1 \in Nat
    OBVIOUS
  <2>2. Fits(G(m[x] + 1), m[x] + 1)
    BY <1>2, <2>1, Zenon
  <2> QED
    BY <2>1, <2>2
<1>4. f \in [S -> V]
  <2> SUFFICES ASSUME NEW x \in S PROVE f[x] \in V
    OBVIOUS
  <2> HIDE DEF f
  <2>1. G(m[x] + 1) \in [Part(m[x] + 1) -> V]
    BY <1>3, Zenon
  <2>2. x \in Part(m[x] + 1) /\ f[x] = G(m[x] + 1)[x]
    BY <1>3, Zenon
  <2> QED
    BY <2>1, <2>2, Zenon
<1>5. ASSUME NEW x \in S PROVE f[x] = Value(f, x)
  <2> HIDE DEF f
  <2> DEFINE n == m[x] + 1
             g == G(n)
  <2>1. n \in Nat /\ x \in Part(n) /\ Fits(g, n) /\ f[x] = g[x]
    BY <1>3, Zenon
  <2>2. g[x] = Value(g, x)
    BY <2>1, Zenon
  <2>3. CASE x \in stop
    BY <2>1, <2>2, <2>3
  <2>4. CASE x \notin stop
    <3> DEFINE y == next[x]
               k == m[y] + 1
               h == G(k)
    <3>1. y \in S /\ y \in Part(n)
      <4>1. y \in S /\ m[y] \in Nat /\ m[x] \in Nat /\ m[y] < m[x]
        BY <2>4
      <4> QED
        BY <4>1
    <3>2. k \in Nat /\ y \in Part(k) /\ Fits(h, k) /\ f[y] = h[y]
      BY <1>3, <3>1, Zenon
    <3> HIDE DEF n, k, g, h, y
    <3>3. y \in Part(n) \cap Part(k)
      BY <3>1, <3>2
    <3>4. g[y] = h[y]
      <4>1. n \in Nat /\ k \in Nat /\ Fits(g, n) /\ Fits(h, k)
        BY <2>1, <3>2, Zenon DEF n, g
      <4> HIDE DEF Fits, Part
      <4> QED
        BY <1>1, <3>3, <4>1
    <3>5. g[y] = f[y]
      BY <3>2, <3>4, Zenon
    <3> QED
      BY <2>1, <2>2, <2>4, <3>5 DEF y
  <2> QED
    BY <2>3, <2>4
<1> HIDE DEF f
<1> QED
  BY <1>4, <1>5 DEF Recurs

-----------------------------------------------------------------------------
(* findPacket as the recursion it is written as.  While the levels are     *)
(* taken one by one, what the levels to come will find decides what the    *)
(* whole call returns; and what is pulled then leaves no packet behind     *)
(* that the mode of extraction would have taken.                           *)

\* An internal buffer that is not empty is one that findPacket may be called on, and
\* extractPacket answers within its contract.
LEMMA BufferProperties ==
  /\ \A b \in Seq(Byte) : Len(b) \in 1 .. MAX => b \in Buffers
  /\ \A b \in Buffers : /\ b \in Seq(Byte) /\ Len(b) \in 1 .. MAX
                        /\ ExtractPacket(b) \in Int /\ ExtractPacket(b) >= -Len(b)
<1>1. ASSUME NEW b \in Seq(Byte), Len(b) \in 1 .. MAX PROVE b \in Buffers
  <2>1. b \in [1 .. Len(b) -> Byte]
    OBVIOUS
  <2> QED
    BY <1>1, <2>1 DEF Buffers
<1>2. ASSUME NEW b \in Buffers
      PROVE  /\ b \in Seq(Byte) /\ Len(b) \in 1 .. MAX
             /\ ExtractPacket(b) \in Int /\ ExtractPacket(b) >= -Len(b)
  <2>1. PICK n \in 1 .. MAX : b \in [1 .. n -> Byte]
    BY DEF Buffers
  <2>2. n \in Nat
    BY <2>1, SizeAssumption
  <2>3. b \in Seq(Byte) /\ Len(b) = n
    BY <2>1, <2>2
  <2>4. ExtractPacket(b) \in Int /\ ExtractPacket(b) >= -n
    BY <2>1, ExtractAssumption
  <2> QED
    BY <2>1, <2>3, <2>4
<1> QED
  BY <1>1, <1>2

\* What findPacket may return.
Found == [start : Nat, size : Nat \cup {-1}]

\* What a level of findPacket makes of an answer, and what it looks at next.
LEMMA LevelResult ==
  ASSUME NEW b \in Buffers, NEW last \in BOOLEAN
  PROVE  LET answer == ExtractPacket(b)
         IN /\ Skip(answer) \in Nat /\ Size(answer) \in Nat
            /\ Skip(answer) + Size(answer) = 0 <=> answer = 0
            /\ Here(answer, b) \in Found
            /\ \A next \in Found : FromNext(next, answer, last) \in Found
            /\ GoesOn(answer, b, last) =>
                 /\ Rest(answer, b) \in Buffers
                 /\ Len(Rest(answer, b)) = Len(b) - (Skip(answer) + Size(answer))
                 /\ Len(Rest(answer, b)) < Len(b)
<1> DEFINE answer == ExtractPacket(b)
           n == Skip(answer) + Size(answer)
<1>1. /\ b \in Seq(Byte) /\ Len(b) \in 1 .. MAX /\ Len(b) \in Nat /\ MAX \in Nat
      /\ answer \in Int /\ answer >= -Len(b)
  BY BufferProperties, SizeAssumption
<1> HIDE DEF answer
<1>2. Skip(answer) \in Nat /\ Size(answer) \in Nat /\ (n = 0 <=> answer = 0)
  BY <1>1 DEF Skip, Size
<1>3. Here(answer, b) \in Found
  BY <1>1, <1>2 DEF Here, TooLong, Found
<1>4. ASSUME NEW next \in Found PROVE FromNext(next, answer, last) \in Found
  BY <1>2, <1>4 DEF FromNext, Found
<1>5. ASSUME GoesOn(answer, b, last)
      PROVE  /\ Rest(answer, b) \in Buffers /\ Len(Rest(answer, b)) = Len(b) - n
             /\ Len(Rest(answer, b)) < Len(b)
  <2>1. n \in Nat /\ 0 < n /\ n < Len(b)
    BY <1>2, <1>5 DEF GoesOn
  <2> HIDE DEF n
  <2>2. n \in 0 .. Len(b)
    BY <1>1, <2>1
  <2>3. DropFirst(b, n) \in Seq(Byte) /\ Len(DropFirst(b, n)) = Len(b) - n
    BY <1>1, <2>2, DropFirstProperties
  <2>4. Rest(answer, b) = DropFirst(b, n)
    BY DEF Rest, n
  <2>5. Len(b) - n \in 1 .. MAX /\ Len(b) - n < Len(b)
    BY <1>1, <2>1
  <2> QED
    BY <2>3, <2>4, <2>5, BufferProperties
<1> QED
  BY <1>2, <1>3, <1>4, <1>5 DEF answer

\* Find satisfies the equation it is defined by: the rest of a buffer is shorter.
LEMMA FindEquation ==
  ASSUME NEW last \in BOOLEAN, NEW b \in Buffers
  PROVE  LET answer == ExtractPacket(b)
         IN /\ Find(b, last) \in Found
            /\ Find(b, last) = IF GoesOn(answer, b, last)
                               THEN FromNext(Find(Rest(answer, b), last), answer, last)
                               ELSE Here(answer, b)
<1> DEFINE A(c) == ExtractPacket(c)
           Value(f, c) == IF GoesOn(A(c), c, last)
                          THEN FromNext(f[Rest(A(c), c)], A(c), last) ELSE Here(A(c), c)
           m == [c \in Buffers |-> Len(c)]
           next == [c \in Buffers |-> IF GoesOn(A(c), c, last) THEN Rest(A(c), c) ELSE c]
           stop == {c \in Buffers : ~GoesOn(A(c), c, last)}
           base == [c \in Buffers |-> Here(A(c), c)]
           step == [x \in Buffers \X Found |-> FromNext(x[2], A(x[1]), last)]
           found == CHOOSE f : f = [c \in Buffers |-> Value(f, c)]
<1>1. \E f \in [Buffers -> Found] : \A c \in Buffers : f[c] = Value(f, c)
  <2>1. m \in [Buffers -> Nat]
    BY BufferProperties
  <2>2. next \in [Buffers -> Buffers]
    BY LevelResult
  <2>3. stop \in SUBSET Buffers
    OBVIOUS
  <2>4. base \in [Buffers -> Found]
    BY LevelResult
  <2>5. step \in [Buffers \X Found -> Found]
    BY LevelResult
  <2>6. \A c \in Buffers : c \notin stop => m[next[c]] < m[c]
    BY LevelResult
  <2>7. /\ \A c \in Buffers : c \notin stop => next[c] = Rest(A(c), c)
        /\ \A c \in Buffers : c \in stop <=> ~GoesOn(A(c), c, last)
        /\ \A c \in Buffers : base[c] = Here(A(c), c)
        /\ \A c \in Buffers, v \in Found : step[<<c, v>>] = FromNext(v, A(c), last)
    OBVIOUS
  <2> HIDE DEF m, next, stop, base, step
  <2>8. Decreases(Buffers, m, next, stop)
    BY <2>1, <2>2, <2>6 DEF Decreases
  <2>10. PICK f \in [Buffers -> Found] : Recurs(f, Buffers, next, stop, base, step)
    <3> HIDE DEF A, Value, found
    <3> QED
      BY <2>4, <2>5, <2>8, RecursionIsDefined, Zenon
  <2>9. ASSUME NEW c \in Buffers PROVE f[c] = Value(f, c)
    <3>1. CASE c \in stop
      BY <2>7, <2>10, <3>1 DEF Recurs
    <3>2. CASE c \notin stop
      <4>1. f[next[c]] \in Found
        BY <2>2, <2>10
      <4>2. step[<<c, f[next[c]]>>] = FromNext(f[next[c]], A(c), last)
        BY <2>7, <4>1
      <4> QED
        BY <2>7, <2>10, <3>2, <4>2 DEF Recurs
    <3> QED
      BY <3>1, <3>2
  <2> QED
    BY <2>10, <2>9
<1>2. PICK f : f \in [Buffers -> Found] /\ \A c \in Buffers : f[c] = Value(f, c)
  BY <1>1
<1>3. f = [c \in Buffers |-> Value(f, c)]
  BY <1>2
<1>4. found = [c \in Buffers |-> Value(found, c)]
  BY <1>3, Zenon
<1>5. \A c \in Buffers : Find(c, last) = found[c]
  BY DEF Find
<1>6. \A c \in Buffers : found[c] = Value(found, c)
  BY <1>4
<1> HIDE DEF found, m
<1>7. \A c \in Buffers : found[c] \in Found
  <2> DEFINE T == {c \in Buffers : found[c] \in Found}
  <2>1. ASSUME NEW c \in Buffers, \A d \in Buffers : m[d] < m[c] => d \in T PROVE c \in T
    <3>1. CASE GoesOn(A(c), c, last)
      <4>1. Rest(A(c), c) \in Buffers /\ m[Rest(A(c), c)] < m[c]
        BY <3>1, LevelResult DEF m
      <4>2. found[Rest(A(c), c)] \in Found
        BY <2>1, <4>1
      <4>3. FromNext(found[Rest(A(c), c)], A(c), last) \in Found
        BY <4>2, LevelResult
      <4> QED
        BY <1>6, <3>1, <4>3
    <3>2. CASE ~GoesOn(A(c), c, last)
      BY <1>6, <3>2, LevelResult
    <3> QED
      BY <3>1, <3>2
  <2>2. m \in [Buffers -> Nat] /\ T \in SUBSET Buffers
    BY BufferProperties DEF m
  <2>3. \A c \in Buffers : c \in T
    <3> HIDE DEF T
    <3> QED
      BY <2>1, <2>2, MeasureInduction
  <2> QED
    BY <2>3
<1>8. GoesOn(A(b), b, last) => Rest(A(b), b) \in Buffers
  BY LevelResult
<1> QED
  BY <1>5, <1>6, <1>7, <1>8

\* What findPacket returns when its level f.at bytes into the buffer returns `next'.
Whole(f, next, last) ==
  IF f.at = 0 \/ next.size = -1 THEN next
  ELSE IF last /\ next.size = 0 THEN [start |-> f.start, size |-> f.size]
  ELSE [start |-> next.start + f.at, size |-> next.size]

\* What a level that answers r and goes on, or does not, leaves in `find'.
AfterLevel(f, r, last) ==
  IF r < 0
  THEN [at |-> f.at - r, start |-> IF last /\ f.at > 0 THEN f.start ELSE f.at - r,
        size |-> f.size]
  ELSE [at |-> f.at + r, start |-> f.at, size |-> r]

\* The levels above have found nothing yet, or not the last packet of the buffer.
Sound(f, last) ==
  /\ f \in FindType /\ f.start + f.size <= f.at
  /\ ~last => f.size = 0 /\ f.start = f.at

\* One level more is taken into account.
LEMMA WholeStep ==
  ASSUME NEW last \in BOOLEAN, NEW f, Sound(f, last), NEW r \in Int \ {0}, NEW next \in Found
  PROVE  /\ Whole(f, FromNext(next, r, last), last) = Whole(AfterLevel(f, r, last), next, last)
         /\ FromNext(next, r, last).size =
              IF last /\ next.size = 0 THEN Size(r) ELSE next.size
<1> DEFINE g == AfterLevel(f, r, last)
           n == FromNext(next, r, last)
<1>1. /\ f.at \in Nat /\ f.start \in Nat /\ f.size \in Nat /\ f.start + f.size <= f.at
      /\ next.start \in Nat /\ next.size \in Nat \cup {-1}
      /\ ~last => f.size = 0 /\ f.start = f.at
  BY DEF Sound, FindType, Found
<1>2. g.at = f.at + Skip(r) + Size(r) /\ g.at > 0 /\ g.at \in Nat
  BY <1>1 DEF AfterLevel, Skip, Size
<1>3. Skip(r) \in Nat /\ Size(r) \in Nat
  BY DEF Skip, Size
<1>4. CASE next.size = -1
  <2>1. n = next
    BY <1>4 DEF FromNext
  <2> QED
    BY <1>4, <2>1 DEF Whole
<1>5. CASE next.size # -1 /\ last /\ next.size = 0
  <2>1. n = [start |-> Skip(r), size |-> Size(r)]
    BY <1>5 DEF FromNext
  <2>2. Whole(g, next, last) = [start |-> g.start, size |-> g.size]
    BY <1>2, <1>5 DEF Whole
  <2> HIDE DEF n, g
  <2>3. Whole(f, n, last) = [start |-> g.start, size |-> g.size]
    <3>1. CASE f.at = 0
      <4>1. f.start = 0 /\ f.size = 0
        BY <1>1, <3>1
      <4>2. g.start = Skip(r) /\ g.size = Size(r)
        BY <3>1, <4>1 DEF g, AfterLevel, Skip, Size
      <4> QED
        BY <2>1, <3>1, <4>2 DEF Whole
    <3>2. CASE f.at # 0 /\ r < 0
      <4>1. g.start = f.start /\ g.size = f.size /\ n.size = 0
        BY <1>1, <1>5, <2>1, <3>2 DEF g, AfterLevel, Size
      <4> QED
        BY <1>5, <3>2, <4>1 DEF Whole
    <3>3. CASE f.at # 0 /\ ~(r < 0)
      <4>1. g.start = f.at /\ g.size = r /\ n.size = r /\ n.start = 0 /\ r > 0
        BY <1>1, <1>5, <2>1, <3>3 DEF g, AfterLevel, Size, Skip
      <4> QED
        BY <1>1, <1>5, <3>3, <4>1 DEF Whole
    <3> QED
      BY <3>1, <3>2, <3>3
  <2>4. n.size = Size(r)
    BY <2>1
  <2> QED
    BY <1>5, <2>2, <2>3, <2>4 DEF n, g
<1>6. CASE next.size # -1 /\ ~(last /\ next.size = 0)
  <2>1. n = [start |-> next.start + Skip(r) + Size(r), size |-> next.size]
    BY <1>6 DEF FromNext
  <2>2. Whole(g, next, last) = [start |-> next.start + g.at, size |-> next.size]
    BY <1>2, <1>6 DEF Whole
  <2> HIDE DEF n, g
  <2>3. Whole(f, n, last) = [start |-> next.start + g.at, size |-> next.size]
    <3>1. CASE f.at = 0
      BY <1>1, <1>2, <1>3, <2>1, <3>1 DEF Whole
    <3>2. CASE f.at # 0
      <4>1. n.size = next.size /\ n.start = next.start + Skip(r) + Size(r)
        BY <2>1
      <4>2. Whole(f, n, last) = [start |-> n.start + f.at, size |-> n.size]
        BY <1>6, <3>2, <4>1 DEF Whole
      <4>3. n.start + f.at = next.start + g.at
        BY <1>1, <1>2, <1>3, <4>1
      <4> QED
        BY <4>1, <4>2, <4>3
    <3> QED
      BY <3>1, <3>2
  <2> QED
    BY <1>6, <2>1, <2>2, <2>3 DEF n, g
<1> QED
  BY <1>4, <1>5, <1>6

\* The last level.
LEMMA WholeEnd ==
  ASSUME NEW last \in BOOLEAN, NEW f, Sound(f, last), NEW r \in Int
  PROVE  LET g == IF r = 0 THEN f ELSE AfterLevel(f, r, last)
         IN  Whole(f, [start |-> Skip(r), size |-> Size(r)], last)
               = [start |-> g.start, size |-> g.size]
<1>1. /\ f.at \in Nat /\ f.start \in Nat /\ f.size \in Nat /\ f.start + f.size <= f.at
      /\ ~last => f.size = 0 /\ f.start = f.at
  BY DEF Sound, FindType
<1> DEFINE n == [start |-> Skip(r), size |-> Size(r)]
<1>2. n.start = Skip(r) /\ n.size = Size(r) /\ n.size # -1
  BY DEF Size
<1>3. CASE r = 0
  <2>1. n.start = 0 /\ n.size = 0
    BY <1>2, <1>3 DEF Size, Skip
  <2>2. Whole(f, n, last) = [start |-> f.start, size |-> f.size]
    BY <1>1, <2>1, SMTT(30) DEF Whole
  <2> QED
    BY <1>3, <2>2
<1>4. CASE r < 0
  <2>1. n.start = -r /\ n.size = 0
    BY <1>2, <1>4 DEF Size, Skip
  <2>2. Whole(f, n, last) = [start |-> IF last /\ f.at > 0 THEN f.start ELSE f.at - r,
                             size |-> f.size]
    BY <1>1, <2>1 DEF Whole
  <2> QED
    BY <1>4, <2>2 DEF AfterLevel
<1>5. CASE r > 0
  <2>1. n.start = 0 /\ n.size = r
    BY <1>2, <1>5 DEF Size, Skip
  <2>2. Whole(f, n, last) = [start |-> f.at, size |-> r]
    BY <1>1, <1>5, <2>1 DEF Whole
  <2> QED
    BY <1>5, <2>2 DEF AfterLevel
<1> QED
  BY <1>3, <1>4, <1>5

\* There is no packet in b that the current mode of extraction would find.
NoneLeft(b) == b = <<>> \/ Find(b, extractLast).size = 0

\* What has been found, or passed over, in the internal buffer.
Passed == find.start + find.size

\* What the levels to come find is what findPacket finds in the whole buffer, and what it
\* finds behind the packet that has been settled on so far.
ScanInv ==
  pc = "scan" =>
    /\ ~extractLast => find.start = find.at
    /\ Find(ibuf, extractLast) = Whole(find, Find(Level, extractLast), extractLast)
    /\ Find(DropFirst(ibuf, Passed), extractLast).size = Find(Level, extractLast).size

PullInv ==
  pc = "pull" =>
    /\ Find(ibuf, extractLast) = [start |-> find.start, size |-> find.size]
    /\ extractLast \/ find.size = 0 => NoneLeft(DropFirst(ibuf, Passed))

\* A call goes on to read, and ends, only once the internal buffer has been looked at.
AnswerInv ==
  /\ pc # "idle" => result = "none"
  /\ pc \in {"read", "decide", "wait"} => NoneLeft(ibuf)
  /\ result \in {"FIRST_BYTE", "PACKET", "false"} => NoneLeft(ibuf)
  /\ result = "true" => ibuf # <<>> /\ Find(ibuf, extractLast).size > 0
  /\ extractLast /\ result = "packet" => NoneLeft(ibuf)

LookInv == ScanInv /\ PullInv /\ AnswerInv

\* The level that findPacket is at, as Find sees it.
LEMMA LevelEquation ==
  ASSUME TypeInv, pc = "scan"
  PROVE  LET r == ExtractPacket(Level)
             n == Skip(r) + Size(r)
         IN /\ extractLast \in BOOLEAN /\ r \in Int /\ r >= -Len(Level)
            /\ ibuf \in Seq(Byte) /\ Len(ibuf) \in Nat /\ Len(Level) \in Nat
            /\ ibuf \in Buffers /\ Level \in Buffers
            /\ find.at \in Nat /\ find.at + Len(Level) = Len(ibuf)
            /\ find.start \in Nat /\ find.size \in Nat /\ Passed \in 0 .. find.at
            /\ Skip(r) \in Nat /\ Size(r) \in Nat /\ (n = 0 <=> r = 0)
            /\ GoesOn(r, Level, extractLast) =>
                 /\ Rest(r, Level) = DropFirst(ibuf, find.at + n)
                 /\ Find(Rest(r, Level), extractLast) \in Found
                 /\ Find(Level, extractLast) =
                      FromNext(Find(Rest(r, Level), extractLast), r, extractLast)
            /\ ~GoesOn(r, Level, extractLast) => Find(Level, extractLast) = Here(r, Level)
<1> DEFINE r == ExtractPacket(Level)
           n == Skip(r) + Size(r)
<1>1. /\ extractLast \in BOOLEAN /\ r \in Int /\ r >= -Len(Level)
      /\ ibuf \in Seq(Byte) /\ Len(ibuf) \in Nat /\ Len(ibuf) <= MAX /\ Len(Level) \in Nat
      /\ Level \in Seq(Byte) /\ Len(Level) \in 1 .. MAX /\ MAX \in Nat
      /\ find.at \in Nat /\ find.at + Len(Level) = Len(ibuf)
      /\ find.start \in Nat /\ find.size \in Nat /\ Passed \in 0 .. find.at
  BY LevelProperties, LenProperties, SizeAssumption DEF TypeInv, TypeOK, FindInv, Passed
<1>2. ibuf \in Buffers /\ Level \in Buffers
  BY <1>1, BufferProperties
<1>3. Skip(r) \in Nat /\ Size(r) \in Nat /\ (n = 0 <=> r = 0)
  BY <1>1, <1>2, LevelResult
<1>4. ASSUME GoesOn(r, Level, extractLast)
      PROVE  /\ Rest(r, Level) = DropFirst(ibuf, find.at + n)
             /\ Rest(r, Level) \in Buffers
  <2>1. n \in Nat /\ n < Len(Level)
    BY <1>3, <1>4 DEF GoesOn
  <2>2. Rest(r, Level) = DropFirst(Level, n)
    BY DEF Rest
  <2> HIDE DEF n, r
  <2>3. find.at \in 0 .. Len(ibuf) /\ n \in 0 .. Len(ibuf) - find.at
    BY <1>1, <2>1
  <2>4. DropFirst(DropFirst(ibuf, find.at), n) = DropFirst(ibuf, find.at + n)
    BY <1>1, <2>3, DropDrop
  <2>5. Rest(r, Level) \in Buffers
    BY <1>1, <1>2, <1>4, LevelResult DEF r
  <2> QED
    BY <2>2, <2>4, <2>5 DEF Level
<1>5. /\ GoesOn(r, Level, extractLast) =>
           Find(Level, extractLast) =
             FromNext(Find(Rest(r, Level), extractLast), r, extractLast)
      /\ ~GoesOn(r, Level, extractLast) => Find(Level, extractLast) = Here(r, Level)
  BY <1>1, <1>2, FindEquation
<1>6. GoesOn(r, Level, extractLast) => Find(Rest(r, Level), extractLast) \in Found
  BY <1>1, <1>4, FindEquation
<1> HIDE DEF r
<1> QED
  BY <1>1, <1>2, <1>3, <1>4, <1>5, <1>6 DEF r

\* The levels of findPacket that do not throw.
LEMMA LookInvFind ==
  ASSUME TypeInv, ScanInv, FindIncomplete \/ FindGarbage \/ FindComplete
  PROVE  ScanInv' /\ PullInv' /\ pc = "scan" /\ pc' \in {"scan", "pull"}
<1> DEFINE r == ExtractPacket(Level)
           n == Skip(r) + Size(r)
           L == Len(Level)
           f == find
           g == IF r = 0 THEN find ELSE AfterLevel(find, r, extractLast)
           goes == GoesOn(r, Level, extractLast)
           next == Find(DropFirst(ibuf, find.at + n), extractLast)
<1>1. pc = "scan"
  BY DEF FindIncomplete, FindGarbage, FindComplete
<1>2. /\ extractLast \in BOOLEAN /\ r \in Int /\ r >= -L
      /\ ibuf \in Seq(Byte) /\ Len(ibuf) \in Nat /\ L \in Nat
      /\ find.at \in Nat /\ find.at + L = Len(ibuf)
      /\ find.start \in Nat /\ find.size \in Nat /\ Passed \in 0 .. find.at
      /\ Skip(r) \in Nat /\ Size(r) \in Nat /\ (n = 0 <=> r = 0)
      /\ goes => next \in Found /\ Find(Level, extractLast) = FromNext(next, r, extractLast)
      /\ ~goes => Find(Level, extractLast) = Here(r, Level)
  BY <1>1, LevelEquation
<1>3. /\ Sound(find, extractLast)
      /\ Find(ibuf, extractLast) = Whole(find, Find(Level, extractLast), extractLast)
      /\ Find(DropFirst(ibuf, Passed), extractLast).size = Find(Level, extractLast).size
      /\ find \in FindType
  BY <1>1 DEF ScanInv, Sound, TypeInv, TypeOK, FindInv, FindType
<1>4. ibuf' = ibuf /\ extractLast' = extractLast
  BY DEF FindIncomplete, FindGarbage, FindComplete
<1>5. /\ find' = g /\ r <= L
      /\ pc' = IF goes THEN "scan" ELSE "pull"
  <2>1. CASE FindIncomplete
    BY <2>1 DEF FindIncomplete, GoesOn
  <2>2. CASE FindGarbage
    <3>1. r < 0 /\ Skip(r) = -r /\ Size(r) = 0
      BY <1>2, <2>2 DEF FindGarbage, Skip, Size
    <3>2. /\ find' = [find EXCEPT !.at = find.at - r,
                        !.start = IF extractLast /\ find.at > 0 THEN @ ELSE find.at - r]
          /\ pc' = IF find.at - r < Len(ibuf) THEN "scan" ELSE "pull"
      BY <1>2, <2>2 DEF FindGarbage
    <3> HIDE DEF r, L
    <3>3. find' = AfterLevel(find, r, extractLast)
      <4> DEFINE s == IF extractLast /\ find.at > 0 THEN find.start ELSE find.at - r
      <4>1. find' = [find EXCEPT !.at = find.at - r, !.start = s]
        BY <3>2
      <4> HIDE DEF s
      <4>2. find' = [at |-> find.at - r, start |-> s, size |-> find.size]
        BY <1>3, <4>1 DEF FindType
      <4> QED
        BY <3>1, <4>2 DEF AfterLevel, s
    <3>4. find.at - r < Len(ibuf) <=> goes
      BY <1>2, <3>1 DEF GoesOn, L
    <3> QED
      BY <1>2, <3>1, <3>2, <3>3, <3>4
  <2>3. CASE FindComplete
    <3>1. r \in 1 .. L /\ Skip(r) = 0 /\ Size(r) = r /\ r # 0 /\ ~(r < 0)
      BY <1>2, <2>3 DEF FindComplete, Skip, Size
    <3>2. /\ find' = [at |-> find.at + r, start |-> find.at, size |-> r]
          /\ pc' = IF extractLast /\ find.at + r < Len(ibuf) THEN "scan" ELSE "pull"
      BY <2>3 DEF FindComplete
    <3> HIDE DEF r, L
    <3>3. find' = AfterLevel(find, r, extractLast)
      BY <3>1, <3>2 DEF AfterLevel
    <3>4. extractLast /\ find.at + r < Len(ibuf) <=> goes
      BY <1>2, <3>1 DEF GoesOn, L
    <3> QED
      BY <1>2, <3>1, <3>2, <3>3, <3>4
  <2> QED
    BY <2>1, <2>2, <2>3
<1>6. /\ r # 0 => g.at = find.at + n
      /\ \/ g.start + g.size = Passed /\ r <= 0 /\ Size(r) = 0
         \/ g.start + g.size = g.at /\ r # 0 /\ g.size = Size(r)
      /\ ~extractLast /\ r < 0 => g.start = g.at
      /\ g.size # 0 => extractLast \/ r > 0
  BY <1>2, <1>3, SMTT(30) DEF AfterLevel, Sound, Passed, Skip, Size
<1>7. Passed' = g.start + g.size /\ Level' = DropFirst(ibuf, g.at)
  BY <1>4, <1>5 DEF Passed, Level
<1> HIDE DEF r, n, L, g
<1>8. CASE goes
  <2>1. r # 0 /\ (~extractLast => r < 0) /\ r \in Int \ {0}
    BY <1>2, <1>8 DEF GoesOn
  <2>2. g.at = find.at + n /\ Find(Level', extractLast') = next
    BY <1>4, <1>6, <1>7, <2>1
  <2>3. next \in Found /\ Find(Level, extractLast) = FromNext(next, r, extractLast)
    BY <1>2, <1>8
  <2> HIDE DEF next, goes
  <2>4. g = AfterLevel(find, r, extractLast)
    BY <2>1 DEF g
  <2>5. /\ Whole(find, FromNext(next, r, extractLast), extractLast) = Whole(g, next, extractLast)
        /\ FromNext(next, r, extractLast).size =
             IF extractLast /\ next.size = 0 THEN Size(r) ELSE next.size
    BY <1>2, <1>3, <2>1, <2>3, <2>4, WholeStep
  <2>6. Find(ibuf', extractLast') = Whole(find', Find(Level', extractLast'), extractLast')
    BY <1>3, <1>4, <1>5, <2>2, <2>3, <2>5
  <2>7. Find(DropFirst(ibuf', Passed'), extractLast').size = Find(Level', extractLast').size
    <3>1. CASE g.start + g.size = Passed /\ Size(r) = 0
      BY <1>3, <1>4, <1>7, <2>2, <2>3, <2>5, <3>1
    <3>2. CASE g.start + g.size = g.at
      BY <1>4, <1>7, <3>2
    <3> QED
      BY <1>6, <3>1, <3>2
  <2>8. ~extractLast' => find'.start = find'.at
    BY <1>4, <1>5, <1>6, <2>1
  <2> QED
    BY <1>1, <1>5, <1>8, <2>6, <2>7, <2>8 DEF ScanInv, PullInv
<1>9. CASE ~goes
  <2>1. Find(Level, extractLast) = [start |-> Skip(r), size |-> Size(r)]
    BY <1>2, <1>5, <1>9 DEF Here, L
  <2>2. Find(ibuf, extractLast) = [start |-> g.start, size |-> g.size]
    BY <1>2, <1>3, <2>1, WholeEnd DEF g
  <2>3. ASSUME extractLast \/ g.size = 0 PROVE NoneLeft(DropFirst(ibuf, g.start + g.size))
    <3>1. CASE g.start + g.size = Passed /\ Size(r) = 0
      BY <1>3, <2>1, <3>1 DEF NoneLeft
    <3>2. CASE g.start + g.size = g.at /\ r # 0 /\ g.size = Size(r)
      <4>1. n >= L
        BY <1>2, <1>9, <2>3, <3>2 DEF GoesOn, L, n, Size
      <4>2. n <= L
        BY <1>2, <1>5 DEF n, Skip, Size
      <4>3. g.at = Len(ibuf)
        BY <1>2, <1>6, <3>2, <4>1, <4>2 DEF n
      <4> QED
        BY <1>2, <3>2, <4>3, DropAll DEF NoneLeft
    <3> QED
      BY <1>6, <3>1, <3>2
  <2>4. (extractLast \/ find.size = 0 => NoneLeft(DropFirst(ibuf, Passed)))'
    BY <1>4, <1>5, <1>7, <2>3 DEF NoneLeft
  <2> QED
    BY <1>1, <1>4, <1>5, <1>9, <2>2, <2>4 DEF ScanInv, PullInv
<1> QED
  BY <1>8, <1>9

\* findPacket starts at the front of the buffer.
LEMMA LookFromStart ==
  ASSUME ibuf' \in Seq(Byte), find' = NoFind
  PROVE  ScanInv'
<1>1. find'.at = 0 /\ find'.start = 0 /\ find'.size = 0
  BY NoFindType
<1>2. DropFirst(ibuf', 0) = ibuf'
  BY DropAll
<1>3. Level' = ibuf'
  BY <1>1, <1>2 DEF Level
<1>4. Passed' = 0
  BY <1>1 DEF Passed
<1> QED
  BY <1>1, <1>2, <1>3, <1>4 DEF ScanInv, Whole

\* The client's calls: those that look at the buffer start from its front, those that do
\* not answer for an empty one, or say nothing.
LEMMA LookInvClient == TypeInv /\ LookInv /\ Client => LookInv'
<1> SUFFICES ASSUME TypeInv, LookInv, Client PROVE LookInv'
  OBVIOUS
<1> USE DEF driverVars, callVars, streamVars, ghostVars
<1>1. ibuf \in Seq(Byte) /\ pc = "idle"
  BY DEF TypeInv, TypeOK, Client, ReadPacket, ReadPacketSmallBuffer, HasPacket, Clear, SetStream,
         SetExtractLastPacket, ResetStatus
<1>2. ASSUME UNCHANGED ibuf, find' = NoFind, pc' = "scan", result' = "none" PROVE LookInv'
  BY <1>1, <1>2, LookFromStart DEF LookInv, PullInv, AnswerInv
<1>3. ASSUME ibuf = <<>>, UNCHANGED ibuf, pc' \in {"idle", "read"},
             result' # "true", pc' = "read" => result' = "none"
      PROVE  LookInv'
  BY <1>3 DEF LookInv, ScanInv, PullInv, AnswerInv, NoneLeft
<1>4. ASSUME pc' = "idle", result' \in {"none", "length_error"} PROVE LookInv'
  BY <1>4 DEF LookInv, ScanInv, PullInv, AnswerInv
<1>5. ASSUME NEW p \in Timeouts, NEW f \in Timeouts \cup {-1}, ReadPacket(p, f) PROVE LookInv'
  <2>1. UNCHANGED ibuf
    BY <1>5 DEF ReadPacket
  <2>2. CASE ibuf = <<>>
    <3>1. /\ pc' \in {"idle", "read"} /\ result' # "true"
          /\ pc' = "read" => result' = "none"
      BY <1>5, <2>2 DEF ReadPacket, EnterReadInternal, Return
    <3> QED
      BY <1>3, <2>1, <2>2, <3>1
  <2>3. CASE ibuf # <<>>
    <3>1. find' = NoFind /\ pc' = "scan" /\ result' = "none"
      BY <1>5, <2>3 DEF ReadPacket, EnterReadInternal, StartFind
    <3> QED
      BY <1>2, <2>1, <3>1
  <2> QED
    BY <2>2, <2>3
<1>6. CASE HasPacket
  <2>1. CASE ibuf = <<>>
    <3>1. UNCHANGED ibuf /\ pc' = "idle" /\ result' = "false"
      BY <1>6, <2>1 DEF HasPacket, Return
    <3> QED
      BY <1>3, <2>1, <3>1
  <2>2. CASE ibuf # <<>>
    <3>1. UNCHANGED ibuf /\ find' = NoFind /\ pc' = "scan" /\ result' = "none"
      BY <1>6, <2>2 DEF HasPacket, StartFind
    <3> QED
      BY <1>2, <3>1
  <2> QED
    BY <2>1, <2>2
<1>7. CASE ReadPacketSmallBuffer
  BY <1>4, <1>7 DEF ReadPacketSmallBuffer, Return
<1>8. CASE Clear
  BY <1>1, <1>4, <1>8 DEF Clear
<1>9. ASSUME NEW s \in BOOLEAN, SetStream(s) PROVE LookInv'
  BY <1>1, <1>4, <1>9 DEF SetStream
<1>10. ASSUME NEW flag \in Modes, SetExtractLastPacket(flag) PROVE LookInv'
  BY <1>1, <1>4, <1>10 DEF SetExtractLastPacket
<1>11. CASE ResetStatus
  BY <1>1, <1>4, <1>11 DEF ResetStatus
<1> QED
  BY <1>5, <1>6, <1>7, <1>8, <1>9, <1>10, <1>11 DEF Client

\* doPacketExtraction and hasPacket, once findPacket has returned.
LEMMA LookInvExtract ==
  ASSUME TypeInv, LookInv,
         ExtractOnEntry \/ ExtractAfterRead \/ ExtractWithoutStream \/ HasPacketReturns
  PROVE  LookInv'
<1> USE DEF streamVars, ghostVars
<1>1. pc = "pull" /\ result = "none"
  BY DEF ExtractOnEntry, ExtractAfterRead, ExtractWithoutStream, HasPacketReturns, LookInv,
         AnswerInv
<1>2. /\ Find(ibuf, extractLast) = [start |-> find.start, size |-> find.size]
      /\ extractLast \/ find.size = 0 => NoneLeft(DropFirst(ibuf, Passed))
      /\ find.size \in Nat /\ find.start \in Nat
  BY <1>1 DEF LookInv, PullInv, TypeInv, TypeOK
<1>3. PullBytes => /\ ibuf' = DropFirst(ibuf, Passed) /\ extractLast' = extractLast
                   /\ extractLast' \/ find.size = 0 => NoneLeft(ibuf)'
                   /\ ibuf' \in Seq(Byte)
  <2>1. PullBytes => ibuf' \in Seq(Byte)
    BY <1>1, PullBytesType
  <2> QED
    BY <1>2, <2>1 DEF PullBytes, Passed, NoneLeft
<1>4. CASE ExtractOnEntry \/ ExtractAfterRead
  <2>1. /\ PullBytes
        /\ \/ find.size > 0 /\ ~extractLast /\ pc' = "idle" /\ result' = "packet"
           \/ /\ ~(find.size > 0 /\ ~extractLast)
              /\ \/ pc' = "idle" /\ result' = "length_error"
                 \/ pc' = "read" /\ result' = "none"
    BY <1>1, <1>4 DEF ExtractOnEntry, ExtractAfterRead, GotFirst, Return
  <2>2. ~(find.size > 0 /\ ~extractLast) => extractLast \/ find.size = 0
    BY <1>2
  <2> QED
    BY <1>3, <2>1, <2>2 DEF LookInv, ScanInv, PullInv, AnswerInv, NoneLeft
<1>5. CASE ExtractWithoutStream
  <2>1. PullBytes /\ find' = NoFind
    BY <1>5 DEF ExtractWithoutStream, StartFind
  <2>2. CASE find.size > 0 /\ extractLast /\ ibuf' # <<>>
    <3>1. pc' = "scan" /\ result' = "none"
      BY <1>1, <1>5, <2>2 DEF ExtractWithoutStream, StartFind
    <3> QED
      BY <1>3, <2>1, <3>1, LookFromStart DEF LookInv, PullInv, AnswerInv
  <2>3. CASE ~(find.size > 0 /\ extractLast /\ ibuf' # <<>>)
    <3>1. pc' = "idle" /\ result' = IF out' # <<>> THEN "packet" ELSE "PACKET"
      BY <1>5, <2>3 DEF ExtractWithoutStream, Return
    <3>2. find.size > 0 => out' # <<>>
      <4>1. /\ find.start + find.size \in find.start .. Len(ibuf) /\ ibuf \in Seq(Byte)
        BY <1>1, <1>2, LenProperties DEF TypeInv, TypeOK, FindInv
      <4>2. Len(SubSeq(ibuf, find.start + 1, find.start + find.size))
              = find.start + find.size - find.start
        BY <1>2, <4>1, SliceProperties
      <4>3. find.size > 0 => Len(out') = find.size
        BY <1>2, <2>1, <4>2, SMTT(30) DEF PullBytes
      <4>4. Len(<<>>) = 0
        OBVIOUS
      <4> QED
        BY <4>3, <4>4
    <3>3. result' = "PACKET" => NoneLeft(ibuf)'
      BY <1>2, <1>3, <2>1, <3>1, <3>2
    <3>4. extractLast' => NoneLeft(ibuf)'
      BY <1>3, <2>1
    <3>5. result' \in {"packet", "PACKET"}
      BY <3>1
    <3> QED
      BY <3>1, <3>3, <3>4, <3>5 DEF LookInv, ScanInv, PullInv, AnswerInv, NoneLeft
  <2> QED
    BY <2>2, <2>3
<1>6. CASE HasPacketReturns
  <2>1. /\ pc' = "idle" /\ result' = IF find.size > 0 THEN "true" ELSE "false"
        /\ ibuf' = ibuf /\ extractLast' = extractLast
    BY <1>6 DEF HasPacketReturns, Return
  <2>2. find.size > 0 => ibuf # <<>>
    <3>1. find.size > 0 => Len(ibuf) > 0
      BY <1>1, <1>2, LenProperties DEF TypeInv, TypeOK, FindInv
    <3>2. Len(<<>>) = 0
      OBVIOUS
    <3> QED
      BY <3>1, <3>2
  <2> QED
    BY <1>2, <2>1, <2>2 DEF LookInv, ScanInv, PullInv, AnswerInv, NoneLeft
<1> QED
  BY <1>4, <1>5, <1>6

\* Reading and waiting.
LEMMA LookInvWait ==
  ASSUME TypeInv, LookInv, TypeInv',
         ReadBytes \/ ReadNothing \/ ReadFails \/ Decide
           \/ WaitReadTrue \/ WaitReadFalse \/ WaitInterrupted
  PROVE  LookInv'
<1> USE DEF driverVars, callVars, streamVars, ghostVars
<1>1. CASE ReadBytes
  <2>1. pc' = "scan" /\ find' = NoFind /\ result' = result /\ result = "none"
    BY <1>1 DEF ReadBytes, StartFind, LookInv, AnswerInv
  <2>2. ibuf' \in Seq(Byte)
    BY DEF TypeInv, TypeOK
  <2> QED
    BY <2>1, <2>2, LookFromStart DEF LookInv, PullInv, AnswerInv
<1>2. CASE ReadNothing
  BY <1>2 DEF ReadNothing, LookInv, ScanInv, PullInv, AnswerInv, NoneLeft
<1>3. CASE ReadFails
  BY <1>3 DEF ReadFails, Return, LookInv, ScanInv, PullInv, AnswerInv
<1>4. CASE Decide
  <2>1. /\ pc = "decide" /\ UNCHANGED <<ibuf, extractLast>>
        /\ \/ pc' = "idle" /\ result' \in {"packet", "FIRST_BYTE", "PACKET"}
           \/ pc' = "wait" /\ UNCHANGED result
    BY <1>4 DEF Decide, Return, NextType, TypeInv, TypeOK
  <2> QED
    BY <2>1 DEF LookInv, ScanInv, PullInv, AnswerInv, NoneLeft
<1>5. CASE WaitReadTrue
  <2>1. UNCHANGED <<ibuf, extractLast, result>> /\ result = "none" /\ ibuf' \in Seq(Byte)
    BY <1>5 DEF WaitReadTrue, LookInv, AnswerInv, TypeInv, TypeOK
  <2>2. CASE ibuf = <<>>
    <3>1. pc' = "read"
      BY <1>5, <2>2 DEF WaitReadTrue, EnterReadInternal
    <3> QED
      BY <2>1, <2>2, <3>1 DEF LookInv, ScanInv, PullInv, AnswerInv, NoneLeft
  <2>3. CASE ibuf # <<>>
    <3>1. pc' = "scan" /\ find' = NoFind
      BY <1>5, <2>3 DEF WaitReadTrue, EnterReadInternal, StartFind
    <3> QED
      BY <2>1, <3>1, LookFromStart DEF LookInv, PullInv, AnswerInv
  <2> QED
    BY <2>2, <2>3
<1>6. CASE WaitReadFalse \/ WaitInterrupted
  <2>1. /\ pc = "wait" /\ UNCHANGED <<ibuf, extractLast>> /\ pc' = "idle"
        /\ result' \in {"FIRST_BYTE", "PACKET"}
    BY <1>6 DEF WaitReadFalse, WaitInterrupted, WaitReadsNothing, Return, TypeInv, TypeOK
  <2> QED
    BY <2>1 DEF LookInv, ScanInv, PullInv, AnswerInv, NoneLeft
<1> QED
  BY <1>1, <1>2, <1>3, <1>4, <1>5, <1>6

LEMMA LookInvNext == TypeInv /\ LookInv /\ [Next]_vars => LookInv'
<1> SUFFICES ASSUME TypeInv, LookInv, [Next]_vars PROVE LookInv'
  OBVIOUS
<1> USE DEF driverVars, callVars, streamVars, ghostVars
<1>0. TypeInv'
  BY TypeInvNext
<1>1. CASE UNCHANGED <<pc, ibuf, extractLast, find, result>>
  BY <1>1 DEF LookInv, ScanInv, PullInv, AnswerInv, NoneLeft, Passed, Level
<1>2. CASE Device \/ Tick \/ UNCHANGED vars
  BY <1>1, <1>2 DEF Device, DeviceSend, DeviceClose, Tick, vars
<1>3. CASE FindTooLong
  BY <1>3 DEF FindTooLong, Return, LookInv, ScanInv, PullInv, AnswerInv
<1>4. CASE FindIncomplete \/ FindGarbage \/ FindComplete
  <2>1. ScanInv' /\ PullInv' /\ pc = "scan" /\ pc' \in {"scan", "pull"}
    BY <1>4, LookInvFind DEF LookInv
  <2>2. result' = "none"
    BY <1>4, <2>1
    DEF FindIncomplete, FindGarbage, FindComplete, LookInv, AnswerInv
  <2> QED
    BY <2>1, <2>2 DEF LookInv, AnswerInv
<1> QED
  BY <1>0, <1>2, <1>3, <1>4, LookInvClient, LookInvExtract, LookInvWait
  DEF Next, Driver, FindPacket

LEMMA LookInvariant == Spec => []LookInv
<1>1. Init => LookInv
  BY DEF Init, LookInv, ScanInv, PullInv, AnswerInv
<1> QED
  BY <1>1, TypeInvInit, TypeInvNext, LookInvNext, PTL DEF Spec

\* findPacket, taken level by level over the buffer that the driver holds, settles on what
\* the recursion of the source returns, for every extractor within the contract, in either
\* extraction mode.
THEOREM LevelsAreTheRecursion == Spec => []FindMatchesRecursion
<1>1. LookInv => FindMatchesRecursion
  BY DEF LookInv, PullInv, FindMatchesRecursion
<1> QED
  BY <1>1, LookInvariant, PTL

\* hasPacket answers for the buffer as it stands, and readPacket never times out with a
\* complete packet in it.
THEOREM NoPacketOverlooked == Spec => []NoPacketLeftBehind
<1>1. LookInv => NoPacketLeftBehind
  <2> SUFFICES ASSUME LookInv PROVE NoPacketLeftBehind
    OBVIOUS
  <2>1. CASE result = "true"
    BY <2>1 DEF LookInv, AnswerInv, NoPacketLeftBehind
  <2>2. CASE result # "true"
    BY <2>2 DEF LookInv, AnswerInv, NoPacketLeftBehind, NoneLeft
  <2> QED
    BY <2>1, <2>2
<1> QED
  BY <1>1, LookInvariant, PTL

\* With extract_last, the packet that readPacket returns is the last one of the internal
\* buffer.
THEOREM LastIsLatest == Spec => []LastMeansLatest
<1>1. LookInv => LastMeansLatest
  BY DEF LookInv, AnswerInv, LastMeansLatest, NoneLeft
<1> QED
  BY <1>1, LookInvariant, PTL

-----------------------------------------------------------------------------
(* Packet boundaries.  The driver is always at a place where parsing the   *)
(* whole stream in one go cuts it, and such a place stays one when the     *)
(* stream grows.                                                           *)

\* extractPacket is total, and more bytes behind those it has given an answer for
\* do not change the answer.
StableExtract ==
  \A b, c \in Seq(Byte) :
    b # <<>> => /\ ExtractPacket(b) \in Int
                /\ ExtractPacket(b) # 0 => ExtractPacket(b \o c) = ExtractPacket(b)

\* The answer at place p of a stream, and the place it leads to.
AnswerAt(log, p) == ExtractPacket(DropFirst(log, p))
NextCut(log, p) == p + Skip(AnswerAt(log, p)) + Size(AnswerAt(log, p))

\* Where parsing ends.
Ends(log) == {p \in Nat : p >= Len(log) \/ AnswerAt(log, p) = 0}

LEMMA CutMoves ==
  ASSUME StableExtract, NEW log \in Seq(Byte), NEW p \in Nat, p < Len(log)
  PROVE  /\ AnswerAt(log, p) \in Int
         /\ NextCut(log, p) \in Nat
         /\ AnswerAt(log, p) # 0 => NextCut(log, p) > p
         /\ AnswerAt(log, p) # 0 =>
              \A c \in Seq(Byte) : /\ NextCut(log \o c, p) = NextCut(log, p)
                                   /\ AnswerAt(log \o c, p) # 0
<1>1. p \in 0 .. Len(log) /\ Len(log) \in Nat
  BY LenProperties
<1>2. /\ DropFirst(log, p) \in Seq(Byte) /\ Len(DropFirst(log, p)) = Len(log) - p
  BY <1>1, DropFirstProperties
<1>3. DropFirst(log, p) # <<>>
  <2>1. Len(<<>>) = 0
    OBVIOUS
  <2> QED
    BY <1>1, <1>2, <2>1
<1>4. AnswerAt(log, p) \in Int
  BY <1>2, <1>3 DEF StableExtract, AnswerAt
<1>5. ASSUME AnswerAt(log, p) # 0, NEW c \in Seq(Byte)
      PROVE  AnswerAt(log \o c, p) = AnswerAt(log, p)
  <2>1. DropFirst(log \o c, p) = DropFirst(log, p) \o c
    BY <1>1, DropConcat
  <2> QED
    BY <1>2, <1>3, <1>5, <2>1 DEF StableExtract, AnswerAt
<1> QED
  BY <1>4, <1>5 DEF NextCut, Skip, Size

\* The equation that Cuts is defined by has a solution.
LEMMA CutsEquation ==
  ASSUME StableExtract, NEW log \in Seq(Byte)
  PROVE  \E from \in [Nat -> SUBSET Nat] :
           /\ Cuts(log) = from[0]
           /\ \A p \in Nat : from[p] = IF p \in Ends(log) THEN {p}
                                       ELSE {p} \cup from[NextCut(log, p)]
<1> DEFINE L == Len(log)
           Value(f, p) == LET answer == ExtractPacket(DropFirst(log, p))
                          IN IF p >= Len(log) THEN {p}
                             ELSE IF answer = 0 THEN {p}
                             ELSE {p} \cup f[p + Skip(answer) + Size(answer)]
           m == [p \in Nat |-> IF p < L THEN L - p ELSE 0]
           stop == Ends(log)
           next == [p \in Nat |-> IF p \in stop THEN p ELSE NextCut(log, p)]
           base == [p \in Nat |-> {p}]
           step == [x \in Nat \X SUBSET Nat |-> {x[1]} \cup x[2]]
           from == CHOOSE f : f = [p \in Nat |-> Value(f, p)]
<1>1. L \in Nat
  BY LenProperties
<1>2. \A p \in Nat : p \notin stop =>
        p < L /\ AnswerAt(log, p) # 0 /\ NextCut(log, p) \in Nat /\ NextCut(log, p) > p
  <2> HIDE DEF L
  <2>1. \A p \in Nat : p \notin stop => p < Len(log) /\ AnswerAt(log, p) # 0
    BY <1>1 DEF Ends, L
  <2> QED
    BY <2>1, CutMoves DEF L
<1>3. \A f, p : p \in Nat =>
        Value(f, p) = IF p \in stop THEN {p} ELSE {p} \cup f[NextCut(log, p)]
  BY DEF Ends, NextCut, AnswerAt
<1>4. \E f \in [Nat -> SUBSET Nat] : \A p \in Nat : f[p] = Value(f, p)
  <2>1. Decreases(Nat, m, next, stop)
    <3>1. m \in [Nat -> Nat] /\ next \in [Nat -> Nat]
      BY <1>1, <1>2
    <3>2. \A p \in Nat : p \notin stop => m[next[p]] < m[p]
      BY <1>1, <1>2
    <3> QED
      BY <3>1, <3>2 DEF Decreases
  <2>2. base \in [Nat -> SUBSET Nat]
    OBVIOUS
  <2>3. step \in [Nat \X SUBSET Nat -> SUBSET Nat]
    OBVIOUS
  <2>4. /\ \A p \in Nat : p \notin stop => next[p] = NextCut(log, p)
        /\ \A p \in Nat : base[p] = {p}
        /\ \A p \in Nat, v \in SUBSET Nat : step[<<p, v>>] = {p} \cup v
        /\ next \in [Nat -> Nat]
    BY <1>2
  <2> DEFINE V == SUBSET Nat
  <2> HIDE DEF m, next, base, step, stop, Value
  <2>5. PICK f \in [Nat -> V] : Recurs(f, Nat, next, stop, base, step)
    <3> HIDE DEF V
    <3>1. base \in [Nat -> V] /\ step \in [Nat \X V -> V]
      BY <2>2, <2>3 DEF V
    <3> QED
      BY <2>1, <3>1, RecursionIsDefined, Zenon
  <2>6. ASSUME NEW p \in Nat PROVE f[p] = Value(f, p)
    <3>1. next[p] \in Nat /\ f[next[p]] \in SUBSET Nat
      BY <2>4, <2>5
    <3>2. f[p] = IF p \in stop THEN base[p] ELSE step[<<p, f[next[p]]>>]
      BY <2>5, Zenon DEF Recurs
    <3>3. CASE p \in stop
      BY <1>3, <2>4, <3>2, <3>3
    <3>4. CASE p \notin stop
      <4>1. step[<<p, f[next[p]]>>] = {p} \cup f[next[p]]
        BY <2>4, <3>1
      <4>2. f[p] = {p} \cup f[NextCut(log, p)]
        BY <2>4, <3>2, <3>4, <4>1
      <4> QED
        BY <1>3, <3>4, <4>2
    <3> QED
      BY <3>3, <3>4
  <2> QED
    BY <2>5, <2>6
<1>5. PICK f \in [Nat -> SUBSET Nat] : \A p \in Nat : f[p] = Value(f, p)
  BY <1>4, Zenon
<1>6. f = [p \in Nat |-> Value(f, p)]
  <2> HIDE DEF Value
  <2> QED
    BY <1>5
<1>7. from = [p \in Nat |-> Value(from, p)]
  BY <1>6, Zenon
<1>8. Cuts(log) = from[0]
  BY Zenon DEF Cuts
<1>9. \A p \in Nat : from[p] = Value(from, p)
  <2> HIDE DEF Value, from
  <2> QED
    BY <1>7, Zenon
<1> HIDE DEF from, m, Value
<1>10. \A p \in Nat : from[p] = IF p \in stop THEN {p} ELSE {p} \cup from[NextCut(log, p)]
  BY <1>3, <1>9
<1>11. \A p \in Nat : from[p] \in SUBSET Nat
  <2> DEFINE T == {p \in Nat : from[p] \in SUBSET Nat}
  <2>1. ASSUME NEW p \in Nat, \A q \in Nat : m[q] < m[p] => q \in T PROVE p \in T
    <3>1. CASE p \in stop
      BY <1>10, <3>1
    <3>2. CASE p \notin stop
      <4>1. NextCut(log, p) \in Nat /\ m[NextCut(log, p)] < m[p]
        BY <1>1, <1>2, <3>2 DEF m
      <4>2. from[NextCut(log, p)] \in SUBSET Nat
        BY <2>1, <4>1
      <4> QED
        BY <1>10, <3>2, <4>2
    <3> QED
      BY <3>1, <3>2
  <2>2. m \in [Nat -> Nat] /\ T \in SUBSET Nat
    BY <1>1 DEF m
  <2>3. \A p \in Nat : p \in T
    <3> HIDE DEF T
    <3> QED
      BY <2>1, <2>2, MeasureInduction
  <2> QED
    BY <2>3
<1>12. from \in [Nat -> SUBSET Nat]
  <2>1. from = [p \in Nat |-> from[p]]
    BY <1>7 DEF Value
  <2> QED
    BY <1>11, <2>1
<1> QED
  BY <1>8, <1>10, <1>12

\* The cuts of a stream are closed under what extractPacket says at them, and are kept when
\* more bytes come in.
LEMMA CutsClosed ==
  ASSUME StableExtract, NEW log \in Seq(Byte)
  PROVE  /\ Cuts(log) \in SUBSET Nat /\ 0 \in Cuts(log)
         /\ \A p \in Cuts(log) : p \notin Ends(log) => NextCut(log, p) \in Cuts(log)
<1>1. PICK from \in [Nat -> SUBSET Nat] :
        /\ Cuts(log) = from[0]
        /\ \A p \in Nat : from[p] = IF p \in Ends(log) THEN {p}
                                    ELSE {p} \cup from[NextCut(log, p)]
  BY CutsEquation
<1>2. \A p \in Nat : p \in from[p]
  BY <1>1
<1> DEFINE L == Len(log)
           m == [p \in Nat |-> IF p < L THEN L - p ELSE 0]
           T == {p \in Nat : \A q \in from[p] :
                   q \notin Ends(log) => NextCut(log, q) \in from[p]}
<1>3. L \in Nat
  BY LenProperties
<1>4. ASSUME NEW p \in Nat, p \notin Ends(log)
      PROVE  NextCut(log, p) \in Nat /\ m[NextCut(log, p)] < m[p]
  <2> HIDE DEF L
  <2>1. p < L /\ AnswerAt(log, p) # 0
    BY <1>3, <1>4 DEF Ends, L
  <2>2. NextCut(log, p) \in Nat /\ NextCut(log, p) > p
    BY <2>1, CutMoves DEF L
  <2> QED
    BY <1>3, <2>1, <2>2
<1>5. ASSUME NEW p \in Nat, \A q \in Nat : m[q] < m[p] => q \in T PROVE p \in T
  <2>1. CASE p \in Ends(log)
    BY <1>1, <2>1
  <2>2. CASE p \notin Ends(log)
    <3>1. NextCut(log, p) \in T
      BY <1>4, <1>5, <2>2
    <3>2. from[p] = {p} \cup from[NextCut(log, p)]
      BY <1>1, <2>2
    <3>3. NextCut(log, p) \in from[NextCut(log, p)]
      BY <1>2, <1>4, <2>2
    <3> QED
      BY <3>1, <3>2, <3>3
  <2> QED
    BY <2>1, <2>2
<1>6. m \in [Nat -> Nat] /\ T \in SUBSET Nat
  BY <1>3
<1>7. \A p \in Nat : p \in T
  <2> HIDE DEF m, T
  <2> QED
    BY <1>5, <1>6, MeasureInduction
<1> QED
  BY <1>1, <1>2, <1>7

LEMMA CutsKept ==
  ASSUME StableExtract, NEW log \in Seq(Byte), NEW c \in Seq(Byte),
         NEW k \in Cuts(log), k <= Len(log)
  PROVE  k \in Cuts(log \o c)
<1>1. PICK from \in [Nat -> SUBSET Nat] :
        /\ Cuts(log) = from[0]
        /\ \A p \in Nat : from[p] = IF p \in Ends(log) THEN {p}
                                    ELSE {p} \cup from[NextCut(log, p)]
  BY CutsEquation
<1> DEFINE L == Len(log)
           C == Cuts(log \o c)
           m == [p \in Nat |-> IF p < L THEN L - p ELSE 0]
           T == {p \in Nat : p \in C => \A q \in from[p] : q <= L => q \in C}
<1>2. L \in Nat /\ Len(c) \in Nat /\ log \o c \in Seq(Byte) /\ Len(log \o c) = L + Len(c)
  BY LenProperties, ConcatProperties
<1>3. /\ C \in SUBSET Nat /\ 0 \in C
      /\ \A p \in C : p \notin Ends(log \o c) => NextCut(log \o c, p) \in C
  BY <1>2, CutsClosed
<1> HIDE DEF C
<1>4. ASSUME NEW p \in Nat, \A q \in Nat : m[q] < m[p] => q \in T PROVE p \in T
  <2> SUFFICES ASSUME p \in C, NEW q \in from[p], q <= L PROVE q \in C
    OBVIOUS
  <2>1. CASE p \in Ends(log)
    BY <1>1, <2>1
  <2>2. CASE p \notin Ends(log)
    <3>1. p < Len(log) /\ AnswerAt(log, p) # 0
      BY <1>2, <2>2 DEF Ends
    <3>2. /\ NextCut(log, p) \in Nat /\ NextCut(log, p) > p
          /\ NextCut(log \o c, p) = NextCut(log, p) /\ AnswerAt(log \o c, p) # 0
      BY <3>1, CutMoves
    <3>3. p \notin Ends(log \o c)
      BY <1>2, <3>1, <3>2 DEF Ends
    <3>4. NextCut(log, p) \in C
      BY <1>3, <3>2, <3>3
    <3>5. m[NextCut(log, p)] < m[p]
      BY <1>2, <3>1, <3>2
    <3>6. NextCut(log, p) \in T
      BY <1>4, <3>2, <3>5
    <3> QED
      BY <1>1, <2>2, <3>4, <3>6
  <2> QED
    BY <2>1, <2>2
<1>5. m \in [Nat -> Nat] /\ T \in SUBSET Nat
  BY <1>2
<1>6. \A p \in Nat : p \in T
  <2> HIDE DEF m, T
  <2> QED
    BY <1>4, <1>5, MeasureInduction
<1> QED
  BY <1>1, <1>3, <1>6 DEF C

\* What has been consumed, examined and settled on all end at a packet boundary.
CutInv ==
  /\ Consumed \in Cuts(readLog)
  /\ pc \in {"scan", "pull"} =>
       Consumed + find.at \in Cuts(readLog) /\ Consumed + Passed \in Cuts(readLog)

LEMMA CutInvNext ==
  StableExtract /\ "clear" \notin UserOps /\ TailInv /\ CutInv /\ [Next]_vars => CutInv'
<1> SUFFICES ASSUME StableExtract, "clear" \notin UserOps, TailInv, CutInv, [Next]_vars
             PROVE  CutInv'
  OBVIOUS
<1>0. /\ ibuf \in Seq(Byte) /\ readLog \in Seq(Byte)
      /\ Len(ibuf) \in Nat /\ Len(readLog) \in Nat
      /\ Consumed \in 0 .. Len(readLog) /\ Consumed + 0 = Consumed
      /\ Len(readLog) - Consumed = Len(ibuf) /\ ibuf = DropFirst(readLog, Consumed)
  BY TailLengths
<1>1. CASE Quiet
  <2>1. Consumed' = Consumed /\ readLog' = readLog
    BY <1>1 DEF Quiet, Consumed
  <2>2. pc' \in {"scan", "pull"} =>
          \/ find'.at = 0 /\ Passed' = 0
          \/ pc \in {"scan", "pull"} /\ find' = find /\ Passed' = Passed
    BY <1>1, NoFindType DEF Quiet, Passed
  <2> QED
    BY <1>0, <2>1, <2>2 DEF CutInv
<1>2. CASE Pull
  <2>1. find'.at = 0 /\ Passed' = 0
    BY <1>2, NoFindType DEF Pull, Passed
  <2>2. Consumed' = Consumed + Passed /\ readLog' = readLog /\ Consumed' + 0 = Consumed'
    BY <1>0, <1>2, PullLengths DEF Passed
  <2> QED
    BY <1>2, <2>1, <2>2 DEF CutInv, Pull
<1>3. CASE ReadBytes
  <2>1. find'.at = 0 /\ Passed' = 0 /\ Consumed' = Consumed
    BY <1>3, NoFindType, ReadLengths DEF ReadBytes, StartFind, Passed
  <2>2. PICK c \in Seq(Byte) : readLog' = readLog \o c
    BY <1>3, ReadLengths
  <2>3. Consumed \in Cuts(readLog) /\ Consumed <= Len(readLog)
    BY <1>0 DEF CutInv
  <2>4. Consumed \in Cuts(readLog')
    BY <1>0, <2>2, <2>3, CutsKept
  <2> QED
    BY <1>0, <2>1, <2>4 DEF CutInv
<1>4. CASE FindGarbage \/ FindComplete
  <2> DEFINE r == ExtractPacket(Level)
             n == Skip(r) + Size(r)
             p == Consumed + find.at
  <2>1. /\ TypeInv /\ pc = "scan" /\ UNCHANGED <<ibuf, readLog>>
    BY <1>4 DEF FindGarbage, FindComplete, TailInv, ghostVars
  <2>2. /\ r \in Int /\ find.at \in Nat /\ find.at + Len(Level) = Len(ibuf) /\ r >= -Len(Level)
        /\ find.start \in Nat /\ find.size \in Nat /\ Len(Level) \in Nat
        /\ find \in FindType /\ find.at < Len(ibuf)
        /\ find.start + find.size <= find.at
        /\ ~extractLast => find.size = 0
    BY <2>1, LevelEquation DEF TypeInv, TypeOK, FindInv, FindType
  <2>3. Consumed' = Consumed
    BY <2>1 DEF Consumed
  <2>4. p \in Cuts(readLog) /\ Consumed + Passed \in Cuts(readLog)
    BY <2>1 DEF CutInv
  <2>5. Level = DropFirst(readLog, p)
    <3>1. find.at \in 0 .. Len(readLog) - Consumed
      BY <1>0, <2>2
    <3> QED
      BY <1>0, <3>1, DropDrop DEF Level
  <2>6. /\ find'.at = find.at + n /\ r # 0
        /\ \/ find'.start + find'.size = Passed
           \/ find'.start + find'.size = find'.at
    <3>1. CASE FindGarbage
      <4>1. r < 0 /\ Skip(r) = -r /\ Size(r) = 0
        BY <2>2, <3>1 DEF FindGarbage, Skip, Size
      <4>2. find' = [find EXCEPT !.at = find.at - r,
                        !.start = IF extractLast /\ find.at > 0 THEN @ ELSE find.at - r]
        BY <2>2, <3>1 DEF FindGarbage
      <4> HIDE DEF r
      <4>3. /\ find'.at = find.at - r /\ find'.size = find.size
            /\ find'.start = IF extractLast /\ find.at > 0 THEN find.start ELSE find.at - r
        BY <2>2, <4>2 DEF FindType
      <4> QED
        BY <2>2, <4>1, <4>3 DEF Passed
    <3>2. CASE FindComplete
      <4>1. r > 0 /\ Skip(r) = 0 /\ Size(r) = r
        BY <2>2, <3>2 DEF FindComplete, Skip, Size
      <4>2. find'.at = find.at + r /\ find'.start = find.at /\ find'.size = r
        BY <3>2 DEF FindComplete
      <4> QED
        BY <2>2, <4>1, <4>2
    <3> QED
      BY <1>4, <3>1, <3>2
  <2>7. NextCut(readLog, p) = p + Skip(r) + Size(r) /\ AnswerAt(readLog, p) = r
    BY <2>5 DEF NextCut, AnswerAt
  <2>8. p \in Nat /\ p < Len(readLog)
    BY <1>0, <2>2
  <2>9. p \notin Ends(readLog)
    BY <1>0, <2>6, <2>7, <2>8 DEF Ends
  <2>10. p + Skip(r) + Size(r) \in Cuts(readLog)
    BY <1>0, <2>4, <2>7, <2>9, CutsClosed
  <2>11. p + Skip(r) + Size(r) = Consumed + find'.at
    <3>1. Skip(r) \in Nat /\ Size(r) \in Nat
      BY <2>2 DEF Skip, Size
    <3> HIDE DEF r
    <3> QED
      BY <1>0, <2>2, <2>6, <3>1
  <2>12. Passed' = find'.start + find'.size
    BY DEF Passed
  <2> HIDE DEF r, p, n
  <2>13. Consumed + Passed' \in Cuts(readLog)
    BY <2>4, <2>6, <2>10, <2>11, <2>12
  <2> QED
    BY <2>1, <2>3, <2>4, <2>10, <2>11, <2>13 DEF CutInv
<1>5. CASE ResetStatus \/ \E flag \in Modes : SetExtractLastPacket(flag)
  BY <1>5 DEF ResetStatus, SetExtractLastPacket, CutInv, Consumed, ghostVars
<1>6. ~Clear
  BY DEF Clear
<1> QED
  BY <1>1, <1>2, <1>3, <1>4, <1>5, <1>6, StepCases

LEMMA CutInvInit == StableExtract /\ Init => CutInv
<1> SUFFICES ASSUME StableExtract, Init PROVE CutInv
  OBVIOUS
<1>1. readLog \in Seq(Byte) /\ Consumed = 0 /\ pc = "idle"
  BY EmptySeq DEF Init, Consumed
<1> QED
  BY <1>1, CutsClosed DEF CutInv

\* The packet boundaries that the driver finds are those of the whole stream parsed in one
\* go, whatever the chunks that read() returns, for an extractor whose answers do not
\* depend on later bytes and a client that does not call clear(), which drops bytes of a
\* packet that is under way.
THEOREM ChunksDoNotMatter ==
  StableExtract /\ "clear" \notin UserOps => (Spec => []CutsDoNotDependOnChunks)
<1> SUFFICES ASSUME StableExtract, "clear" \notin UserOps
             PROVE  Spec => []CutsDoNotDependOnChunks
  OBVIOUS
<1>1. Init => CutInv
  BY CutInvInit
<1>2. TailInv /\ CutInv /\ [Next]_vars => CutInv'
  BY CutInvNext
<1>3. CutInv => CutsDoNotDependOnChunks
  BY DEF CutInv, CutsDoNotDependOnChunks
<1> QED
  BY <1>1, <1>2, <1>3, TailInvariant, PTL DEF Spec
=============================================================================
