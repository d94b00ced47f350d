------------------------- MODULE DriverWrite_proofs -------------------------
(***************************************************************************)
(* Theorems about DriverWrite, for every packet size, timeout, capacity,   *)
(* time at which a call begins and width of an int, and any number of      *)
(* packets and calls.                                                      *)
(***************************************************************************)
EXTENDS DriverWrite, TLAPS, SequenceTheorems

USE DEF argVars, outVars, clockVars

-----------------------------------------------------------------------------
(* The invariants.                                                         *)

\* Inside a call nothing is answered yet, and waitWrite is called with bytes left.
CallInv ==
  /\ pc # "idle" => result = "none"
  /\ pc \in {"left", "wait"} => written < size

\* What the kernel took last is what the call has written of its packet.
SentInv ==
  /\ pc # "idle" \/ result = "true" =>
       /\ written <= Len(accepted)
       /\ \A i \in 1 .. written : accepted[Len(accepted) - written + i] = <<packet, i>>
  /\ result = "true" => written = size

\* Every byte taken belongs to a whole packet, to one given up, or to the call.
CountInv == tx + partial + (IF pc = "idle" THEN 0 ELSE written) = Len(accepted)

\* select() is given the time left, and nothing else ends the call without a signal.
LateInv ==
  /\ timeout * Thousand < 2 * IntLimit
  /\ pc = "wait" /\ waited >= 0 => WaitUntil > (timeout - 1) * Thousand
  /\ WriteTimeoutsAreLate

-----------------------------------------------------------------------------
(* Lemmas on bytes and sequences.                                          *)

\* The bytes given to write() and to writeData: n of them, numbered from i on.
LEMMA BytesProperties ==
  ASSUME NEW p \in Nat, NEW i \in Nat \ {0}, NEW n \in Nat
  PROVE  /\ Bytes(p, i, n) \in Seq(Byte)
         /\ Len(Bytes(p, i, n)) = n
         /\ \A j \in 1 .. n : Bytes(p, i, n)[j] = <<p, i + j - 1>>
<1>1. \A j \in 1 .. n : <<p, i + j - 1>> \in Byte
  BY DEF Byte
<1> QED
  BY <1>1 DEF Bytes

\* Reverse, by which the community modules define IsSuffix.
LEMMA ReverseProperties ==
  ASSUME NEW s \in Seq(Byte)
  PROVE  /\ Reverse(s) \in Seq(Byte)
         /\ Len(Reverse(s)) = Len(s)
         /\ \A i \in 1 .. Len(s) : Reverse(s)[i] = s[Len(s) - i + 1]
<1>1. Len(s) \in Nat /\ \A i \in 1 .. Len(s) : s[i] \in Byte
  BY LenProperties
<1>2. \A i \in 1 .. Len(s) : s[(Len(s) - i) + 1] \in Byte
  BY <1>1
<1> QED
  BY <1>1, <1>2 DEF Reverse

\* A sequence that ends in the elements of another has it for a suffix.
LEMMA SuffixByElements ==
  ASSUME NEW s \in Seq(Byte), NEW t \in Seq(Byte), Len(s) <= Len(t),
         \A i \in 1 .. Len(s) : t[Len(t) - Len(s) + i] = s[i]
  PROVE  IsSuffix(s, t)
<1> DEFINE rs == Reverse(s)
           rt == Reverse(t)
<1>1. Len(s) \in Nat /\ Len(t) \in Nat
  BY LenProperties
<1>2. /\ rs \in Seq(Byte) /\ Len(rs) = Len(s) /\ rt \in Seq(Byte) /\ Len(rt) = Len(t)
      /\ \A i \in 1 .. Len(s) : rs[i] = s[Len(s) - i + 1]
      /\ \A i \in 1 .. Len(t) : rt[i] = t[Len(t) - i + 1]
  BY ReverseProperties
<1> HIDE DEF rs, rt
<1>3. ASSUME NEW i \in 1 .. Len(s) PROVE rs[i] = rt[i]
  <2>1. Len(s) - i + 1 \in 1 .. Len(s) /\ i \in 1 .. Len(t)
    BY <1>1
  <2>2. rs[i] = s[Len(s) - i + 1]
    BY <1>2
  <2>3. rt[i] = t[Len(t) - Len(s) + (Len(s) - i + 1)]
    BY <1>1, <1>2, <2>1
  <2> QED
    BY <2>1, <2>2, <2>3
<1>4. /\ SubSeq(rs, 1, Len(rs)) \in Seq(Byte) /\ Len(SubSeq(rs, 1, Len(rs))) = Len(s)
      /\ \A i \in 1 .. Len(s) : SubSeq(rs, 1, Len(rs))[i] = rs[i]
  BY <1>1, <1>2, SubSeqFull
<1>5. /\ SubSeq(rt, 1, Len(rs)) \in Seq(Byte) /\ Len(SubSeq(rt, 1, Len(rs))) = Len(s)
      /\ \A i \in 1 .. Len(s) : SubSeq(rt, 1, Len(rs))[i] = rt[i]
  <2>1. \A i \in 1 .. Len(s) : rt[i] \in Byte
    BY <1>1, <1>2, ElementOfSeq
  <2> QED
    BY <1>1, <1>2, <2>1, SubSeqProperties
<1>6. SubSeq(rs, 1, Len(rs)) = SubSeq(rt, 1, Len(rs))
  <2> DEFINE a == SubSeq(rs, 1, Len(rs))
             b == SubSeq(rt, 1, Len(rs))
  <2>1. /\ a \in Seq(Byte) /\ b \in Seq(Byte) /\ Len(a) = Len(b)
        /\ \A i \in 1 .. Len(a) : a[i] = b[i]
    BY <1>3, <1>4, <1>5
  <2> HIDE DEF a, b
  <2>2. a = b
    BY <2>1, SeqEqual
  <2> QED
    BY <2>2 DEF a, b
<1> QED
  BY <1>2, <1>6 DEF IsSuffix, IsPrefix, rs, rt

-----------------------------------------------------------------------------
(* Types.                                                                  *)

TypeInv == TypeOK /\ CallInv

\* What a write takes is within the packet and within the kernel's room.
LEMMA WriteBounds ==
  ASSUME TypeOK, NEW c \in 0 .. Capacity, Write(c)
  PROVE  c \in Nat /\ written + c <= size /\ held + c <= Capacity
<1>1. written \in Nat /\ size \in Nat /\ written <= size /\ held \in Nat
      /\ held <= Capacity /\ Capacity \in Nat
  BY WriteAssumption DEF TypeOK
<1>2. c = Min2(Remaining, Capacity - held) \/ c = 0
  BY DEF Write
<1> QED
  BY <1>1, <1>2 DEF Min2, Remaining

\* The listener and the kernel are given the bytes the call has come to.
LEMMA TakenProperties ==
  ASSUME TypeOK, NEW c \in Nat
  PROVE  /\ Taken(c) = Bytes(packet, written + 1, c)
         /\ Taken(c) \in Seq(Byte) /\ Len(Taken(c)) = c
         /\ \A j \in 1 .. c : Taken(c)[j] = <<packet, written + j>>
<1>1. packet \in Nat /\ written \in Nat /\ written + 1 \in Nat \ {0}
  BY WriteAssumption DEF TypeOK
<1> DEFINE b == Bytes(packet, written + 1, c)
<1>2. /\ b \in Seq(Byte) /\ Len(b) = c
      /\ \A j \in 1 .. c : b[j] = <<packet, written + 1 + j - 1>>
  BY <1>1, BytesProperties
<1>3. \A j \in 1 .. c : written + 1 + j - 1 = written + j
  BY <1>1
<1>4. \A j \in 1 .. c : b[j] = <<packet, written + j>>
  <2> HIDE DEF b
  <2> QED
    BY <1>2, <1>3
<1> QED
  BY <1>2, <1>4 DEF Taken

LEMMA SecondIsPositive == MicroPerSecond \in Nat \ {0}
<1>1. Thousand \in Nat /\ Thousand >= 1
  BY WriteAssumption
<1>2. Thousand * Thousand \in Nat /\ Thousand * Thousand >= 1
  BY <1>1
<1> QED
  BY <1>2 DEF MicroPerSecond

\* A quotient is less than one away from the exact one.
LEMMA QuotientProperties ==
  ASSUME NEW x \in Int, NEW n \in Nat \ {0}
  PROVE  /\ Quotient(x, n) \in Int
         /\ x < Quotient(x, n) * n + n /\ Quotient(x, n) * n < x + n
<1>1. ASSUME NEW y \in Nat
      PROVE  y \div n \in Nat /\ (y \div n) * n <= y /\ y < (y \div n) * n + n
  OBVIOUS
<1>2. CASE x >= 0
  BY <1>1, <1>2 DEF Quotient
<1>3. CASE x < 0
  <2> DEFINE q == (-x) \div n
  <2>1. q \in Nat /\ q * n <= -x /\ -x < q * n + n
    <3>1. -x \in Nat
      BY <1>3
    <3> QED
      BY <1>1, <3>1
  <2>2. Quotient(x, n) = -q
    BY <1>3 DEF Quotient
  <2> HIDE DEF q
  <2>3. (-q) * n = -(q * n) /\ q * n \in Int
    BY <2>1
  <2> QED
    BY <2>1, <2>2, <2>3
<1> QED
  BY <1>2, <1>3

\* The code's count of milliseconds is less than one away from the time, early or late.
LEMMA MillisProperties ==
  ASSUME TypeOK
  PROVE  /\ Millis \in Int
         /\ Millis * Thousand < elapsed + Thousand /\ elapsed < Millis * Thousand + Thousand
<1> DEFINE clock == start + elapsed
           seconds == clock \div MicroPerSecond
           difference == (clock % MicroPerSecond) - start
           quotient == Quotient(difference, Thousand)
<1>1. /\ Thousand \in Nat \ {0} /\ MicroPerSecond \in Nat \ {0}
      /\ start \in Nat /\ elapsed \in Nat /\ clock \in Nat
  BY WriteAssumption, SecondIsPositive DEF TypeOK
<1>2. /\ seconds \in Nat /\ difference \in Int
      /\ clock = seconds * MicroPerSecond + (difference + start)
  <2>1. \A a \in Nat, n \in Nat \ {0} :
          a \div n \in Nat /\ a % n \in Nat /\ a = (a \div n) * n + (a % n)
    OBVIOUS
  <2>2. /\ clock \div MicroPerSecond \in Nat /\ clock % MicroPerSecond \in Nat
        /\ clock = (clock \div MicroPerSecond) * MicroPerSecond + (clock % MicroPerSecond)
    BY <1>1, <2>1
  <2> QED
    BY <1>1, <2>2
<1>3. /\ quotient \in Int /\ difference < quotient * Thousand + Thousand
      /\ quotient * Thousand < difference + Thousand
  BY <1>1, <1>2, QuotientProperties
<1>4. Millis = seconds * Thousand + quotient
  BY DEF Millis
<1> HIDE DEF seconds, difference, quotient
<1>5. /\ elapsed = seconds * MicroPerSecond + difference
      /\ (seconds * Thousand + quotient) * Thousand
           = seconds * MicroPerSecond + quotient * Thousand
  <2>1. (seconds * Thousand + quotient) * Thousand
          = seconds * (Thousand * Thousand) + quotient * Thousand
    BY <1>1, <1>2, <1>3
  <2> QED
    BY <1>1, <1>2, <2>1 DEF MicroPerSecond
<1>6. seconds * MicroPerSecond \in Int /\ quotient * Thousand \in Int
  BY <1>1, <1>2, <1>3
<1> QED
  BY <1>1, <1>2, <1>3, <1>4, <1>5, <1>6

LEMMA TypeInvInit == Init => TypeInv
<1> SUFFICES ASSUME Init PROVE TypeInv
  OBVIOUS
<1>1. <<>> \in Seq(Byte)
  OBVIOUS
<1>2. /\ buffered \in Seq(Byte) /\ accepted \in Seq(Byte)
      /\ flushed \in Seq(Byte) /\ overheard \in Seq(Byte)
  BY <1>1 DEF Init
<1>3. packet \in 1 .. MaxPackets /\ calls \in 0 .. MaxCalls /\ held \in 0 .. Capacity
  BY WriteAssumption DEF Init
<1>4. written \in 0 .. size /\ now \in 0 .. elapsed /\ start \in 0 .. (MicroPerSecond - 1)
  BY SecondIsPositive DEF Init
<1>5. /\ pc \in {"idle", "write", "left", "wait"} /\ valid \in BOOLEAN /\ size \in Nat
      /\ timeout \in Nat /\ elapsed \in Nat /\ waited \in Int /\ tx \in Nat
      /\ result \in {"none", "true", "PACKET", "NONE", "unix_error", "runtime_error"}
      /\ partial \in Nat
  BY DEF Init
<1>6. listening \in BOOLEAN /\ interrupted \in BOOLEAN
  BY DEF Init
<1>7. TypeOK
  BY <1>2, <1>3, <1>4, <1>5, <1>6 DEF TypeOK
<1> QED
  BY <1>7 DEF Init, TypeInv, CallInv

LEMMA TypeInvNext == TypeInv /\ [Next]_vars => TypeInv'
<1> SUFFICES ASSUME TypeInv, [Next]_vars PROVE TypeInv'
  OBVIOUS
<1> USE WriteAssumption
<1>1. ASSUME NEW n \in Sizes, NEW t \in Timeouts, WritePacket(n, t) PROVE TypeInv'
  <2>1. TypeOK'
    <3>1. packet' \in 1 .. MaxPackets /\ calls' \in 0 .. MaxCalls
      BY <1>1 DEF WritePacket, ChoosePacket, TypeInv, TypeOK
    <3>2. t \div Thousand \in Nat
      <4>1. t \in Nat
        BY <1>1
      <4> QED
        BY <4>1
    <3>3. size' \in Nat /\ written' \in 0 .. size' /\ timeout' \in Nat /\ elapsed' \in Nat
          /\ now' \in 0 .. elapsed' /\ start' \in 0 .. (MicroPerSecond - 1)
      BY <1>1, <3>2 DEF WritePacket
    <3> QED
      BY <1>1, <3>1, <3>3 DEF WritePacket, TypeInv, TypeOK, MicroPerSecond
  <2> QED
    BY <1>1, <2>1 DEF WritePacket, TypeInv, CallInv
<1>2. CASE AddListener \/ RemoveListener
  BY <1>2 DEF AddListener, RemoveListener, ClientOfListener, TypeInv, TypeOK, CallInv, MicroPerSecond
<1>3. CASE FlushWrite
  <2>1. flushed \o buffered \in Seq(Byte) /\ <<>> \in Seq(Byte)
    BY ConcatProperties DEF TypeInv, TypeOK
  <2>2. flushed' \in Seq(Byte) /\ buffered' \in Seq(Byte)
    BY <1>3, <2>1 DEF FlushWrite
  <2> QED
    BY <1>3, <2>2 DEF FlushWrite, ClientOfListener, TypeInv, TypeOK, CallInv, MicroPerSecond
<1>4. ASSUME NEW c \in 0 .. Capacity, Write(c) PROVE TypeInv'
  <2>1. c \in Nat /\ written + c <= size /\ held + c <= Capacity
    BY <1>4, WriteBounds DEF TypeInv
  <2>2. Taken(c) \in Seq(Byte) /\ Taken(c) = Bytes(packet, written + 1, c)
    BY <2>1, TakenProperties DEF TypeInv
  <2>3. /\ accepted \o Taken(c) \in Seq(Byte) /\ buffered \o Taken(c) \in Seq(Byte)
        /\ overheard \o Taken(c) \in Seq(Byte)
    <3>1. accepted \in Seq(Byte) /\ buffered \in Seq(Byte) /\ overheard \in Seq(Byte)
      BY DEF TypeInv, TypeOK
    <3> QED
      BY <2>2, <3>1, ConcatProperties
  <2>4. /\ accepted' \in Seq(Byte) /\ buffered' \in Seq(Byte) /\ overheard' \in Seq(Byte)
        /\ flushed' = flushed
    BY <1>4, <2>2, <2>3, Zenon DEF Write, WriteData, TypeInv, TypeOK
  <2>5. /\ pc = "write" /\ written' = written + c /\ held' = held + c /\ now' = elapsed
        /\ size' = size /\ timeout' = timeout /\ elapsed' = elapsed /\ packet' = packet
        /\ calls' = calls /\ listening' = listening /\ interrupted' = interrupted
        /\ waited' = waited /\ start' = start /\ valid' = valid
    BY <1>4 DEF Write
  <2>7. AfterWrite(c)
    BY <1>4 DEF Write
  <2>8. CASE written' = size /\ tx' = tx + size /\ pc' = "idle" /\ result' = "true"
             /\ UNCHANGED partial
    BY <2>1, <2>4, <2>5, <2>8 DEF TypeInv, TypeOK, CallInv, MicroPerSecond
  <2>9. CASE Throw("PACKET") /\ UNCHANGED tx
    BY <2>1, <2>4, <2>5, <2>9 DEF Throw, TypeInv, TypeOK, CallInv, MicroPerSecond
  <2>10. CASE written' # size /\ pc' = "left" /\ UNCHANGED <<tx, result, partial>>
    BY <2>1, <2>4, <2>5, <2>10 DEF TypeInv, TypeOK, CallInv, MicroPerSecond
  <2> QED
    BY <2>7, <2>8, <2>9, <2>10 DEF AfterWrite
<1>5. CASE WriteFails \/ WaitWriteFalse \/ WaitInterrupted \/ WaitWriteRefused
  <2>1. PICK r \in {"unix_error", "NONE"} : ThrowOnly(r) /\ interrupted' \in BOOLEAN
    BY <1>5 DEF WriteFails, WaitWriteFalse, WaitInterrupted, WaitWriteRefused, TypeInv, TypeOK
  <2> QED
    BY <2>1 DEF ThrowOnly, Throw, TypeInv, TypeOK, CallInv, MicroPerSecond
<1>6. CASE WaitWriteTrue
  BY <1>6 DEF WaitWriteTrue, TypeInv, TypeOK, CallInv, MicroPerSecond
<1>7. CASE PeerReads
  BY <1>7 DEF PeerReads, TypeInv, TypeOK, CallInv, MicroPerSecond
<1>8. CASE Tick
  <2>1. /\ elapsed' = elapsed + 1
        /\ UNCHANGED <<pc, argVars, written, now, waited, outVars, result, partial,
                       interrupted>>
    BY <1>8 DEF Tick
  <2> QED
    BY <2>1 DEF TypeInv, TypeOK, CallInv, MicroPerSecond
<1>9. CASE StartWait
  <2>1. MicroLeft \in Int
    <3>1. TimeLeft \in Int /\ Thousand \in Int /\ IntLimit \in Nat \ {0}
      BY MillisProperties DEF TimeLeft, TypeInv, TypeOK
    <3> QED
      BY <3>1 DEF MicroLeft
  <2> QED
    BY <1>9, <2>1 DEF StartWait, TypeInv, TypeOK, CallInv, MicroPerSecond
<1>10. CASE WritePacketWithoutStream
  BY <1>10 DEF WritePacketWithoutStream, TypeInv, TypeOK, CallInv, MicroPerSecond
<1>12. ASSUME NEW s \in BOOLEAN, SetStream(s) PROVE TypeInv'
  <2>1. held' \in 0 .. Capacity
    BY <1>12 DEF SetStream
  <2> QED
    BY <1>12, <2>1 DEF SetStream, TypeInv, TypeOK, CallInv, MicroPerSecond
<1>11. CASE UNCHANGED vars
  BY <1>11 DEF vars, TypeInv, TypeOK, CallInv, MicroPerSecond
<1> QED
  BY <1>1, <1>2, <1>3, <1>4, <1>5, <1>6, <1>7, <1>8, <1>9, <1>10, <1>11, <1>12
  DEF Next, Driver

LEMMA TypeInvariant == Spec => []TypeInv
BY TypeInvInit, TypeInvNext, PTL DEF Spec

\* Every state of writePacket has its types: what is written stays within the packet and
\* what the kernel holds within its room.
THEOREM TypeCorrect == Spec => []TypeOK
<1>1. TypeInv => TypeOK
  BY DEF TypeInv
<1> QED
  BY TypeInvariant, <1>1, PTL

-----------------------------------------------------------------------------
(* What a step does to the call, to the bytes taken and to the listener:   *)
(* only a write adds bytes, and only WritePacket and the returns reset.    *)

\* The steps that leave the bytes taken and the call's own bytes alone.
Quiet ==
  /\ written' = written /\ size' = size /\ packet' = packet /\ accepted' = accepted
  /\ tx' = tx

LEMMA StepCases ==
  ASSUME [Next]_vars
  PROVE  \/ \E n \in Sizes, t \in Timeouts : WritePacket(n, t)
         \/ \E c \in 0 .. Capacity : Write(c)
         \/ \E r \in {"unix_error", "NONE"} : pc # "idle" /\ ThrowOnly(r)
         \/ Quiet /\ pc' = pc /\ UNCHANGED <<result, partial>>
         \/ Quiet /\ pc # "idle" /\ pc' # "idle" /\ UNCHANGED <<result, partial>>
         \/ Quiet /\ pc = "idle" /\ pc' = pc /\ result' = "runtime_error" /\ UNCHANGED partial
<1>1. CASE AddListener \/ RemoveListener \/ FlushWrite
  BY <1>1 DEF AddListener, RemoveListener, FlushWrite, ClientOfListener, Quiet
<1>2. CASE WriteFails \/ WaitWriteFalse \/ WaitWriteRefused \/ WaitInterrupted
  <2>1. CASE WriteFails
    BY <2>1 DEF WriteFails
  <2>2. CASE WaitWriteFalse
    BY <2>2 DEF WaitWriteFalse
  <2>3. CASE WaitWriteRefused
    BY <2>3 DEF WaitWriteRefused
  <2>4. CASE WaitInterrupted
    BY <2>4 DEF WaitInterrupted
  <2> QED
    BY <1>2, <2>1, <2>2, <2>3, <2>4
<1>3. CASE StartWait \/ WaitWriteTrue
  BY <1>3 DEF StartWait, WaitWriteTrue, Quiet
<1>7. CASE WritePacketWithoutStream
  BY <1>7 DEF WritePacketWithoutStream, Quiet
<1>8. CASE \E s \in BOOLEAN : SetStream(s)
  BY <1>8 DEF SetStream, Quiet
<1>4. CASE PeerReads
  BY <1>4 DEF PeerReads, Quiet
<1>5. CASE Tick
  <2>1. UNCHANGED <<pc, argVars, written, now, waited, outVars, result, partial, interrupted>>
    BY <1>5 DEF Tick
  <2> QED
    BY <2>1 DEF Quiet
<1>6. CASE UNCHANGED vars
  BY <1>6 DEF vars, Quiet
<1> QED
  BY <1>1, <1>2, <1>3, <1>4, <1>5, <1>6, <1>7, <1>8 DEF Next, Driver

-----------------------------------------------------------------------------
(* The listeners.                                                          *)

LEMMA ListenersNext == TypeInv /\ ListenersSeeTheWire /\ [Next]_vars => ListenersSeeTheWire'
<1> SUFFICES ASSUME TypeInv, ListenersSeeTheWire, [Next]_vars PROVE ListenersSeeTheWire'
  OBVIOUS
<1>1. /\ flushed \in Seq(Byte) /\ buffered \in Seq(Byte)
      /\ flushed \o buffered = overheard
  BY DEF TypeInv, TypeOK, ListenersSeeTheWire
<1>2. CASE flushed' = flushed /\ buffered' = buffered /\ overheard' = overheard
  BY <1>1, <1>2 DEF ListenersSeeTheWire
<1>3. CASE FlushWrite
  <2>1. flushed' = flushed \o buffered /\ buffered' = <<>> /\ overheard' = overheard
    BY <1>3 DEF FlushWrite, ClientOfListener
  <2>2. overheard \in Seq(Byte)
    BY DEF TypeInv, TypeOK
  <2>3. overheard \o <<>> = overheard
    BY <2>2, ConcatEmptySeq
  <2> QED
    BY <1>1, <2>1, <2>3, Zenon DEF ListenersSeeTheWire
<1>4. ASSUME NEW c \in 0 .. Capacity, Write(c) PROVE ListenersSeeTheWire'
  <2> DEFINE b == Bytes(packet, written + 1, c)
  <2>1. c \in Nat /\ b \in Seq(Byte)
    <3>1. c \in Nat
      BY WriteAssumption
    <3> QED
      BY <3>1, TakenProperties DEF TypeInv
  <2>2. CASE listening
    <3>1. buffered' = buffered \o b /\ overheard' = overheard \o b /\ flushed' = flushed
      BY <1>4, <2>2 DEF Write, WriteData
    <3> HIDE DEF b
    <3>2. flushed \o (buffered \o b) = (flushed \o buffered) \o b
      <4>1. flushed \in Seq(Byte) /\ buffered \in Seq(Byte) /\ b \in Seq(Byte)
        BY <1>1, <2>1
      <4> QED
        BY <4>1, ConcatAssociative
    <3> QED
      BY <1>1, <3>1, <3>2, Zenon DEF ListenersSeeTheWire
  <2>3. CASE ~listening
    <3>1. buffered' = buffered /\ overheard' = overheard /\ flushed' = flushed
      BY <1>4, <2>3 DEF Write
    <3> QED
      BY <1>2, <3>1
  <2> QED
    BY <2>2, <2>3
<1>5. ASSUME NEW n \in Sizes, NEW t \in Timeouts, WritePacket(n, t)
      PROVE  flushed' = flushed /\ buffered' = buffered /\ overheard' = overheard
  BY <1>5 DEF WritePacket
<1>6. CASE WriteFails \/ StartWait \/ WaitWriteTrue \/ WaitWriteFalse \/ WaitWriteRefused
           \/ WaitInterrupted \/ PeerReads \/ AddListener \/ RemoveListener
           \/ WritePacketWithoutStream \/ (\E s \in BOOLEAN : SetStream(s)) \/ UNCHANGED vars
  <2>1. flushed' = flushed /\ buffered' = buffered /\ overheard' = overheard
    BY <1>6
    DEF WriteFails, StartWait, WaitWriteTrue, WaitWriteFalse, WaitWriteRefused, WaitInterrupted,
        ThrowOnly, PeerReads, AddListener, RemoveListener, ClientOfListener,
        WritePacketWithoutStream, SetStream, vars
  <2> QED
    BY <1>2, <2>1
<1>7. CASE Tick
  <2>1. UNCHANGED outVars
    BY <1>7 DEF Tick
  <2> QED
    BY <1>2, <2>1
<1> QED
  BY <1>2, <1>3, <1>4, <1>5, <1>6, <1>7 DEF Next, Driver

\* What a BufferListener holds and has handed out are the bytes the kernel took while
\* it was plugged in, each once and in order, over short writes, failed calls and flushes.
THEOREM WireIsHeard == Spec => []ListenersSeeTheWire
<1>1. Init => ListenersSeeTheWire
  <2> SUFFICES ASSUME Init PROVE ListenersSeeTheWire
    OBVIOUS
  <2>1. <<>> \o <<>> = <<>>
    OBVIOUS
  <2> QED
    BY <2>1 DEF Init, ListenersSeeTheWire
<1> QED
  BY <1>1, ListenersNext, TypeInvariant, PTL DEF Spec

-----------------------------------------------------------------------------
(* The counter and the packet on the wire.                                 *)

\* What a write adds to the bytes taken, in numbers and in places.
LEMMA AcceptedByWrite ==
  ASSUME TypeInv, NEW c \in 0 .. Capacity, Write(c)
  PROVE  /\ Len(accepted) \in Nat /\ Len(accepted') = Len(accepted) + c
         /\ \A i \in 1 .. Len(accepted) : accepted'[i] = accepted[i]
         /\ \A j \in 1 .. c : accepted'[Len(accepted) + j] = <<packet, written + j>>
<1> DEFINE b == Taken(c)
<1>1. c \in Nat
  BY WriteAssumption
<1>2. /\ b \in Seq(Byte) /\ Len(b) = c
      /\ \A j \in 1 .. c : b[j] = <<packet, written + j>>
  BY <1>1, TakenProperties DEF TypeInv
<1>3. accepted \in Seq(Byte) /\ Len(accepted) \in Nat
  BY LenProperties DEF TypeInv, TypeOK
<1>4. accepted' = accepted \o b
  BY DEF Write
<1> HIDE DEF b
<1>5. /\ Len(accepted \o b) = Len(accepted) + Len(b)
      /\ \A i \in 1 .. Len(accepted) + Len(b) : (accepted \o b)[i] =
           IF i <= Len(accepted) THEN accepted[i] ELSE b[i - Len(accepted)]
  BY <1>2, <1>3, ConcatProperties
<1>6. /\ Len(accepted') = Len(accepted) + Len(b)
      /\ \A i \in 1 .. Len(accepted) + Len(b) : accepted'[i] =
           IF i <= Len(accepted) THEN accepted[i] ELSE b[i - Len(accepted)]
  BY <1>4, <1>5, Zenon
<1> QED
  BY <1>1, <1>2, <1>3, <1>6

LEMMA CountInvNext == TypeInv /\ CountInv /\ [Next]_vars => CountInv'
<1> SUFFICES ASSUME TypeInv, CountInv, [Next]_vars PROVE CountInv'
  OBVIOUS
<1>1. tx \in Nat /\ partial \in Nat /\ written \in Nat /\ size \in Nat
  BY DEF TypeInv, TypeOK
<1>2. ASSUME NEW n \in Sizes, NEW t \in Timeouts, WritePacket(n, t) PROVE CountInv'
  BY <1>1, <1>2 DEF WritePacket, CountInv
<1>3. ASSUME NEW c \in 0 .. Capacity, Write(c) PROVE CountInv'
  <2>1. Len(accepted') = Len(accepted) + c /\ Len(accepted) \in Nat
    BY <1>3, AcceptedByWrite
  <2>2. c \in Nat /\ pc = "write" /\ written' = written + c /\ size' = size
    BY <1>3, WriteAssumption DEF Write
  <2>3. tx + partial + written = Len(accepted)
    BY <2>2 DEF CountInv
  <2>4. AfterWrite(c)
    BY <1>3 DEF Write
  <2> QED
    BY <1>1, <2>1, <2>2, <2>3, <2>4 DEF AfterWrite, Throw, CountInv
<1>4. ASSUME NEW r, pc # "idle", ThrowOnly(r) PROVE CountInv'
  BY <1>1, <1>4 DEF ThrowOnly, Throw, CountInv
<1>5. ASSUME Quiet, UNCHANGED partial, (pc = "idle") <=> (pc' = "idle") PROVE CountInv'
  BY <1>5 DEF Quiet, CountInv
<1> QED
  BY <1>2, <1>3, <1>4, <1>5, StepCases

\* Status.tx is the number of bytes in complete packets, whatever calls failed midway.
THEOREM TxIsWholePackets == Spec => []TxCountsWholePackets
<1>1. Init => CountInv
  <2> SUFFICES ASSUME Init PROVE CountInv
    OBVIOUS
  <2>1. Len(<<>>) = 0
    OBVIOUS
  <2> QED
    BY <2>1 DEF Init, CountInv
<1>2. TypeInv /\ CountInv => TxCountsWholePackets
  <2> SUFFICES ASSUME TypeInv, CountInv, pc = "idle" PROVE tx + partial = Len(accepted)
    BY DEF TxCountsWholePackets
  <2>1. tx \in Nat /\ partial \in Nat
    BY DEF TypeInv, TypeOK
  <2> QED
    BY <2>1 DEF CountInv
<1> QED
  BY <1>1, <1>2, CountInvNext, TypeInvariant, PTL DEF Spec

LEMMA SentInvNext == TypeInv /\ SentInv /\ [Next]_vars => SentInv'
<1> SUFFICES ASSUME TypeInv, SentInv, [Next]_vars PROVE SentInv'
  OBVIOUS
<1>1. accepted \in Seq(Byte) /\ Len(accepted) \in Nat /\ written \in Nat /\ size \in Nat
  BY LenProperties DEF TypeInv, TypeOK
<1>2. ASSUME NEW n \in Sizes, NEW t \in Timeouts, WritePacket(n, t) PROVE SentInv'
  <2>1. written' = 0 /\ accepted' = accepted /\ result' = "none"
    BY <1>2 DEF WritePacket
  <2> QED
    BY <1>1, <2>1 DEF SentInv
<1>3. ASSUME NEW c \in 0 .. Capacity, Write(c) PROVE SentInv'
  <2>1. /\ Len(accepted') = Len(accepted) + c
        /\ \A i \in 1 .. Len(accepted) : accepted'[i] = accepted[i]
        /\ \A j \in 1 .. c : accepted'[Len(accepted) + j] = <<packet, written + j>>
    BY <1>3, AcceptedByWrite
  <2>2. c \in Nat /\ pc = "write" /\ written' = written + c /\ packet' = packet
    BY <1>3, WriteAssumption DEF Write
  <2>3. /\ written <= Len(accepted)
        /\ \A i \in 1 .. written : accepted[Len(accepted) - written + i] = <<packet, i>>
    BY <2>2 DEF SentInv
  <2>4. ASSUME NEW i \in 1 .. written + c
        PROVE  accepted'[Len(accepted) + c - (written + c) + i] = <<packet, i>>
    <3>1. Len(accepted) + c - (written + c) + i = Len(accepted) - written + i
      BY <1>1, <2>2
    <3>2. CASE i <= written
      <4>1. Len(accepted) - written + i \in 1 .. Len(accepted) /\ i \in 1 .. written
        BY <1>1, <2>2, <2>3, <3>2
      <4> QED
        BY <2>1, <2>3, <3>1, <4>1
    <3>3. CASE i > written
      <4>1. /\ i - written \in 1 .. c
            /\ Len(accepted) - written + i = Len(accepted) + (i - written)
            /\ written + (i - written) = i
        BY <1>1, <2>2, <3>3
      <4>2. accepted'[Len(accepted) + (i - written)] = <<packet, written + (i - written)>>
        BY <2>1, <4>1
      <4> QED
        BY <3>1, <4>1, <4>2
    <3> QED
      BY <1>1, <2>2, <3>2, <3>3
  <2>5. result' = "true" => written' = size'
    BY <1>3 DEF Write, AfterWrite, Throw, TypeInv, CallInv
  <2>6. written' <= Len(accepted')
    BY <1>1, <2>1, <2>2, <2>3
  <2>7. ASSUME NEW i \in 1 .. written'
        PROVE  accepted'[Len(accepted') - written' + i] = <<packet', i>>
    <3>1. i \in 1 .. written + c
      BY <2>2
    <3>2. accepted'[Len(accepted) + c - (written + c) + i] = <<packet, i>>
      BY <2>4, <3>1
    <3>3. Len(accepted') - written' + i = Len(accepted) + c - (written + c) + i
      BY <2>1, <2>2
    <3> QED
      BY <2>2, <3>2, <3>3
  <2> QED
    BY <2>5, <2>6, <2>7 DEF SentInv
<1>4. ASSUME NEW r \in {"unix_error", "NONE"}, ThrowOnly(r) PROVE SentInv'
  BY <1>4 DEF ThrowOnly, Throw, SentInv
<1>5. ASSUME Quiet, UNCHANGED result, (pc = "idle") <=> (pc' = "idle") PROVE SentInv'
  BY <1>5 DEF Quiet, SentInv
<1>6. ASSUME Quiet, pc' = "idle", result' = "runtime_error" PROVE SentInv'
  BY <1>6 DEF Quiet, SentInv
<1> QED
  BY <1>2, <1>3, <1>4, <1>5, <1>6, StepCases

\* When writePacket returns true the kernel has taken the packet last, whole and in
\* order, whatever packets before it were given up midway.
THEOREM TrueIsSent == Spec => []TrueMeansSent
<1>1. Init => SentInv
  BY DEF Init, SentInv
<1>2. TypeInv /\ SentInv => TrueMeansSent
  <2> SUFFICES ASSUME TypeInv, SentInv, result = "true"
               PROVE  Len(accepted) >= size /\ IsSuffix(Bytes(packet, 1, size), accepted)
    BY DEF TrueMeansSent
  <2>1. /\ accepted \in Seq(Byte) /\ Len(accepted) \in Nat
        /\ written \in Nat /\ size \in Nat /\ packet \in Nat
    BY LenProperties, WriteAssumption DEF TypeInv, TypeOK
  <2>2. /\ size <= Len(accepted)
        /\ \A i \in 1 .. size : accepted[Len(accepted) - size + i] = <<packet, i>>
    BY DEF SentInv
  <2> DEFINE b == Bytes(packet, 1, size)
  <2>3. /\ b \in Seq(Byte) /\ Len(b) = size
        /\ \A i \in 1 .. size : b[i] = <<packet, 1 + i - 1>>
    <3>1. packet \in Nat /\ size \in Nat /\ 1 \in Nat \ {0}
      BY <2>1
    <3> QED
      BY <3>1, BytesProperties
  <2> HIDE DEF b
  <2>4. \A i \in 1 .. size : accepted[Len(accepted) - size + i] = b[i]
    <3>1. \A i \in 1 .. size : 1 + i - 1 = i
      OBVIOUS
    <3> QED
      BY <2>2, <2>3, <3>1
  <2>5. IsSuffix(b, accepted)
    BY <2>1, <2>2, <2>3, <2>4, SuffixByElements
  <2> QED
    BY <2>1, <2>2, <2>5 DEF b
<1> QED
  BY <1>1, <1>2, SentInvNext, TypeInvariant, PTL DEF Spec

-----------------------------------------------------------------------------
(* Giving up.  The time left, in microseconds, is computed in an int.  As  *)
(* long as no timeout is 2^32 microseconds or more, an overflow makes it   *)
(* negative, which select() refuses, and never a shorter time.             *)

TimeoutsFit == \A t \in Timeouts : t < 2 * IntLimit

\* A product that is too large for an int comes out negative.
LEMMA WrapsToNegative ==
  ASSUME NEW x \in Nat, x < 2 * IntLimit
  PROVE  LET w == ((x + IntLimit) % (2 * IntLimit)) - IntLimit
         IN  w \in Int /\ (w >= 0 => w = x)
<1>1. IntLimit \in Nat \ {0}
  BY WriteAssumption
<1>2. ((x + IntLimit) % (2 * IntLimit)) - IntLimit = IF x < IntLimit THEN x ELSE x - 2 * IntLimit
  BY <1>1
<1> QED
  BY <1>1, <1>2

\* The test of the loop is never early.
LEMMA ElapsedIsLate ==
  ASSUME TypeOK, Elapsed
  PROVE  elapsed > timeout * Thousand
<1>1. /\ timeout \in Nat /\ elapsed \in Nat /\ Thousand \in Nat
      /\ Millis \in Int /\ Millis * Thousand < elapsed + Thousand
  BY WriteAssumption, MillisProperties DEF TypeOK
<1>2. timeout + 1 <= Millis
  BY <1>1 DEF Elapsed
<1>3. (timeout + 1) * Thousand <= Millis * Thousand
  BY <1>1, <1>2
<1>4. (timeout + 1) * Thousand = timeout * Thousand + Thousand /\ timeout * Thousand \in Nat
      /\ Millis * Thousand \in Int
  BY <1>1
<1> QED
  BY <1>1, <1>3, <1>4

\* The wait that begins after a short write is for the time left or is refused; it is
\* less than a millisecond short.
LEMMA WaitForTimeLeft ==
  ASSUME TypeOK, timeout * Thousand < 2 * IntLimit, MicroLeft >= 0
  PROVE  elapsed + MicroLeft > (timeout - 1) * Thousand
<1>1. /\ timeout \in Nat /\ elapsed \in Nat /\ Thousand \in Nat \ {0}
      /\ IntLimit \in Nat \ {0}
  BY WriteAssumption DEF TypeOK
<1>2. /\ Millis \in Int /\ Millis * Thousand < elapsed + Thousand
      /\ elapsed < Millis * Thousand + Thousand
  BY MillisProperties
<1>3. Millis >= 0
  <2>1. ASSUME Millis <= -1 PROVE FALSE
    <3>1. Millis * Thousand <= (-1) * Thousand
      BY <1>1, <1>2, <2>1
    <3>2. (-1) * Thousand = -Thousand /\ Millis * Thousand \in Int
      BY <1>1, <1>2
    <3> QED
      BY <1>1, <1>2, <3>1, <3>2
  <2> QED
    BY <1>2, <2>1
<1>4. TimeLeft \in Nat /\ TimeLeft <= timeout /\ TimeLeft >= timeout - Millis
  BY <1>1, <1>2, <1>3 DEF TimeLeft
<1> DEFINE x == TimeLeft * Thousand
<1>5. x \in Nat /\ x <= timeout * Thousand /\ x >= (timeout - Millis) * Thousand
  <2>1. \A a \in Int, b \in Int : a <= b => a * Thousand <= b * Thousand
    BY <1>1
  <2>2. x \in Nat
    BY <1>1, <1>4
  <2> QED
    BY <1>1, <1>2, <1>4, <2>1, <2>2
<1>6. MicroLeft = ((x + IntLimit) % (2 * IntLimit)) - IntLimit
  BY DEF MicroLeft
<1>7. (timeout - Millis) * Thousand = timeout * Thousand - Millis * Thousand
      /\ (timeout - 1) * Thousand = timeout * Thousand - Thousand
      /\ timeout * Thousand \in Nat /\ Millis * Thousand \in Int
  BY <1>1, <1>2
<1> HIDE DEF x
<1>8. MicroLeft = x
  BY <1>1, <1>5, <1>6, <1>7, WrapsToNegative
<1> QED
  BY <1>1, <1>2, <1>5, <1>7, <1>8

LEMMA LateInvNext ==
  ASSUME TimeoutsFit
  PROVE  TypeInv /\ LateInv /\ [Next]_vars => LateInv'
<1> SUFFICES ASSUME TypeInv, LateInv, [Next]_vars PROVE LateInv'
  OBVIOUS
<1>1. /\ timeout \in Nat /\ elapsed \in Nat /\ now \in Nat /\ Thousand \in Nat \ {0}
      /\ timeout * Thousand \in Nat /\ (timeout - 1) * Thousand \in Int
      /\ (timeout - 1) * Thousand < timeout * Thousand
  BY WriteAssumption DEF TypeInv, TypeOK
<1>2. /\ TypeOK /\ (pc # "idle" => result = "none")
      /\ timeout * Thousand < 2 * IntLimit /\ WriteTimeoutsAreLate
      /\ pc = "wait" /\ waited >= 0 => WaitUntil > (timeout - 1) * Thousand
  BY DEF TypeInv, CallInv, LateInv
<1>3. ASSUME NEW n \in Sizes, NEW t \in Timeouts, WritePacket(n, t) PROVE LateInv'
  <2>1. t \in Nat /\ t < 2 * IntLimit
    BY WriteAssumption DEF TimeoutsFit
  <2>2. (t \div Thousand) * Thousand <= t /\ (t \div Thousand) * Thousand \in Nat
    BY <1>1, <2>1
  <2>3. timeout' * Thousand < 2 * IntLimit
    BY <1>3, <2>1, <2>2, WriteAssumption DEF WritePacket
  <2> QED
    BY <1>3, <2>3 DEF WritePacket, LateInv, WriteTimeoutsAreLate
<1>4. ASSUME NEW c \in 0 .. Capacity, Write(c) PROVE LateInv'
  <2>1. /\ timeout' = timeout /\ elapsed' = elapsed /\ result = "none"
    BY <1>2, <1>4 DEF Write
  <2>2. AfterWrite(c)
    BY <1>4 DEF Write
  <2>3. CASE pc' \in {"idle", "left"} /\ result' \in {"none", "true"}
    BY <1>2, <2>1, <2>3 DEF LateInv, WriteTimeoutsAreLate
  <2>4. CASE Elapsed /\ Throw("PACKET")
    BY <1>2, <2>1, <2>4, ElapsedIsLate DEF Throw, LateInv, WriteTimeoutsAreLate
  <2> QED
    BY <2>1, <2>2, <2>3, <2>4 DEF AfterWrite
<1>5. CASE StartWait
  <2>1. /\ UNCHANGED <<timeout, elapsed, result, interrupted>>
        /\ now' = elapsed /\ waited' = MicroLeft
    BY <1>5 DEF StartWait
  <2>2. waited' >= 0 => WaitUntil' > (timeout' - 1) * Thousand
    BY <1>2, <2>1, WaitForTimeLeft DEF WaitUntil
  <2> QED
    BY <1>2, <2>1, <2>2 DEF LateInv, WriteTimeoutsAreLate
<1>6. CASE WaitWriteFalse
  <2>1. /\ pc = "wait" /\ waited >= 0 /\ elapsed >= WaitUntil /\ timeout' = timeout
        /\ elapsed' = elapsed /\ pc' = "idle" /\ result' = "NONE"
    BY <1>6 DEF WaitWriteFalse, ThrowOnly, Throw
  <2>2. WaitUntil \in Int
    BY <1>1 DEF WaitUntil, TypeInv, TypeOK
  <2>3. elapsed > (timeout - 1) * Thousand
    BY <1>1, <1>2, <2>1, <2>2
  <2> QED
    BY <1>2, <2>1, <2>3 DEF LateInv, WriteTimeoutsAreLate
<1>7. CASE WriteFails \/ WaitWriteRefused \/ WaitInterrupted
  <2>1. /\ timeout' = timeout /\ pc' = "idle"
        /\ result' \in {"unix_error", "NONE"} /\ (result' = "NONE" => interrupted')
    BY <1>7 DEF WriteFails, WaitWriteRefused, WaitInterrupted, ThrowOnly, Throw
  <2> QED
    BY <1>2, <2>1 DEF LateInv, WriteTimeoutsAreLate
<1>8. CASE WaitWriteTrue
  <2>1. pc' = "write" /\ UNCHANGED <<timeout, elapsed, result, interrupted>>
    BY <1>8 DEF WaitWriteTrue
  <2> QED
    BY <1>2, <2>1 DEF LateInv, WriteTimeoutsAreLate
<1>9. CASE Tick
  <2>1. /\ elapsed' = elapsed + 1 /\ UNCHANGED <<pc, timeout, now, waited, result, interrupted>>
    BY <1>9 DEF Tick
  <2>2. WaitUntil' = WaitUntil
    BY <2>1 DEF WaitUntil
  <2>3. WriteTimeoutsAreLate'
    BY <1>1, <1>2, <2>1 DEF WriteTimeoutsAreLate
  <2> QED
    BY <1>2, <2>1, <2>2, <2>3 DEF LateInv
<1>10. CASE WritePacketWithoutStream
  <2>1. pc' = "idle" /\ timeout' = timeout /\ result' = "runtime_error"
    BY <1>10 DEF WritePacketWithoutStream
  <2> QED
    BY <1>2, <2>1 DEF LateInv, WriteTimeoutsAreLate
<1>11. CASE \/ AddListener \/ RemoveListener \/ FlushWrite \/ PeerReads
            \/ (\E s \in BOOLEAN : SetStream(s)) \/ UNCHANGED vars
  <2>1. UNCHANGED <<pc, timeout, now, waited, elapsed, result, interrupted>>
    BY <1>11
    DEF AddListener, RemoveListener, FlushWrite, ClientOfListener, PeerReads, SetStream, vars
  <2> QED
    BY <1>2, <2>1 DEF LateInv, WriteTimeoutsAreLate, WaitUntil
<1> QED
  BY <1>3, <1>4, <1>5, <1>6, <1>7, <1>8, <1>9, <1>10, <1>11 DEF Next, Driver

\* writePacket gives up before its timeout only when a signal interrupts it, less than a
\* millisecond of a wait apart, which cut-off readings of the clock may cost; for all
\* timeouts below 2^32 microseconds. With a longer one the product wraps around to a
\* shorter time, and TLC refutes the property.
THEOREM GivesUpLate ==
  ASSUME TimeoutsFit
  PROVE  Spec => []WriteTimeoutsAreLate
<1>1. Init => LateInv
  <2>1. 0 * Thousand < 2 * IntLimit
    BY WriteAssumption
  <2> QED
    BY <2>1 DEF Init, LateInv, WriteTimeoutsAreLate
<1>2. LateInv => WriteTimeoutsAreLate
  BY DEF LateInv
<1>3. TypeInv /\ LateInv /\ [Next]_vars => LateInv'
  BY LateInvNext
<1> QED
  BY <1>1, <1>2, <1>3, TypeInvariant, PTL DEF Spec

=============================================================================
