--------------------------- MODULE RawRead_proofs ---------------------------
(***************************************************************************)
(* Theorems about RawRead, for every timeout, buffer size and input.       *)
(***************************************************************************)
EXTENDS RawRead, TLAPS, SequenceTheorems

-----------------------------------------------------------------------------
(* Bytes are numbered as the device sends them; the operators that move    *)
(* them keep runs of numbers whole.                                        *)

\* s is the run of numbers that ends in k.
Numbered(s, k) == \A i \in 1 .. Len(s) : s[i] = k - Len(s) + i

\* memcpy and memmove of readRaw: the first n bytes go, the rest moves up.
LEMMA SplitProperties ==
  ASSUME NEW s \in Seq(Nat), NEW n \in 0 .. Len(s)
  PROVE  /\ SubSeq(s, 1, n) \in Seq(Nat) /\ Len(SubSeq(s, 1, n)) = n
         /\ DropFirst(s, n) \in Seq(Nat) /\ Len(DropFirst(s, n)) = Len(s) - n
         /\ SubSeq(s, 1, n) \o DropFirst(s, n) = s
<1>1. Len(s) \in Nat /\ \A i \in 1 .. Len(s) : s[i] \in Nat
  BY LenProperties
<1>2. SubSeq(s, 1, n) \in Seq(Nat) /\ Len(SubSeq(s, 1, n)) = n
  BY <1>1, SubSeqProperties
<1>3. DropFirst(s, n) \in Seq(Nat) /\ Len(DropFirst(s, n)) = Len(s) - n
  BY <1>1, SubSeqProperties DEF DropFirst
<1>4. SubSeq(s, 1, n) \o SubSeq(s, n + 1, Len(s)) = s
  <2>1. 1 \in 1 .. Len(s) + 1 /\ n \in 1 - 1 .. Len(s) /\ Len(s) \in n .. Len(s)
    BY <1>1
  <2>2. SubSeq(s, 1, n) \o SubSeq(s, n + 1, Len(s)) = SubSeq(s, 1, Len(s))
    BY <2>1, ConcatAdjacentSubSeq
  <2> QED
    BY <2>2, SubSeqFull
<1> QED
  BY <1>2, <1>3, <1>4 DEF DropFirst

\* The lengths and the elements of a concatenation, for the proofs below.
LEMMA ConcatElements ==
  ASSUME NEW s \in Seq(Nat), NEW t \in Seq(Nat), NEW u, u = s \o t
  PROVE  /\ u \in Seq(Nat)
         /\ Len(s) \in Nat /\ Len(t) \in Nat /\ Len(u) = Len(s) + Len(t)
         /\ \A i \in 1 .. Len(s) : u[i] = s[i]
         /\ \A i \in 1 .. Len(t) : u[Len(s) + i] = t[i]
<1>1. Len(s) \in Nat /\ Len(t) \in Nat
  BY LenProperties
<1>2. /\ s \o t \in Seq(Nat) /\ Len(s \o t) = Len(s) + Len(t)
      /\ \A i \in 1 .. Len(s) + Len(t) :
           (s \o t)[i] = IF i <= Len(s) THEN s[i] ELSE t[i - Len(s)]
  BY ConcatProperties
<1>3. /\ u \in Seq(Nat) /\ Len(u) = Len(s) + Len(t)
      /\ \A i \in 1 .. Len(s) + Len(t) :
           u[i] = IF i <= Len(s) THEN s[i] ELSE t[i - Len(s)]
  BY <1>2, Zenon
<1> QED
  BY <1>1, <1>3

\* What is left when the older bytes are taken away is still a run.
LEMMA NumberedSuffix ==
  ASSUME NEW s \in Seq(Nat), NEW t \in Seq(Nat), NEW k \in Nat, Numbered(s \o t, k)
  PROVE  Numbered(t, k)
<1> DEFINE u == s \o t
<1>1. Numbered(u, k)
  OBVIOUS
<1>2. /\ Len(s) \in Nat /\ Len(t) \in Nat /\ Len(u) = Len(s) + Len(t)
      /\ \A i \in 1 .. Len(t) : u[Len(s) + i] = t[i]
  BY ConcatElements
<1> HIDE DEF u
<1> QED
  BY <1>1, <1>2 DEF Numbered

\* So is what is left when the device's bytes are dropped, the count of sent bytes with them.
LEMMA NumberedPrefix ==
  ASSUME NEW s \in Seq(Nat), NEW t \in Seq(Nat), NEW k \in Nat, Numbered(s \o t, k)
  PROVE  Numbered(s, k - Len(t))
<1> DEFINE u == s \o t
<1>1. Numbered(u, k)
  OBVIOUS
<1>2. /\ Len(s) \in Nat /\ Len(t) \in Nat /\ Len(u) = Len(s) + Len(t)
      /\ \A i \in 1 .. Len(s) : u[i] = s[i]
  BY ConcatElements
<1> HIDE DEF u
<1> QED
  BY <1>1, <1>2 DEF Numbered

\* The device sends the byte of the next number.
LEMMA NumberedAppend ==
  ASSUME NEW s \in Seq(Nat), NEW k \in Nat, Numbered(s, k)
  PROVE  Numbered(Append(s, k + 1), k + 1)
<1> DEFINE u == Append(s, k + 1)
<1>1. k + 1 \in Nat /\ Len(s) \in Nat
  BY LenProperties
<1>2. /\ Len(u) = Len(s) + 1 /\ u[Len(s) + 1] = k + 1
      /\ \A i \in 1 .. Len(s) : u[i] = s[i]
  BY <1>1, AppendProperties
<1> HIDE DEF u
<1>3. ASSUME NEW i \in 1 .. Len(u) PROVE u[i] = k + 1 - Len(u) + i
  BY <1>1, <1>2, <1>3, SMTT(30) DEF Numbered
<1>4. Numbered(u, k + 1)
  BY <1>3 DEF Numbered
<1> QED
  BY <1>4 DEF u
-----------------------------------------------------------------------------
(* The invariants.                                                         *)

\* Inside a call, not yet answered, the internal buffer has been handed out, and there is room left.
CallInv ==
  /\ pc # "idle" => valid /\ result = "none" /\ ibuf = <<>> /\ Len(out) < size
  /\ pc = "read" => wire # <<>> \/ peerClosed

Pending == out \o (ibuf \o wire)

OrderInv == Len(Pending) <= sent /\ Numbered(Pending, sent)

\* What the deadlines of the code say in terms of when the bytes came in.
DeadlineInv ==
  /\ first <= packet
  /\ ~received => /\ firstAt = -1 /\ lastAt = -1 /\ global = first
                  /\ lastChar = packet
  /\ received => /\ firstAt \in 0 .. first /\ lastAt \in firstAt .. elapsed
                 /\ global = firstAt + packet /\ lastChar = lastAt

\* How far time can run: to the overall deadline in select(), and one tick beyond it
\* in a read that brings nothing.
ClockInv ==
  /\ now <= elapsed /\ elapsed <= global + 1
  /\ pc # "idle" => now <= global
  /\ pc = "wait" \/ (pc = "read" /\ wire # <<>>) => elapsed <= global

\* The last call came back short only after one of the three timeouts.
ShortInv ==
  ~interrupted /\ result = "bytes" /\ Len(out) < size =>
    \/ ~received /\ elapsed >= first
    \/ received /\ (elapsed >= lastAt + inter \/ elapsed >= firstAt + packet)


-----------------------------------------------------------------------------
(* What each move of bytes does to the buffers.                            *)

USE DEF callVars, timeVars, streamVars

\* The buffers as the type invariant knows them.
LEMMA BufferTypes ==
  ASSUME TypeOK
  PROVE  /\ out \in Seq(Nat) /\ Len(out) \in Nat
         /\ ibuf \in Seq(Nat) /\ Len(ibuf) \in Nat /\ Len(ibuf) <= MAX
         /\ wire \in Seq(Nat) /\ Len(wire) \in Nat
         /\ ibuf \o wire \in Seq(Nat) /\ Len(ibuf \o wire) = Len(ibuf) + Len(wire)
BY LenProperties, ConcatProperties DEF TypeOK

\* readRaw begins with what the internal buffer holds, and leaves nothing there when
\* the caller's buffer has more room.
LEMMA TakeBufferedStep ==
  ASSUME TypeOK, NEW n \in Nat, TakeBuffered(n)
  PROVE  /\ out' \in Seq(Nat) /\ Len(out') = Min2(Len(ibuf), n)
         /\ ibuf' \in Seq(Nat) /\ Len(ibuf') = Len(ibuf) - Min2(Len(ibuf), n)
         /\ out' \o ibuf' = ibuf
         /\ Len(ibuf) < n => ibuf' = <<>>
<1> DEFINE fill == Min2(Len(ibuf), n)
<1>1. ibuf \in Seq(Nat) /\ Len(ibuf) \in Nat
  BY BufferTypes
<1>2. fill \in 0 .. Len(ibuf)
  BY <1>1 DEF Min2
<1>3. out' = SubSeq(ibuf, 1, fill) /\ ibuf' = DropFirst(ibuf, fill)
  BY DEF TakeBuffered
<1>4. /\ out' \in Seq(Nat) /\ Len(out') = fill
      /\ ibuf' \in Seq(Nat) /\ Len(ibuf') = Len(ibuf) - fill
      /\ out' \o ibuf' = ibuf
  <2> HIDE DEF fill
  <2> QED
    BY <1>1, <1>2, <1>3, SplitProperties
<1>5. ASSUME Len(ibuf) < n PROVE ibuf' = <<>>
  <2>1. Len(ibuf') = 0
    BY <1>1, <1>4, <1>5 DEF Min2
  <2> QED
    BY <1>4, <2>1, EmptySeq
<1> QED
  BY <1>4, <1>5

\* Bytes move from the front of one buffer to the back of another.
LEMMA MoveProperties ==
  ASSUME NEW s \in Seq(Nat), NEW t \in Seq(Nat), NEW n \in 0 .. Len(t)
  PROVE  /\ s \o SubSeq(t, 1, n) \in Seq(Nat)
         /\ Len(s \o SubSeq(t, 1, n)) = Len(s) + n
         /\ DropFirst(t, n) \in Seq(Nat)
         /\ (s \o SubSeq(t, 1, n)) \o DropFirst(t, n) = s \o t
<1> DEFINE u == SubSeq(t, 1, n)
           v == DropFirst(t, n)
<1>1. u \in Seq(Nat) /\ Len(u) = n /\ v \in Seq(Nat) /\ u \o v = t
  BY SplitProperties
<1> HIDE DEF u, v
<1>2. s \o u \in Seq(Nat) /\ Len(s \o u) = Len(s) + Len(u)
  BY <1>1, ConcatProperties
<1>3. (s \o u) \o v = s \o (u \o v)
  <2>1. u \in Seq(Nat) /\ v \in Seq(Nat)
    BY <1>1
  <2> QED
    BY <2>1, ConcatAssociative, SMTT(30)
<1>4. /\ s \o u \in Seq(Nat) /\ Len(s \o u) = Len(s) + n
      /\ v \in Seq(Nat) /\ (s \o u) \o v = s \o t
  BY <1>1, <1>2, <1>3, Zenon
<1> QED
  BY <1>4 DEF u, v

\* A read() goes behind what the caller's buffer holds.
LEMMA ReadBytesStep ==
  ASSUME TypeOK, CallInv, ReadBytes
  PROVE  /\ out' \in Seq(Nat) /\ Len(out') \in Nat /\ Len(out') <= size
         /\ wire' \in Seq(Nat)
         /\ ibuf' = <<>>
         /\ Pending' = Pending
<1> DEFINE c == Min2(size - Len(out), Len(wire))
<1>1. /\ out \in Seq(Nat) /\ Len(out) \in Nat /\ size \in Nat /\ Len(out) < size
      /\ ibuf = <<>> /\ ibuf' = ibuf
      /\ wire \in Seq(Nat) /\ Len(wire) \in Nat
  BY BufferTypes DEF TypeOK, CallInv, ReadBytes
<1>2. c \in 0 .. Len(wire) /\ c <= size - Len(out)
  BY <1>1 DEF Min2
<1>3. out' = out \o SubSeq(wire, 1, c) /\ wire' = DropFirst(wire, c)
  BY DEF ReadBytes
<1> HIDE DEF c
<1>4. /\ out' \in Seq(Nat) /\ Len(out') = Len(out) + c
      /\ wire' \in Seq(Nat) /\ out' \o wire' = out \o wire
  <2>1. /\ out \o SubSeq(wire, 1, c) \in Seq(Nat)
        /\ Len(out \o SubSeq(wire, 1, c)) = Len(out) + c
        /\ DropFirst(wire, c) \in Seq(Nat)
        /\ (out \o SubSeq(wire, 1, c)) \o DropFirst(wire, c) = out \o wire
    BY <1>1, <1>2, MoveProperties
  <2> QED
    BY <1>3, <2>1, Zenon
<1>5. <<>> \o wire' = wire' /\ <<>> \o wire = wire
  BY <1>1, <1>4, ConcatEmptySeq
<1>6. Pending' = Pending
  BY <1>1, <1>4, <1>5, Zenon DEF Pending
<1>7. Len(out') \in Nat /\ Len(out') <= size
  BY <1>1, <1>2, <1>4
<1> QED
  BY <1>1, <1>4, <1>6, <1>7

\* A readPacket before reads from the descriptor behind what the internal buffer holds.
LEMMA LeaveInBufferStep ==
  ASSUME TypeOK, LeaveInBuffer
  PROVE  /\ ibuf' \in Seq(Nat) /\ Len(ibuf') <= MAX
         /\ wire' \in Seq(Nat)
         /\ ibuf' \o wire' = ibuf \o wire
<1>1. /\ ibuf \in Seq(Nat) /\ Len(ibuf) \in Nat /\ Len(ibuf) <= MAX /\ MAX \in Nat
      /\ wire \in Seq(Nat) /\ Len(wire) \in Nat
  BY BufferTypes, RawAssumption
<1>2. ASSUME NEW n \in 1 .. Min2(MAX - Len(ibuf), Len(wire)),
             ibuf' = ibuf \o SubSeq(wire, 1, n), wire' = DropFirst(wire, n)
      PROVE  /\ ibuf' \in Seq(Nat) /\ Len(ibuf') <= MAX
             /\ wire' \in Seq(Nat)
             /\ ibuf' \o wire' = ibuf \o wire
  <2>1. n \in 0 .. Len(wire) /\ n <= MAX - Len(ibuf)
    BY <1>1 DEF Min2
  <2>2. /\ ibuf \o SubSeq(wire, 1, n) \in Seq(Nat)
        /\ Len(ibuf \o SubSeq(wire, 1, n)) = Len(ibuf) + n
        /\ DropFirst(wire, n) \in Seq(Nat)
        /\ (ibuf \o SubSeq(wire, 1, n)) \o DropFirst(wire, n) = ibuf \o wire
    BY <1>1, <2>1, MoveProperties
  <2>3. /\ ibuf' \in Seq(Nat) /\ Len(ibuf') = Len(ibuf) + n
        /\ wire' \in Seq(Nat)
        /\ ibuf' \o wire' = ibuf \o wire
    BY <1>2, <2>2, Zenon
  <2> QED
    BY <1>1, <2>1, <2>3
<1> QED
  BY <1>2 DEF LeaveInBuffer

-----------------------------------------------------------------------------
(* Types, and what holds inside a call.  Close takes back what was not     *)
(* read, so that the count of sent bytes must be known to cover it.        *)

BufferInv == TypeOK /\ CallInv /\ OrderInv

\* Returned, buffered and waiting bytes: as a sequence, and against the count of sent bytes.
LEMMA PendingProperties ==
  ASSUME BufferInv
  PROVE  /\ Pending \in Seq(Nat)
         /\ Len(Pending) = Len(out) + (Len(ibuf) + Len(wire))
         /\ sent \in Nat /\ sent - Len(wire) \in Nat
         /\ Len(out) + Len(ibuf) <= sent - Len(wire)
<1> DEFINE u == ibuf \o wire
<1>1. /\ out \in Seq(Nat) /\ Len(out) \in Nat
      /\ u \in Seq(Nat) /\ Len(u) = Len(ibuf) + Len(wire)
      /\ Len(ibuf) \in Nat /\ Len(wire) \in Nat
  BY BufferTypes DEF BufferInv
<1> HIDE DEF u
<1>2. out \o u \in Seq(Nat) /\ Len(out \o u) = Len(out) + Len(u)
  BY <1>1, ConcatProperties
<1>3. Pending \in Seq(Nat) /\ Len(Pending) = Len(out) + (Len(ibuf) + Len(wire))
  BY <1>1, <1>2, Zenon DEF Pending, u
<1>4. sent \in Nat /\ Len(Pending) <= sent
  BY DEF BufferInv, TypeOK, OrderInv
<1> QED
  BY <1>1, <1>3, <1>4

LEMMA BufferInvInit == Init => BufferInv
<1> SUFFICES ASSUME Init PROVE BufferInv
  OBVIOUS
<1>1. <<>> \in Seq(Nat) /\ Len(<<>>) = 0
  OBVIOUS
<1>2. Pending = <<>>
  BY <1>1, ConcatEmptySeq DEF Init, Pending
<1>3. TypeOK /\ CallInv
  <2>1. ibuf \in Seq(Nat) /\ out \in Seq(Nat) /\ wire \in Seq(Nat)
    BY <1>1 DEF Init
  <2>2. Len(ibuf) <= MAX /\ Len(out) <= size
    BY <1>1, RawAssumption DEF Init
  <2> QED
    BY <2>1, <2>2 DEF Init, TypeOK, CallInv
<1>4. OrderInv
  BY <1>1, <1>2 DEF Init, OrderInv, Numbered
<1> QED
  BY <1>3, <1>4 DEF BufferInv

\* The device's steps and the client's.
LEMMA BufferTypeClient ==
  ASSUME BufferInv, DeviceSend \/ DeviceClose \/ Client
  PROVE  TypeOK' /\ CallInv'
<1>1. CASE DeviceSend
  <2>1. wire' \in Seq(Nat) /\ wire' # <<>>
    <3>1. wire \in Seq(Nat) /\ sent + 1 \in Nat
      BY BufferTypes DEF BufferInv, TypeOK
    <3> QED
      BY <1>1, <3>1, AppendProperties DEF DeviceSend
  <2> QED
    BY <1>1, <2>1 DEF DeviceSend, BufferInv, TypeOK, CallInv
<1>2. CASE DeviceClose
  BY <1>2 DEF DeviceClose, BufferInv, TypeOK, CallInv
<1>3. ASSUME NEW n \in Sizes, NEW p \in Timeouts, NEW f \in Timeouts, NEW i \in InterBytes,
             ReadRaw(n, p, f, i)
      PROVE  TypeOK' /\ CallInv'
  <2>1. n \in Nat /\ p \in Nat /\ f \in Nat /\ i \in Nat
    BY RawAssumption
  <2>2. TakeBuffered(n)
    BY <1>3 DEF ReadRaw
  <2>3. /\ out' \in Seq(Nat) /\ Len(out') = Min2(Len(ibuf), n)
        /\ ibuf' \in Seq(Nat) /\ Len(ibuf') = Len(ibuf) - Min2(Len(ibuf), n)
        /\ Len(ibuf) < n => ibuf' = <<>>
    BY <2>1, <2>2, TakeBufferedStep DEF BufferInv
  <2>4. Len(ibuf) \in Nat /\ Len(ibuf) <= MAX /\ MAX \in Nat
    BY BufferTypes, RawAssumption DEF BufferInv
  <2>5. /\ Len(out') <= n /\ Len(ibuf') <= MAX
        /\ Len(ibuf) < n => Len(out') < n
    BY <2>1, <2>3, <2>4 DEF Min2
  <2>6. Min2(p, f) \in Nat
    BY <2>1 DEF Min2
  <2>7. TypeOK'
    BY <1>3, <2>1, <2>3, <2>5, <2>6 DEF ReadRaw, Return, BufferInv, TypeOK
  <2>8. CallInv'
    BY <1>3, <2>1, <2>3, <2>5 DEF ReadRaw, Return, CallInv
  <2> QED
    BY <2>7, <2>8
<1>4. CASE ReadRawClosed
  BY <1>4 DEF ReadRawClosed, Return, BufferInv, TypeOK, CallInv
<1>5. CASE LeaveInBuffer
  <2>1. ibuf' \in Seq(Nat) /\ Len(ibuf') <= MAX /\ wire' \in Seq(Nat)
    BY <1>5, LeaveInBufferStep DEF BufferInv
  <2> QED
    BY <1>5, <2>1 DEF LeaveInBuffer, BufferInv, TypeOK, CallInv
<1>6. CASE Close
  <2>1. sent' \in Nat /\ wire' \in Seq(Nat)
    BY <1>6, PendingProperties, EmptySeq DEF Close
  <2> QED
    BY <1>6, <2>1 DEF Close, BufferInv, TypeOK, CallInv
<1> QED
  BY <1>1, <1>2, <1>3, <1>4, <1>5, <1>6 DEF Client

\* The steps inside a call.
LEMMA BufferTypeDriver ==
  ASSUME BufferInv, Driver \/ WaitInterrupted \/ Tick
  PROVE  TypeOK' /\ CallInv'
<1>1. CASE WaitRefused \/ WaitReadTrue \/ WaitReadFalse \/ ReadFails \/ WaitInterrupted
  BY <1>1
  DEF WaitRefused, WaitReadTrue, WaitReadFalse, ReadFails, WaitInterrupted, Readable, Return,
      BufferInv, TypeOK, CallInv
<1>2. CASE ReadBytes
  <2>1. /\ out' \in Seq(Nat) /\ Len(out') \in Nat /\ Len(out') <= size
        /\ wire' \in Seq(Nat) /\ ibuf' = <<>>
    BY <1>2, ReadBytesStep DEF BufferInv
  <2>2. GlobalAfterRead \in Nat
    BY DEF BufferInv, TypeOK, GlobalAfterRead
  <2>3. TypeOK'
    BY <1>2, <2>1, <2>2 DEF ReadBytes, Continue, Return, BufferInv, TypeOK
  <2> QED
    BY <1>2, <2>1, <2>3 DEF ReadBytes, Continue, Return, BufferInv, TypeOK, CallInv
<1>3. CASE ReadNothing
  BY <1>3 DEF ReadNothing, Continue, Return, BufferInv, TypeOK, CallInv
<1>4. CASE Tick
  BY <1>4 DEF Tick, BufferInv, TypeOK, CallInv
<1> QED
  BY <1>1, <1>2, <1>3, <1>4 DEF Driver

-----------------------------------------------------------------------------
(* Order: no step loses, repeats or reorders a byte.                       *)

\* A byte sent arrives behind all that has arrived.
LEMMA ConcatAppend ==
  ASSUME NEW s \in Seq(Nat), NEW t \in Seq(Nat), NEW e \in Nat
  PROVE  s \o Append(t, e) = Append(s \o t, e)
<1> DEFINE one == <<e>>
           u == s \o t
<1>1. one \in Seq(Nat)
  OBVIOUS
<1>2. Append(t, e) = t \o one
  BY AppendIsConcat
<1>3. u \in Seq(Nat)
  BY ConcatProperties
<1>4. Append(u, e) = u \o one
  <2> HIDE DEF u
  <2> QED
    BY <1>3, AppendIsConcat
<1>5. (s \o t) \o one = s \o (t \o one)
  <2> HIDE DEF one, u
  <2> QED
    BY <1>1, ConcatAssociative, SMTT(30)
<1> QED
  BY <1>2, <1>4, <1>5, Zenon

LEMMA OrderInvNext == BufferInv /\ [Next]_vars => OrderInv'
<1> SUFFICES ASSUME BufferInv, [Next]_vars PROVE OrderInv'
  OBVIOUS
<1>1. /\ out \in Seq(Nat) /\ ibuf \in Seq(Nat) /\ wire \in Seq(Nat)
      /\ ibuf \o wire \in Seq(Nat) /\ Len(ibuf) \in Nat
  BY BufferTypes DEF BufferInv
<1>2. sent \in Nat /\ Pending \in Seq(Nat) /\ Len(Pending) \in Nat
  BY PendingProperties, LenProperties
<1>3. Len(Pending) <= sent /\ Numbered(Pending, sent)
  BY DEF BufferInv, OrderInv
<1>4. Numbered(ibuf \o wire, sent) /\ Len(ibuf \o wire) <= sent
  <2> DEFINE u == ibuf \o wire
  <2>1. Numbered(out \o u, sent)
    BY <1>3 DEF Pending
  <2>2. u \in Seq(Nat)
    BY <1>1
  <2>3. Numbered(u, sent)
    <3> HIDE DEF u
    <3> QED
      BY <1>1, <1>2, <2>1, <2>2, NumberedSuffix
  <2>4. Len(ibuf \o wire) <= sent
    BY PendingProperties, BufferTypes DEF BufferInv
  <2> QED
    BY <2>3, <2>4
<1>5. CASE DeviceSend
  <2>1. /\ out' = out /\ ibuf' = ibuf /\ wire' = Append(wire, sent + 1)
        /\ sent' = sent + 1
    BY <1>5 DEF DeviceSend
  <2>2. sent + 1 \in Nat
    BY <1>2
  <2>3. ibuf \o Append(wire, sent + 1) = Append(ibuf \o wire, sent + 1)
    BY <1>1, <2>2, ConcatAppend
  <2>4. out \o Append(ibuf \o wire, sent + 1) = Append(out \o (ibuf \o wire), sent + 1)
    <3> DEFINE u == ibuf \o wire
    <3>1. u \in Seq(Nat)
      BY <1>1
    <3> HIDE DEF u
    <3>2. out \o Append(u, sent + 1) = Append(out \o u, sent + 1)
      BY <1>1, <2>2, <3>1, ConcatAppend
    <3> QED
      BY <3>2 DEF u
  <2>5. Pending' = Append(Pending, sent + 1)
    BY <2>1, <2>3, <2>4, Zenon DEF Pending
  <2>6. Numbered(Append(Pending, sent + 1), sent + 1)
    BY <1>2, <1>3, NumberedAppend
  <2>7. Len(Append(Pending, sent + 1)) = Len(Pending) + 1
    BY <1>2, <2>2, AppendProperties
  <2> QED
    BY <1>2, <1>3, <2>1, <2>5, <2>6, <2>7 DEF OrderInv
<1>6. CASE Pending' = ibuf \o wire /\ sent' = sent
  BY <1>4, <1>6 DEF OrderInv
<1>7. CASE Pending' = Pending /\ sent' = sent
  BY <1>3, <1>7 DEF OrderInv
<1>8. ASSUME NEW n \in Sizes, NEW p \in Timeouts, NEW f \in Timeouts, NEW i \in InterBytes,
             ReadRaw(n, p, f, i)
      PROVE  Pending' = ibuf \o wire /\ sent' = sent
  <2>1. TakeBuffered(n) /\ wire' = wire /\ sent' = sent
    BY <1>8 DEF ReadRaw
  <2>2. out' \in Seq(Nat) /\ ibuf' \in Seq(Nat) /\ out' \o ibuf' = ibuf
    BY <2>1, RawAssumption, TakeBufferedStep DEF BufferInv
  <2>3. out' \o (ibuf' \o wire) = (out' \o ibuf') \o wire
    <3>1. wire \in Seq(Nat)
      BY <1>1
    <3>2. out' \in Seq(Nat) /\ ibuf' \in Seq(Nat)
      BY <2>2
    <3> QED
      BY <3>1, <3>2, ConcatAssociative, SMTT(30)
  <2> QED
    BY <2>1, <2>2, <2>3, Zenon DEF Pending
<1>9. CASE LeaveInBuffer
  <2>1. ibuf' \o wire' = ibuf \o wire
    BY <1>9, LeaveInBufferStep DEF BufferInv
  <2>2. out' = <<>> /\ sent' = sent
    BY <1>9 DEF LeaveInBuffer
  <2>3. <<>> \o (ibuf \o wire) = ibuf \o wire
    <3> DEFINE u == ibuf \o wire
    <3>1. u \in Seq(Nat)
      BY <1>1
    <3>2. <<>> \o u = u
      <4> HIDE DEF u
      <4> QED
        BY <3>1, ConcatEmptySeq
    <3> QED
      BY <3>2
  <2>4. Pending' = ibuf \o wire
    BY <2>1, <2>2, <2>3, Zenon DEF Pending
  <2> QED
    BY <1>6, <2>2, <2>4
<1>10. CASE Close
  <2>1. out' = out /\ ibuf' = ibuf /\ wire' = <<>> /\ sent' = sent - Len(wire)
    BY <1>10 DEF Close
  <2>2. ibuf \o <<>> = ibuf
    BY <1>1, ConcatEmptySeq
  <2>3. Pending' = out \o ibuf
    BY <2>1, <2>2, Zenon DEF Pending
  <2>4. out \o (ibuf \o wire) = (out \o ibuf) \o wire
    BY <1>1, ConcatAssociative, SMTT(30)
  <2>5. out \o ibuf \in Seq(Nat) /\ Len(out \o ibuf) = Len(out) + Len(ibuf)
    BY <1>1, ConcatProperties
  <2>6. Numbered((out \o ibuf) \o wire, sent)
    BY <1>3, <2>4, Zenon DEF Pending
  <2>7. Numbered(out \o ibuf, sent - Len(wire))
    <3> DEFINE u == out \o ibuf
    <3>1. u \in Seq(Nat) /\ Numbered(u \o wire, sent)
      BY <2>5, <2>6
    <3>2. wire \in Seq(Nat)
      BY <1>1
    <3> HIDE DEF u
    <3>3. Numbered(u, sent - Len(wire))
      BY <1>2, <3>1, <3>2, NumberedPrefix
    <3> QED
      BY <3>3 DEF u
  <2>8. Len(out \o ibuf) <= sent - Len(wire)
    BY <2>5, PendingProperties
  <2> QED
    BY <2>1, <2>3, <2>7, <2>8, Zenon DEF OrderInv
<1>11. CASE ReadBytes
  <2>1. Pending' = Pending /\ sent' = sent
    BY <1>11, ReadBytesStep DEF BufferInv, ReadBytes
  <2> QED
    BY <1>7, <2>1
<1>12. CASE \/ DeviceClose \/ ReadRawClosed
            \/ WaitRefused \/ WaitReadTrue \/ WaitReadFalse \/ WaitInterrupted
            \/ ReadNothing \/ ReadFails \/ Tick \/ UNCHANGED vars
  <2>1. out' = out /\ ibuf' = ibuf /\ wire' = wire /\ sent' = sent
    BY <1>12
    DEF DeviceClose, ReadRawClosed, WaitRefused, WaitReadTrue, WaitReadFalse,
        WaitInterrupted, ReadNothing, ReadFails, Tick, vars
  <2> QED
    BY <1>7, <2>1 DEF Pending
<1> QED
  BY <1>5, <1>6, <1>8, <1>9, <1>10, <1>11, <1>12 DEF Next, Client, Driver

LEMMA BufferInvariant == Spec => []BufferInv
<1>1. BufferInv /\ [Next]_vars => BufferInv'
  <2> SUFFICES ASSUME BufferInv, [Next]_vars PROVE BufferInv'
    OBVIOUS
  <2>1. OrderInv'
    BY OrderInvNext
  <2>2. CASE UNCHANGED vars
    BY <2>1, <2>2 DEF vars, BufferInv, TypeOK, CallInv
  <2> QED
    BY <2>1, <2>2, BufferTypeClient, BufferTypeDriver DEF Next, BufferInv
<1> QED
  BY BufferInvInit, <1>1, PTL DEF Spec

\* Every state of readRaw has its types: the internal buffer stays within
\* MAX_PACKET_SIZE and what is returned within the caller's buffer.
THEOREM TypeCorrect == Spec => []TypeOK
<1>1. BufferInv => TypeOK
  BY DEF BufferInv
<1> QED
  BY BufferInvariant, <1>1, PTL

\* readRaw hands out internal_buffer before the descriptor's bytes, so that returned,
\* buffered and waiting bytes are one gapless run, for every size and every mix of
\* readPacket, readRaw and close.
THEOREM InOrder == Spec => []BytesInOrder
<1>1. BufferInv => BytesInOrder
  <2> SUFFICES ASSUME BufferInv PROVE BytesInOrder
    OBVIOUS
  <2>1. out \in Seq(Nat) /\ ibuf \in Seq(Nat) /\ wire \in Seq(Nat)
    BY BufferTypes DEF BufferInv
  <2>2. Pending = (out \o ibuf) \o wire
    BY <2>1, ConcatAssociative, SMTT(30) DEF Pending
  <2>3. Numbered(Pending, sent)
    BY DEF BufferInv, OrderInv
  <2> QED
    BY <2>2, <2>3 DEF Numbered, BytesInOrder
<1> QED
  BY BufferInvariant, <1>1, PTL

-----------------------------------------------------------------------------
(* Time.                                                                   *)

TimeInv == DeadlineInv /\ ClockInv /\ ShortInv

\* The variables the deadlines are made of.
LEMMA TimeTypes ==
  ASSUME BufferInv
  PROVE  /\ packet \in Nat /\ inter \in Nat /\ first \in Nat /\ size \in Nat
         /\ now \in Nat /\ lastChar \in Nat /\ global \in Nat /\ elapsed \in Nat
         /\ received \in BOOLEAN /\ Len(out) \in Nat
BY BufferTypes DEF BufferInv, TypeOK

LEMMA TimeInvInit == Init => TimeInv
BY DEF Init, TimeInv, DeadlineInv, ClockInv, ShortInv

LEMMA TimeInvReadRaw ==
  ASSUME BufferInv, TimeInv,
         NEW n \in Sizes, NEW p \in Timeouts, NEW f \in Timeouts, NEW i \in InterBytes,
         ReadRaw(n, p, f, i)
  PROVE  TimeInv'
<1>1. n \in Nat /\ p \in Nat /\ f \in Nat /\ i \in Nat
  BY RawAssumption
<1>2. Min2(p, f) \in Nat /\ Min2(p, f) <= p
  BY <1>1 DEF Min2
<1>3. /\ first' = Min2(p, f) /\ packet' = p /\ global' = Min2(p, f) /\ lastChar' = p
      /\ now' = 0 /\ elapsed' = 0 /\ received' = FALSE /\ firstAt' = -1 /\ lastAt' = -1
      /\ wire' = wire
  BY DEF ReadRaw
<1>4. DeadlineInv'
  BY <1>2, <1>3 DEF DeadlineInv
<1>5. ClockInv'
  BY <1>2, <1>3 DEF ClockInv
<1>6. ShortInv'
  <2>1. size' = n /\ (result' = "bytes" => ~(Len(ibuf) < n))
    BY DEF ReadRaw, Return
  <2>2. Len(ibuf) \in Nat /\ Len(out') = Min2(Len(ibuf), n)
    BY <1>1, BufferTypes, TakeBufferedStep DEF BufferInv, ReadRaw
  <2>3. result' = "bytes" => ~(Len(out') < size')
    BY <1>1, <2>1, <2>2 DEF Min2
  <2> QED
    BY <2>3 DEF ShortInv
<1> QED
  BY <1>4, <1>5, <1>6 DEF TimeInv

\* A byte restarts the inter-byte timeout, and the first one the overall timeout.
LEMMA TimeInvReadBytes ==
  ASSUME BufferInv, TimeInv, ReadBytes
  PROVE  TimeInv'
<1>1. elapsed <= global
  BY DEF TimeInv, ClockInv, ReadBytes
<1>2. /\ now' = elapsed /\ lastChar' = elapsed /\ received' = TRUE /\ lastAt' = elapsed
      /\ elapsed' = elapsed /\ first' = first /\ packet' = packet /\ inter' = inter
      /\ global' = GlobalAfterRead /\ firstAt' = (IF received THEN firstAt ELSE elapsed)
      /\ size' = size /\ Continue /\ pc = "read" /\ wire # <<>>
  BY DEF ReadBytes
<1>3. DeadlineInv'
  <2>1. CASE received
    BY <1>2, <2>1, TimeTypes DEF TimeInv, DeadlineInv, GlobalAfterRead
  <2>2. CASE ~received
    BY <1>1, <1>2, <2>2, TimeTypes DEF TimeInv, DeadlineInv, GlobalAfterRead
  <2> QED
    BY <2>1, <2>2
<1>4. global' \in Nat /\ elapsed <= global'
  BY <1>1, <1>2, TimeTypes DEF GlobalAfterRead
<1>5. ClockInv'
  BY <1>2, <1>4, TimeTypes DEF ClockInv, Continue, Return
<1>6. ShortInv'
  BY <1>2, <1>4, TimeTypes DEF ShortInv, Continue, Return, BufferInv, CallInv
<1> QED
  BY <1>3, <1>5, <1>6 DEF TimeInv

LEMMA TimeInvNext == BufferInv /\ TimeInv /\ [Next]_vars => TimeInv'
<1> SUFFICES ASSUME BufferInv, TimeInv, [Next]_vars PROVE TimeInv'
  OBVIOUS
<1> USE TimeTypes
<1>1. CASE DeviceSend
  <2>1. wire' # <<>> /\ (pc = "read" /\ wire = <<>> => peerClosed) /\ ~peerClosed
    <3>1. wire \in Seq(Nat) /\ sent + 1 \in Nat
      BY BufferTypes DEF BufferInv, TypeOK
    <3> QED
      BY <1>1, <3>1, AppendProperties, SMTT(30) DEF DeviceSend, BufferInv, CallInv
  <2> QED
    BY <1>1, <2>1 DEF DeviceSend, TimeInv, DeadlineInv, ClockInv, ShortInv
<1>2. CASE DeviceClose \/ ReadRawClosed \/ WaitRefused \/ ReadFails \/ WaitInterrupted
  BY <1>2
  DEF DeviceClose, ReadRawClosed, WaitRefused, ReadFails, WaitInterrupted, Return,
      TimeInv, DeadlineInv, ClockInv, ShortInv
<1>3. CASE LeaveInBuffer \/ Close
  BY <1>3 DEF LeaveInBuffer, Close, TimeInv, DeadlineInv, ClockInv, ShortInv
<1>4. CASE WaitReadTrue
  BY <1>4, RawAssumption DEF WaitReadTrue, Deadline, Min2, TimeInv, DeadlineInv, ClockInv, ShortInv
<1>5. CASE WaitReadFalse
  <2>1. DeadlineInv' /\ ClockInv'
    BY <1>5 DEF WaitReadFalse, Return, TimeInv, DeadlineInv, ClockInv
  <2>2. ShortInv'
    <3>1. elapsed >= global \/ elapsed >= lastChar + inter
      BY <1>5 DEF WaitReadFalse, Deadline, Min2
    <3> QED
      BY <1>5, <3>1 DEF WaitReadFalse, Return, TimeInv, DeadlineInv, ShortInv
  <2> QED
    BY <2>1, <2>2 DEF TimeInv
<1>6. CASE ReadNothing
  BY <1>6 DEF ReadNothing, Continue, Return, TimeInv, DeadlineInv, ClockInv, ShortInv
<1>7. CASE Tick
  <2>1. result = "bytes" => result' = "bytes"
    BY <1>7 DEF Tick
  <2>2. pc = "wait" => elapsed < global
    BY <1>7 DEF Tick, Deadline, Min2
  <2>3. pc = "read" => elapsed = now /\ wire = <<>>
    BY <1>7 DEF Tick
  <2> QED
    BY <1>7, <2>1, <2>2, <2>3, SMTT(30) DEF Tick, TimeInv, DeadlineInv, ClockInv, ShortInv
<1>8. CASE UNCHANGED vars
  BY <1>8 DEF vars, TimeInv, DeadlineInv, ClockInv, ShortInv
<1> QED
  BY <1>1, <1>2, <1>3, <1>4, <1>5, <1>6, <1>7, <1>8, TimeInvReadRaw, TimeInvReadBytes
  DEF Next, Client, Driver

LEMMA TimeInvariant == Spec => []TimeInv
BY TimeInvInit, TimeInvNext, BufferInvariant, PTL DEF Spec

\* readRaw comes back short, when no signal interrupted it, only after waiting for
\* a first byte, since the last byte or since the first one as long as it was told to,
\* whatever the three timeouts are.
THEOREM ShortIsLate == Spec => []ShortMeansLate
<1>1. BufferInv /\ TimeInv => ShortMeansLate
  BY TimeTypes DEF TimeInv, DeadlineInv, ShortInv, ShortMeansLate
<1> QED
  BY BufferInvariant, TimeInvariant, <1>1, PTL

\* No call of readRaw outlasts the wait for a first byte and packet_timeout after it.
THEOREM InTime == Spec => []ReturnsInTime
<1>1. BufferInv /\ TimeInv => ReturnsInTime
  BY TimeTypes DEF TimeInv, DeadlineInv, ClockInv, ReturnsInTime
<1> QED
  BY BufferInvariant, TimeInvariant, <1>1, PTL

=============================================================================
