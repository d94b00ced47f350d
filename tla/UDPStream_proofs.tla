-------------------------- MODULE UDPStream_proofs --------------------------
(***************************************************************************)
(* Theorems about UDPStream, for any hosts, addresses, lengths of          *)
(* datagrams and of buffers, and timeouts, and any number of datagrams.    *)
(***************************************************************************)
EXTENDS UDPStream, TLAPS, SequenceTheorems

USE DEF fixedVars, streamVars, timeVars, callVars, kernelVars, observers

-----------------------------------------------------------------------------
(* Types.                                                                  *)

\* The first of the datagrams that wait, and those behind it.
LEMMA FrontProperties ==
  ASSUME TypeOK, queue # <<>>
  PROVE  /\ Head(queue) \in Datagrams /\ Tail(queue) \in Seq(Datagrams)
         /\ Head(queue).from \in Hosts
<1>1. queue \in Seq(Datagrams) /\ queue # <<>>
  BY DEF TypeOK
<1>2. Head(queue) \in Datagrams /\ Tail(queue) \in Seq(Datagrams)
  BY <1>1, HeadTailProperties
<1> QED
  BY <1>2 DEF Datagrams

LEMMA TypeInit == Init => TypeOK
<1> SUFFICES ASSUME Init PROVE TypeOK
  OBVIOUS
<1>1. {unix, dynamic, connected, hasOther, eof} \subseteq BOOLEAN /\ ignored \subseteq Ignorable
  BY DEF Init
<1>2. other \in Hosts /\ sentTo \in Hosts \cup {Elsewhere}
  BY UDPAssumption DEF Init
<1>3. queue \in Seq(Datagrams) /\ read \in Seq(Datagrams)
  <2>1. <<>> \in Seq(Datagrams)
    OBVIOUS
  <2> QED
    BY <2>1 DEF Init
<1>4. arrived \in 0 .. MaxDatagrams /\ timeout \in Nat /\ elapsed \in Nat /\ now \in 0 .. elapsed
  BY UDPAssumption DEF Init
<1>5. /\ waitError \in Thrown \cup {NoError} /\ soError \in SocketErrors \cup {NoError}
      /\ pc \in {"idle", "wait", "peek", "late"} /\ result \in Returns \cup Thrown
  BY DEF Init, Returns
<1> QED
  BY <1>1, <1>2, <1>3, <1>4, <1>5 DEF TypeOK

\* What can be done while waitRead waits.
LEMMA TypeWait == TypeOK /\ (Wait \/ SelectSpurious \/ Tick) => TypeOK'
<1> SUFFICES ASSUME TypeOK, Wait \/ SelectSpurious \/ Tick PROVE TypeOK'
  OBVIOUS
<1>1. CASE AfterSelect
  <2>1. /\ now' = elapsed /\ (result' = result \/ result' = "true")
        /\ (pc' = "peek" \/ pc' = "idle")
        /\ UNCHANGED <<fixedVars, streamVars, waitError, timeout, elapsed, kernelVars, observers>>
    BY <1>1 DEF AfterSelect, Return
  <2>2. now' \in 0 .. elapsed' /\ result' \in Returns \cup Thrown
    BY <2>1 DEF TypeOK, Returns
  <2> QED
    BY <2>1, <2>2 DEF TypeOK
<1>2. CASE SelectFalse
  <2>1. result' \in Returns \cup Thrown
    BY <1>2 DEF SelectFalse, Return, Returns
  <2> QED
    BY <1>2, <2>1 DEF SelectFalse, Return, TypeOK
<1>3. CASE PeekIgnored
  BY <1>3 DEF PeekIgnored, AfterIgnored, TypeOK
<1>4. CASE Peek
  <2>1. waitError' \in Thrown \cup {NoError} /\ result' \in Returns \cup Thrown
    BY <1>4 DEF Peek, Return, TypeOK, Thrown, Returns
  <2> QED
    BY <1>4, <2>1 DEF Peek, Peeked, Return, TypeOK
<1>5. CASE Tick
  BY <1>5 DEF Tick, TypeOK
<1> QED
  BY <1>1, <1>2, <1>3, <1>4, <1>5 DEF Wait, SelectTrue, SelectSpurious

\* The calls of the client.
LEMMA TypeClient == TypeOK /\ Client => TypeOK'
<1> SUFFICES ASSUME TypeOK, Client PROVE TypeOK'
  OBVIOUS
<1>1. ASSUME NEW t \in Timeouts, WaitRead(t) PROVE TypeOK'
  <2>1. t \in Nat
    BY UDPAssumption
  <2>2. /\ timeout' = t /\ now' = 0 /\ elapsed' = 0
        /\ pc' \in {"idle", "wait"} /\ result' \in {"false", "none"}
        /\ UNCHANGED <<fixedVars, streamVars, waitError, kernelVars, observers>>
    BY <1>1 DEF WaitRead, Return
  <2>3. result' \in Returns \cup Thrown
    BY <2>2 DEF Returns
  <2> QED
    BY <2>1, <2>2, <2>3 DEF TypeOK
<1>2. CASE ReadPending
  <2>1. result' \in Returns \cup Thrown
    BY <1>2 DEF ReadPending, Return, TypeOK
  <2> QED
    BY <1>2, <2>1 DEF ReadPending, Return, TypeOK
<1>3. CASE ReadError
  <2>1. result' \in Returns \cup Thrown
    BY <1>3 DEF ReadError, Return, Outcome, TypeOK, Returns, Thrown
  <2> QED
    BY <1>3, <2>1 DEF ReadError, Return, TypeOK
<1>4. ASSUME NEW n \in Sizes, ReadDatagram(n) PROVE TypeOK'
  <2>1. Head(queue) \in Datagrams /\ Tail(queue) \in Seq(Datagrams) /\ Head(queue).from \in Hosts
    BY <1>4, FrontProperties DEF ReadDatagram
  <2>2. read' \in Seq(Datagrams) /\ queue' \in Seq(Datagrams)
    <3>1. Append(read, Head(queue)) \in Seq(Datagrams)
      BY <2>1, AppendProperties DEF TypeOK
    <3> QED
      BY <1>4, <2>1, <3>1 DEF ReadDatagram
  <2>3. other' \in Hosts
    BY <1>4, <2>1 DEF ReadDatagram, NewOther, TypeOK
  <2>4. result' \in Returns \cup Thrown
    BY <1>4 DEF ReadDatagram, Return, Returns
  <2>5. eof' \in BOOLEAN
    BY <1>4 DEF ReadDatagram
  <2> QED
    BY <1>4, <2>2, <2>3, <2>4, <2>5 DEF ReadDatagram, Return, TypeOK
<1>5. ASSUME NEW r \in Returns \cup Thrown, WriteNothing(r), soError' \in {soError, NoError}
      PROVE  TypeOK'
  BY <1>5 DEF WriteNothing, Return, TypeOK
<1>6. "dropped" \in Returns \cup Thrown /\ "EAGAIN" \in Returns \cup Thrown
      /\ "ENOTCONN" \in Returns \cup Thrown /\ SocketErrors \subseteq Returns \cup Thrown
  BY DEF Returns, Thrown
<1>7. CASE WriteNobody \/ WriteBusy \/ WriteUnnamed
  BY <1>5, <1>6, <1>7 DEF WriteNobody, WriteBusy, WriteUnnamed
<1>8. CASE WriteError
  <2>1. (IF soError \in ignored THEN "dropped" ELSE soError) \in Returns \cup Thrown
    BY <1>6, <1>8 DEF WriteError, TypeOK
  <2> QED
    BY <1>5, <1>8, <2>1 DEF WriteError
<1>9. ASSUME NEW e \in SocketErrors, WriteRefused(e) PROVE TypeOK'
  <2>1. (IF e \in ignored THEN "dropped" ELSE e) \in Returns \cup Thrown
    BY <1>6
  <2> QED
    BY <1>5, <1>9, <2>1 DEF WriteRefused
<1>10. CASE WriteSent
  <2>1. sentTo' \in Hosts \cup {Elsewhere} /\ result' \in Returns \cup Thrown
    BY <1>10 DEF WriteSent, Destination, Return, Returns, TypeOK
  <2> QED
    BY <1>10, <2>1 DEF WriteSent, Return, TypeOK
<1>11. ASSUME NEW e \in Ignorable, NEW on \in BOOLEAN, SetIgnore(e, on) PROVE TypeOK'
  BY <1>11 DEF SetIgnore, TypeOK
<1> QED
  BY <1>1, <1>2, <1>3, <1>4, <1>7, <1>8, <1>9, <1>10, <1>11 DEF Client

\* The network.
LEMMA TypeNetwork == TypeOK /\ Network => TypeOK'
<1> SUFFICES ASSUME TypeOK, Network PROVE TypeOK'
  OBVIOUS
<1>1. ASSUME NEW h \in Hosts, NEW l \in Lens, Arrive(h, l) PROVE TypeOK'
  <2> DEFINE d == [id |-> arrived + 1, from |-> h, len |-> l]
  <2>1. arrived + 1 \in 1 .. MaxDatagrams
    BY <1>1, UDPAssumption DEF Arrive, TypeOK
  <2>2. d \in Datagrams
    BY <2>1 DEF Datagrams
  <2> HIDE DEF d
  <2>3. Append(queue, d) \in Seq(Datagrams)
    BY <2>2, AppendProperties DEF TypeOK
  <2>4. queue' \in Seq(Datagrams) /\ arrived' \in 0 .. MaxDatagrams
    BY <1>1, <2>1, <2>3 DEF Arrive, d
  <2> QED
    BY <1>1, <2>4 DEF Arrive, TypeOK
<1>2. ASSUME NEW e \in SocketErrors, IcmpError(e) PROVE TypeOK'
  BY <1>2 DEF IcmpError, TypeOK
<1> QED
  BY <1>1, <1>2, TypeWait DEF Network

LEMMA TypeNext == TypeOK /\ [Next]_vars => TypeOK'
<1>1. TypeOK /\ UNCHANGED vars => TypeOK'
  BY DEF vars, TypeOK
<1> QED
  BY <1>1, TypeWait, TypeClient, TypeNetwork DEF Next

\* Every state of a datagram stream has its types: no error is kept or thrown that is
\* none of the socket's.
THEOREM TypeCorrect == Spec => []TypeOK
BY TypeInit, TypeNext, PTL DEF Spec

-----------------------------------------------------------------------------
(* Errors.                                                                 *)

\* waitRead is not in its loop while an error waits to be read, and has been there for
\* longer than its timeout when it looks for the last time.
WaitInv ==
  /\ pc # "idle" => waitError = NoError
  /\ pc = "late" => elapsed > timeout
  /\ WaitFalseIsLate

LEMMA WaitInvInit == Init => WaitInv
BY DEF Init, WaitInv, WaitFalseIsLate

LEMMA WaitInvNext == TypeOK /\ WaitInv /\ [Next]_vars => WaitInv'
<1> SUFFICES ASSUME TypeOK, WaitInv, [Next]_vars PROVE WaitInv'
  OBVIOUS
<1> USE DEF WaitInv, WaitFalseIsLate, Return
<1>1. CASE SelectTrue \/ SelectSpurious
  BY <1>1 DEF SelectTrue, SelectSpurious, AfterSelect
<1>2. CASE SelectFalse
  BY <1>2 DEF SelectFalse, TypeOK
<1>3. CASE PeekIgnored
  BY <1>3 DEF PeekIgnored, AfterIgnored, TypeOK
<1>4. CASE Peek
  BY <1>4 DEF Peek
<1>5. CASE Tick
  BY <1>5 DEF Tick, TypeOK
<1>6. ASSUME NEW t \in Timeouts, WaitRead(t) PROVE WaitInv'
  BY <1>6 DEF WaitRead, ErrorPending
<1>7. "false" \notin Thrown /\ "false" \notin SocketErrors
  BY DEF Thrown, SocketErrors, Ignorable
<1>8. CASE ReadPending
  BY <1>7, <1>8 DEF ReadPending, TypeOK, NoError
<1>9. CASE ReadError
  BY <1>7, <1>9 DEF ReadError, Outcome, TypeOK, NoError
<1>10. ASSUME NEW n \in Sizes, ReadDatagram(n) PROVE WaitInv'
  BY <1>10 DEF ReadDatagram
<1>11. CASE WriteNobody \/ WriteBusy \/ WriteUnnamed
  BY <1>11 DEF WriteNobody, WriteBusy, WriteUnnamed, WriteNothing
<1>12. CASE WriteError
  BY <1>7, <1>12 DEF WriteError, WriteNothing, TypeOK
<1>13. ASSUME NEW e \in SocketErrors, WriteRefused(e) PROVE WaitInv'
  BY <1>7, <1>13 DEF WriteRefused, WriteNothing
<1>14. CASE WriteSent
  BY <1>14 DEF WriteSent
<1>15. ASSUME NEW e \in Ignorable, NEW on \in BOOLEAN, SetIgnore(e, on) PROVE WaitInv'
  BY <1>15 DEF SetIgnore
<1>16. ASSUME NEW h \in Hosts, NEW l \in Lens, Arrive(h, l) PROVE WaitInv'
  BY <1>16 DEF Arrive
<1>17. ASSUME NEW e \in SocketErrors, IcmpError(e) PROVE WaitInv'
  BY <1>17 DEF IcmpError
<1>18. CASE UNCHANGED vars
  BY <1>18 DEF vars
<1> QED
  BY <1>1, <1>2, <1>3, <1>4, <1>5, <1>6, <1>8, <1>9, <1>10, <1>11, <1>12, <1>13, <1>14,
     <1>15, <1>16, <1>17, <1>18
  DEF Next, Wait, Client, Network

LEMMA WaitInvariant == Spec => []WaitInv
BY WaitInvInit, WaitInvNext, TypeCorrect, PTL DEF Spec

\* UDPServerStream::waitRead answers false when nothing came in its time, or at once
\* because of an error that the next read() throws; the errors it ignores do not
\* shorten its wait.
THEOREM FalseIsLate == Spec => []WaitFalseIsLate
<1>1. WaitInv => WaitFalseIsLate
  BY DEF WaitInv
<1> QED
  BY WaitInvariant, <1>1, PTL

\* A pending error that is not ignored goes, once, to the caller or to m_wait_read_error,
\* and from there to the caller.
THEOREM ErrorsReachTheCaller == Spec => ErrorsAreNotLost
<1> DEFINE Kept ==
      /\ soError \notin ignored \cup {NoError} /\ soError' = NoError
           => waitError' = soError \/ result' = soError
      /\ waitError # NoError /\ waitError' # waitError => result' = waitError
<1>1. TypeOK /\ WaitInv /\ [Next]_vars => [Kept]_vars
  <2> SUFFICES ASSUME WaitInv, Next PROVE Kept
    OBVIOUS
  <2> USE DEF Return
  <2>1. CASE SelectTrue \/ SelectSpurious
    BY <2>1 DEF SelectTrue, SelectSpurious, AfterSelect
  <2>2. CASE SelectFalse
    BY <2>2 DEF SelectFalse
  <2>3. CASE PeekIgnored
    BY <2>3 DEF PeekIgnored
  <2>4. CASE Peek
    BY <2>4 DEF Peek, WaitInv
  <2>5. CASE Tick
    BY <2>5 DEF Tick
  <2>6. ASSUME NEW t \in Timeouts, WaitRead(t) PROVE Kept
    BY <2>6 DEF WaitRead
  <2>7. CASE ReadPending
    BY <2>7 DEF ReadPending
  <2>8. CASE ReadError
    BY <2>8 DEF ReadError, Outcome
  <2>9. ASSUME NEW n \in Sizes, ReadDatagram(n) PROVE Kept
    BY <2>9 DEF ReadDatagram
  <2>10. CASE WriteNobody \/ WriteBusy \/ WriteUnnamed
    BY <2>10 DEF WriteNobody, WriteBusy, WriteUnnamed, WriteNothing
  <2>11. CASE WriteError
    BY <2>11 DEF WriteError, WriteNothing
  <2>12. ASSUME NEW e \in SocketErrors, WriteRefused(e) PROVE Kept
    BY <2>12 DEF WriteRefused, WriteNothing
  <2>13. CASE WriteSent
    BY <2>13 DEF WriteSent
  <2>14. ASSUME NEW e \in Ignorable, NEW on \in BOOLEAN, SetIgnore(e, on) PROVE Kept
    BY <2>14 DEF SetIgnore
  <2>15. ASSUME NEW h \in Hosts, NEW l \in Lens, Arrive(h, l) PROVE Kept
    BY <2>15 DEF Arrive
  <2>16. ASSUME NEW e \in SocketErrors, IcmpError(e) PROVE Kept
    BY <2>16 DEF IcmpError
  <2> QED
    BY <2>1, <2>2, <2>3, <2>4, <2>5, <2>6, <2>7, <2>8, <2>9, <2>10, <2>11, <2>12, <2>13,
       <2>14, <2>15, <2>16
    DEF Next, Wait, Client, Network
<1> QED
  BY <1>1, TypeCorrect, WaitInvariant, PTL DEF Spec, ErrorsAreNotLost

-----------------------------------------------------------------------------
(* Datagrams.                                                              *)

Numbered(s) == \A i \in 1 .. Len(s) : s[i].id = i

\* What read() hands out goes from the front of the queue to the end of what was read.
LEMMA HandedOut ==
  ASSUME NEW s \in Seq(Datagrams), NEW t \in Seq(Datagrams), t # <<>>
  PROVE  /\ Append(s, Head(t)) \o Tail(t) = s \o t
         /\ Len(Append(s, Head(t))) = Len(s) + 1
         /\ Append(s, Head(t))[Len(s) + 1] = Head(t)
<1> DEFINE h == Head(t)
           r == Tail(t)
           x == <<h>>
<1>1. h \in Datagrams /\ r \in Seq(Datagrams)
      /\ Len(r) = Len(t) - 1 /\ \A i \in 1 .. Len(r) : r[i] = t[i + 1]
  BY HeadTailProperties
<1>2. Len(t) \in Nat \ {0} /\ h = t[1]
  BY EmptySeq
<1> HIDE DEF h, r
<1>3. x \in Seq(Datagrams) /\ Len(x) = 1 /\ x[1] = h
  BY <1>1
<1> HIDE DEF x
<1>4. x \o r = t
  <2> DEFINE y == x \o r
  <2>1. x \in Seq(Datagrams) /\ r \in Seq(Datagrams)
    BY <1>1, <1>3
  <2>2. /\ y \in Seq(Datagrams) /\ Len(y) = Len(x) + Len(r)
        /\ \A i \in 1 .. Len(x) + Len(r) : y[i] = IF i <= Len(x) THEN x[i] ELSE r[i - Len(x)]
    BY <2>1, ConcatProperties
  <2> HIDE DEF y
  <2>3. Len(y) = Len(t)
    BY <1>1, <1>2, <1>3, <2>2
  <2>4. ASSUME NEW i \in 1 .. Len(y) PROVE y[i] = t[i]
    <3>1. CASE i = 1
      BY <1>2, <1>3, <2>2, <2>3, <3>1
    <3>2. CASE i # 1
      <4>1. i - 1 \in 1 .. Len(r) /\ i \in 1 .. 1 + Len(r) /\ ~(i <= 1) /\ i - 1 + 1 = i
        BY <1>1, <1>2, <2>3, <3>2
      <4> QED
        BY <1>1, <1>3, <2>2, <4>1
    <3> QED
      BY <3>1, <3>2
  <2>5. y = t
    BY <2>2, <2>3, <2>4, SeqEqual
  <2> QED
    BY <2>5 DEF y
<1>5. Append(s, h) = s \o x
  BY <1>1, AppendIsConcat DEF x
<1>6. (s \o x) \o r = s \o (x \o r)
  <2>1. x \in Seq(Datagrams) /\ r \in Seq(Datagrams)
    BY <1>1, <1>3
  <2> QED
    BY <2>1, ConcatAssociative
<1>7. Len(Append(s, h)) = Len(s) + 1 /\ Append(s, h)[Len(s) + 1] = h
  BY <1>1, AppendProperties
<1>8. Append(s, h) \o r = s \o t
  BY <1>4, <1>5, <1>6, Zenon
<1> QED
  BY <1>7, <1>8 DEF h, r

\* A stream knows whom to answer once it has read, and that is the last sender.
SenderInv ==
  /\ hasOther <=> ~dynamic \/ read # <<>>
  /\ hasOther => other = LastSender

DatagramInv == DatagramsInOrder /\ SenderInv /\ AnswersGoToTheLastSender

LEMMA DatagramInvInit == Init => DatagramInv
<1> SUFFICES ASSUME Init PROVE DatagramInv
  OBVIOUS
<1>1. Len(<<>> \o <<>>) = 0
  OBVIOUS
<1>2. DatagramsInOrder
  BY <1>1 DEF Init, DatagramsInOrder
<1>3. SenderInv /\ AnswersGoToTheLastSender
  BY DEF Init, SenderInv, AnswersGoToTheLastSender, LastSender
<1> QED
  BY <1>2, <1>3 DEF DatagramInv

\* What neither moves a datagram nor sends one.
LEMMA DatagramInvQuiet ==
  ASSUME DatagramInv, UNCHANGED <<fixedVars, hasOther, other, queue, arrived, observers>>,
         result' = "sent" => result = "sent"
  PROVE  DatagramInv'
<1>1. DatagramsInOrder'
  BY DEF DatagramInv, DatagramsInOrder
<1> QED
  BY <1>1 DEF DatagramInv, SenderInv, AnswersGoToTheLastSender, LastSender

LEMMA DatagramInvNext == TypeOK /\ DatagramInv /\ [Next]_vars => DatagramInv'
<1> SUFFICES ASSUME TypeOK, DatagramInv, [Next]_vars PROVE DatagramInv'
  OBVIOUS
<1>0. "sent" \notin Thrown /\ "sent" \notin SocketErrors
  BY DEF Thrown, SocketErrors, Ignorable
<1> DEFINE Quiet == /\ UNCHANGED <<fixedVars, hasOther, other, queue, arrived, observers>>
                    /\ result' = "sent" => result = "sent"
<1> USE DEF Return
<1>1. ASSUME Quiet PROVE DatagramInv'
  BY <1>1, DatagramInvQuiet
<1>2. CASE SelectTrue \/ SelectSpurious \/ SelectFalse \/ PeekIgnored \/ Peek \/ Tick
  <2>1. Quiet
    BY <1>2 DEF SelectTrue, SelectSpurious, SelectFalse, AfterSelect, PeekIgnored,
                AfterIgnored, Peek, Peeked, Tick
  <2> QED
    BY <1>1, <2>1
<1>3. ASSUME NEW t \in Timeouts, WaitRead(t) PROVE DatagramInv'
  <2>1. Quiet
    BY <1>3 DEF WaitRead
  <2> QED
    BY <1>1, <2>1
<1>4. CASE ReadPending \/ ReadError
  <2>1. Quiet
    BY <1>0, <1>4 DEF ReadPending, ReadError, Outcome, TypeOK, NoError
  <2> QED
    BY <1>1, <2>1
<1>5. CASE WriteNobody \/ WriteBusy \/ WriteUnnamed \/ WriteError
  <2>1. Quiet
    BY <1>0, <1>5 DEF WriteNobody, WriteBusy, WriteUnnamed, WriteError, WriteNothing, TypeOK
  <2> QED
    BY <1>1, <2>1
<1>6. ASSUME NEW e \in SocketErrors, WriteRefused(e) PROVE DatagramInv'
  <2>1. Quiet
    BY <1>0, <1>6 DEF WriteRefused, WriteNothing
  <2> QED
    BY <1>1, <2>1
<1>7. ASSUME NEW e \in Ignorable, NEW on \in BOOLEAN, SetIgnore(e, on) PROVE DatagramInv'
  <2>1. Quiet
    BY <1>7 DEF SetIgnore
  <2> QED
    BY <1>1, <2>1
<1>8. ASSUME NEW e \in SocketErrors, IcmpError(e) PROVE DatagramInv'
  <2>1. Quiet
    BY <1>8 DEF IcmpError
  <2> QED
    BY <1>1, <2>1
<1>9. CASE UNCHANGED vars
  <2>1. Quiet
    BY <1>9 DEF vars
  <2> QED
    BY <1>1, <2>1
<1>10. ASSUME NEW h \in Hosts, NEW l \in Lens, Arrive(h, l) PROVE DatagramInv'
  <2> DEFINE d == [id |-> arrived + 1, from |-> h, len |-> l]
             all == read \o queue
  <2>1. /\ arrived < MaxDatagrams /\ arrived' = arrived + 1 /\ queue' = Append(queue, d)
        /\ UNCHANGED <<fixedVars, streamVars, waitError, callVars, soError, observers>>
    BY <1>10 DEF Arrive
  <2>2. d \in Datagrams /\ d.id = arrived + 1
    <3>1. arrived + 1 \in 1 .. MaxDatagrams
      BY <2>1, UDPAssumption DEF TypeOK
    <3> QED
      BY <3>1 DEF Datagrams
  <2>3. /\ queue \in Seq(Datagrams) /\ read \in Seq(Datagrams) /\ arrived \in Nat
        /\ all \in Seq(Datagrams) /\ Len(all) = arrived /\ Numbered(all)
    BY UDPAssumption, ConcatProperties DEF TypeOK, DatagramInv, DatagramsInOrder, Numbered
  <2> HIDE DEF d
  <2>4. (read \o queue)' = Append(all, d)
    <3> DEFINE x == <<d>>
    <3>1. x \in Seq(Datagrams)
      BY <2>2
    <3>2. Append(queue, d) = queue \o x
      BY <2>2, <2>3, AppendIsConcat
    <3>3. Append(all, d) = all \o x
      BY <2>2, <2>3, AppendIsConcat
    <3> HIDE DEF x
    <3>4. (read \o queue) \o x = read \o (queue \o x)
      <4>1. queue \in Seq(Datagrams) /\ read \in Seq(Datagrams)
        BY <2>3
      <4> QED
        BY <3>1, <4>1, ConcatAssociative
    <3>5. (read \o queue)' = read \o Append(queue, d)
      BY <2>1
    <3> QED
      BY <3>2, <3>3, <3>4, <3>5, Zenon
  <2> HIDE DEF all
  <2>5. Len(Append(all, d)) = arrived' /\ Numbered(Append(all, d))
    <3>1. /\ Len(Append(all, d)) = Len(all) + 1
          /\ \A i \in 1 .. Len(all) : Append(all, d)[i] = all[i]
          /\ Append(all, d)[Len(all) + 1] = d
      BY <2>2, <2>3, AppendProperties
    <3> QED
      BY <2>1, <2>2, <2>3, <3>1 DEF Numbered
  <2>6. DatagramsInOrder'
    BY <2>4, <2>5 DEF DatagramsInOrder, Numbered
  <2>7. SenderInv' /\ AnswersGoToTheLastSender'
    BY <2>1 DEF DatagramInv, SenderInv, AnswersGoToTheLastSender, LastSender
  <2> QED
    BY <2>6, <2>7 DEF DatagramInv
<1>11. ASSUME NEW n \in Sizes, ReadDatagram(n) PROVE DatagramInv'
  <2>1. /\ queue # <<>> /\ read' = Append(read, Head(queue)) /\ queue' = Tail(queue)
        /\ hasOther' = TRUE /\ other' = NewOther /\ result' = "bytes"
        /\ UNCHANGED <<fixedVars, arrived>>
    BY <1>11 DEF ReadDatagram
  <2>2. queue \in Seq(Datagrams) /\ read \in Seq(Datagrams)
    BY DEF TypeOK
  <2>3. /\ Append(read, Head(queue)) \o Tail(queue) = read \o queue
        /\ Len(Append(read, Head(queue))) = Len(read) + 1
        /\ Append(read, Head(queue))[Len(read) + 1] = Head(queue)
    BY <2>1, <2>2, HandedOut
  <2>4. (read \o queue)' = read \o queue
    BY <2>1, <2>3
  <2>5. DatagramsInOrder'
    BY <2>1, <2>4 DEF DatagramInv, DatagramsInOrder
  <2>6. read'[Len(read')] = Head(queue)
    BY <2>1, <2>3
  <2>7. read' # <<>>
    <3>1. Len(<<>>) = 0 /\ Len(read) \in Nat
      BY <2>2, LenProperties
    <3>2. Len(read') = Len(read) + 1
      BY <2>1, <2>3
    <3> QED
      BY <3>1, <3>2
  <2>8. dynamic' = dynamic /\ (~dynamic => other = Peer)
    BY <2>1 DEF DatagramInv, SenderInv, LastSender
  <2>9. other' = LastSender'
    BY <2>1, <2>6, <2>8 DEF NewOther, LastSender
  <2>10. SenderInv'
    BY <2>1, <2>7, <2>9 DEF SenderInv
  <2>11. AnswersGoToTheLastSender'
    BY <2>1 DEF AnswersGoToTheLastSender
  <2> QED
    BY <2>5, <2>10, <2>11 DEF DatagramInv
<1>12. CASE WriteSent
  <2>1. /\ hasOther /\ sentTo' = Destination
        /\ UNCHANGED <<fixedVars, streamVars, kernelVars, read>>
    BY <1>12 DEF WriteSent
  <2>2. other = LastSender /\ LastSender' = LastSender
    BY <2>1 DEF DatagramInv, SenderInv, LastSender
  <2>3. AnswersGoToTheLastSender'
    BY <2>1, <2>2 DEF AnswersGoToTheLastSender, Destination
  <2>4. SenderInv' /\ DatagramsInOrder'
    BY <2>1, <2>2 DEF DatagramInv, SenderInv, DatagramsInOrder
  <2> QED
    BY <2>3, <2>4 DEF DatagramInv
<1> QED
  BY <1>2, <1>3, <1>4, <1>5, <1>6, <1>7, <1>8, <1>9, <1>10, <1>11, <1>12
  DEF Next, Wait, Client, Network

LEMMA DatagramInvariant == Spec => []DatagramInv
BY DatagramInvInit, DatagramInvNext, TypeCorrect, PTL DEF Spec

\* The zero-size recvfrom with which UDPServerStream::waitRead looks for errors takes no
\* datagram, and no answer to an error does: read() hands out all of them, in order.
THEOREM InOrder == Spec => []DatagramsInOrder
<1>1. DatagramInv => DatagramsInOrder
  BY DEF DatagramInv
<1> QED
  BY DatagramInvariant, <1>1, PTL

\* write() answers the sender of the last datagram that read() has handed out, whatever
\* has come in since, or else the peer that the stream was opened for.
THEOREM AnswersTheLastSender == Spec => []AnswersGoToTheLastSender
<1>1. DatagramInv => AnswersGoToTheLastSender
  BY DEF DatagramInv
<1> QED
  BY DatagramInvariant, <1>1, PTL
=============================================================================
