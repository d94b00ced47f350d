----------------------------- MODULE UDPStream ------------------------------
(***************************************************************************)
(* UDPServerStream and UnixDatagramStream: waitRead, read and write on a   *)
(* datagram socket, with the asynchronous errors that ICMP messages leave  *)
(* on a UDP one.                                                           *)
(*                                                                         *)
(* A stream either answers the sender of the last datagram (dynamic, the   *)
(* udpserver:// and unixdgramserver:// streams) or talks to one peer (the  *)
(* udp:// streams, whose socket may be connected, and unixdgram://).  The  *)
(* kernel reports a pending error, once, from whichever call comes next,   *)
(* ahead of any datagram.  It may drop a datagram with a wrong checksum    *)
(* after select() has counted it.                                          *)
(***************************************************************************)
EXTENDS Integers, Sequences

CONSTANTS
  Hosts, Peer,   \* the senders; the configured peer of a stream that is not dynamic
  LongAddresses, \* the hosts whose address is longer than a struct sockaddr (IPv6)
  Unnamed,       \* the hosts whose Unix socket is not bound to a path
  Elsewhere,     \* where no host is
  Lens, Sizes,   \* lengths of datagrams, sizes of read buffers
  Timeouts,
  BadChecksums, FullBuffers,  \* may datagrams be dropped late, sends be refused?
  MaxDatagrams   \* bound: datagrams that arrive

Ignorable == {"ECONNREFUSED", "EHOSTUNREACH", "ENETUNREACH"}
SocketErrors == Ignorable \cup {"EMSGSIZE"}
NoError == "0"

ASSUME UDPAssumption ==
  /\ Peer \in Hosts /\ LongAddresses \cup Unnamed \subseteq Hosts /\ Elsewhere \notin Hosts
  /\ Lens \subseteq Nat /\ Sizes \subseteq Nat /\ Timeouts \subseteq Nat
  /\ {BadChecksums, FullBuffers} \subseteq BOOLEAN /\ MaxDatagrams \in Nat

VARIABLES
  unix,           \* is it a UnixDatagramStream?
  dynamic,        \* m_si_other_dynamic
  connected,      \* was the socket connected?
  ignored,        \* the errors that m_ignore_* name
  hasOther, other,  \* m_has_other, m_si_other
  waitError,      \* m_wait_read_error
  eof,            \* m_eof
  pc,             \* "idle", or in waitRead: "wait", "peek" or "late"
  timeout, now, elapsed,  \* waitRead's argument; its `now'; the time since it began
  result,         \* what the last call returned or threw
  queue, soError, \* the socket: its datagrams and its pending error
  arrived,        \* datagrams that have come in
  read, sentTo    \* observers: the datagrams read, where the last one was sent

fixedVars == <<unix, dynamic, connected>>
streamVars == <<ignored, hasOther, other, eof>>
timeVars == <<timeout, now, elapsed>>
callVars == <<pc, timeVars, result>>
kernelVars == <<queue, soError, arrived>>
observers == <<read, sentTo>>
vars == <<fixedVars, streamVars, waitError, callVars, kernelVars, observers>>

Datagrams == [id : 1..MaxDatagrams, from : Hosts, len : Lens]
Returns == {"none", "true", "false", "bytes", "nothing", "dropped", "sent"}
Thrown == SocketErrors \cup {"EAGAIN", "ENOTCONN"}

TypeOK ==
  /\ {unix, dynamic, connected, hasOther, eof} \subseteq BOOLEAN /\ ignored \subseteq Ignorable
  /\ other \in Hosts
  /\ waitError \in Thrown \cup {NoError} /\ soError \in SocketErrors \cup {NoError}
  /\ pc \in {"idle", "wait", "peek", "late"}
  /\ timeout \in Nat /\ elapsed \in Nat /\ now \in 0..elapsed
  /\ result \in Returns \cup Thrown
  /\ queue \in Seq(Datagrams) /\ read \in Seq(Datagrams) /\ arrived \in 0..MaxDatagrams
  /\ sentTo \in Hosts \cup {Elsewhere}

\* The constructors, and what openURI_UDP makes of the options: an unconnected stream
\* ignores ECONNREFUSED (OpensAsWritten in MCOpening).
Init ==
  /\ unix \in BOOLEAN /\ dynamic \in BOOLEAN /\ connected \in BOOLEAN
  /\ unix \/ dynamic => ~connected
  /\ ignored \in SUBSET Ignorable
  /\ CASE unix -> ignored = {} [] ~unix /\ dynamic -> ignored = Ignorable
       [] OTHER -> ~connected => "ECONNREFUSED" \in ignored
  /\ hasOther = ~dynamic /\ other = Peer
  /\ waitError = NoError /\ eof = FALSE
  /\ pc = "idle" /\ timeout = 0 /\ now = 0 /\ elapsed = 0 /\ result = "none"
  /\ queue = <<>> /\ soError = NoError /\ arrived = 0
  /\ read = <<>> /\ sentTo = Peer

-----------------------------------------------------------------------------
\* The network.  A unixdgram:// stream has no path that anyone could send to.
Arrive(h, l) ==
  /\ arrived < MaxDatagrams /\ (connected => h = Peer) /\ (unix => dynamic)
  /\ arrived' = arrived + 1
  /\ queue' = Append(queue, [id |-> arrived + 1, from |-> h, len |-> l])
  /\ UNCHANGED <<fixedVars, streamVars, waitError, callVars, soError, observers>>

IcmpError(e) ==
  /\ connected /\ soError = NoError
  /\ soError' = e
  /\ UNCHANGED <<fixedVars, streamVars, waitError, callVars, queue, arrived, observers>>

\* setIgnoreEconnRefused and its siblings.
SetIgnore(e, on) ==
  /\ pc = "idle" /\ ~unix /\ (e = "ECONNREFUSED" /\ ~on => connected)
  /\ ignored' = IF on THEN ignored \cup {e} ELSE ignored \ {e}
  /\ UNCHANGED <<fixedVars, hasOther, other, eof, waitError, callVars, kernelVars, observers>>

-----------------------------------------------------------------------------
Return(r) == pc' = "idle" /\ result' = r

\* Fault: waitRead does not look at m_wait_read_error.
NothingPending == FALSE

ErrorPending == waitError # NoError

WaitRead(t) ==
  /\ pc = "idle"
  /\ timeout' = t /\ now' = 0 /\ elapsed' = 0
  /\ \/ ErrorPending /\ Return("false")
     \/ ~ErrorPending /\ pc' = "wait" /\ result' = "none"
  /\ UNCHANGED <<fixedVars, streamVars, waitError, kernelVars, observers>>

\* FDStream::waitRead, for what is left of the timeout or, late, for no time at all.
\* It is all there is to the waitRead of a UnixDatagramStream.
Readable == queue # <<>> \/ soError # NoError

AfterSelect ==
  /\ now' = elapsed
  /\ IF pc = "wait" /\ ~unix THEN pc' = "peek" /\ UNCHANGED result ELSE Return("true")
  /\ UNCHANGED <<fixedVars, streamVars, waitError, timeout, elapsed, kernelVars, observers>>

SelectTrue ==
  /\ pc \in {"wait", "late"} /\ Readable
  /\ AfterSelect

\* A datagram whose checksum turns out wrong is gone when it is asked for.
SelectSpurious ==
  /\ pc \in {"wait", "late"} /\ ~Readable /\ BadChecksums /\ ~unix
  /\ AfterSelect

SelectFalse ==
  /\ pc \in {"wait", "late"} /\ ~Readable
  /\ pc = "wait" => elapsed >= timeout
  /\ Return("false")
  /\ UNCHANGED <<fixedVars, streamVars, waitError, timeVars, kernelVars, observers>>

\* Faults: an ignored error ends the wait; `now' is taken before the loop only.
AfterIgnoredReturning == Return("false") /\ UNCHANGED now
AfterIgnoredForgetting == pc' = "wait" /\ now' = 0 /\ UNCHANGED result

\* The `continue's of the loop.
AfterIgnored ==
  /\ pc' = IF now <= timeout THEN "wait" ELSE "late"
  /\ UNCHANGED <<result, now>>

\* Fault: the datagram is read, not peeked at.
PeekedReading == IF soError = NoError /\ queue # <<>> THEN Tail(queue) ELSE queue

\* The zero-size recvfrom(MSG_PEEK) takes a pending error and no datagram.
Peeked == queue
PeekIgnored ==
  /\ pc = "peek" /\ soError \in ignored
  /\ soError' = NoError
  /\ AfterIgnored
  /\ UNCHANGED <<fixedVars, streamVars, waitError, timeout, elapsed, queue, arrived, observers>>

Peek ==
  /\ pc = "peek" /\ soError \notin ignored
  /\ waitError' = IF soError # NoError THEN soError
                  ELSE IF queue = <<>> THEN "EAGAIN" ELSE NoError
  /\ soError' = NoError /\ queue' = Peeked
  /\ Return("true")
  /\ UNCHANGED <<fixedVars, streamVars, timeVars, arrived, observers>>

-----------------------------------------------------------------------------
ReadPending ==
  /\ pc = "idle" /\ waitError # NoError
  /\ waitError' = NoError /\ Return(waitError)
  /\ UNCHANGED <<fixedVars, streamVars, timeVars, kernelVars, observers>>

\* recvfrom fails with the pending error, or with EAGAIN.
Outcome == IF soError \in ignored \cup {NoError} THEN "nothing" ELSE soError
ReadError ==
  /\ pc = "idle" /\ waitError = NoError /\ (soError # NoError \/ queue = <<>>)
  /\ soError' = NoError
  /\ Return(Outcome)
  /\ UNCHANGED <<fixedVars, streamVars, waitError, timeVars, queue, arrived, observers>>

\* Fault: only the first sender is remembered.
NewOtherOnce == IF dynamic /\ ~hasOther THEN Head(queue).from ELSE other

NewOther == IF dynamic THEN Head(queue).from ELSE other

\* recvfrom takes a datagram; what does not fit the buffer is cut off.
ReadDatagram(n) ==
  /\ pc = "idle" /\ waitError = NoError /\ soError = NoError /\ queue # <<>>
  /\ hasOther' = TRUE /\ other' = NewOther
  /\ eof' = (eof \/ n = 0 \/ Head(queue).len = 0)
  /\ read' = Append(read, Head(queue)) /\ queue' = Tail(queue)
  /\ Return("bytes")
  /\ UNCHANGED <<fixedVars, ignored, waitError, timeVars, soError, arrived, sentTo>>

\* A write that ends with r and sends nothing.
WriteNothing(r) ==
  /\ pc = "idle"
  /\ Return(r)
  /\ UNCHANGED <<fixedVars, streamVars, waitError, timeVars, queue, arrived, observers>>

\* Nobody to send to: the bytes count as written.
WriteNobody == ~hasOther /\ WriteNothing("dropped") /\ UNCHANGED soError

\* sendto fails with the pending error; the datagram is not sent.
WriteError ==
  /\ hasOther /\ soError # NoError /\ soError' = NoError
  /\ WriteNothing(IF soError \in ignored THEN "dropped" ELSE soError)

\* sendto finds no route, no socket under the path, or the datagram too long.
WriteRefused(e) ==
  /\ hasOther /\ soError = NoError /\ UNCHANGED soError
  /\ e \in IF unix THEN {"ECONNREFUSED", "EMSGSIZE"} ELSE SocketErrors \ {"ECONNREFUSED"}
  /\ WriteNothing(IF e \in ignored THEN "dropped" ELSE e)

\* No test for EAGAIN succeeds, as it asks for ENOBUFS too.
WriteBusy ==
  /\ hasOther /\ soError = NoError /\ UNCHANGED soError /\ FullBuffers
  /\ WriteNothing("EAGAIN")

\* There is no address to answer to.
NoAddress == unix /\ other \in Unnamed
WriteUnnamed == hasOther /\ NoAddress /\ WriteNothing("ENOTCONN") /\ UNCHANGED soError

\* m_si_other is a sockaddr: of a longer address it has the beginning, and sendto reads
\* the members behind it for the rest.
Destination == IF ~unix /\ other \in LongAddresses THEN Elsewhere ELSE other
WriteSent ==
  /\ pc = "idle" /\ hasOther /\ soError = NoError /\ ~NoAddress
  /\ sentTo' = Destination
  /\ Return("sent")
  /\ UNCHANGED <<fixedVars, streamVars, waitError, timeVars, kernelVars, read>>

\* Time passes in select() until its timeout, and in the loop, by one tick at most;
\* bound: how long ago the timeout ended is not told apart.
Tick ==
  /\ elapsed <= timeout
  /\ \/ pc = "wait" /\ ~Readable /\ elapsed < timeout
     \/ pc = "peek" /\ elapsed = now
  /\ elapsed' = elapsed + 1
  /\ UNCHANGED <<fixedVars, streamVars, waitError, pc, timeout, now, result, kernelVars,
                 observers>>

-----------------------------------------------------------------------------
Wait == SelectTrue \/ SelectFalse \/ PeekIgnored \/ Peek
Client ==
  \/ \E t \in Timeouts : WaitRead(t)
  \/ ReadPending \/ ReadError \/ \E n \in Sizes : ReadDatagram(n)
  \/ WriteNobody \/ WriteError \/ WriteBusy \/ WriteUnnamed \/ WriteSent
  \/ \E e \in SocketErrors : WriteRefused(e)
  \/ \E e \in Ignorable, on \in BOOLEAN : SetIgnore(e, on)
Network == (\E h \in Hosts, l \in Lens : Arrive(h, l)) \/ (\E e \in SocketErrors : IcmpError(e))
           \/ SelectSpurious

Next == Wait \/ Client \/ Network \/ Tick

Spec == Init /\ [][Next]_vars
\* The calling thread goes on, and time with it: a tick that is possible again and
\* again is not put off for ever.
LiveSpec == Spec /\ WF_vars(Wait) /\ SF_vars(Tick)

-----------------------------------------------------------------------------
\* A socket error that is not ignored is never swallowed, although the kernel tells
\* of it once and waitRead may be the one it tells: it is thrown, or kept and then
\* thrown by read().
ErrorsAreNotLost ==
  [][ /\ soError \notin ignored \cup {NoError} /\ soError' = NoError
           => waitError' = soError \/ result' = soError
      /\ waitError # NoError /\ waitError' # waitError => result' = waitError ]_vars

\* Waiting for datagrams loses none: what was read and what waits is what came in.
DatagramsInOrder ==
  LET all == read \o queue
  IN Len(all) = arrived /\ \A i \in 1..arrived : all[i].id = i

LastSender == IF dynamic THEN read[Len(read)].from ELSE Peer

\* A stream that answers does so to the last datagram it has handed out, whatever it
\* has seen since; one with a peer sends to no one else.  The exception are the UDP
\* hosts whose address UDPServerStream has no room for.
AnswersGoToTheLastSender ==
  result = "sent" => sentTo = LastSender \/ (~unix /\ LastSender \in LongAddresses)

\* waitRead returns false only when its time is over, or to have an error read.
WaitFalseIsLate ==
  result = "false" => elapsed >= timeout \/ waitError # NoError

\* waitRead returns however many ignored errors come in.
WaitReturns == pc # "idle" ~> pc = "idle"

-----------------------------------------------------------------------------
(* What texts of the repository say and the code does not keep: TLC refutes each
   with the constants that the README gives. *)

\* Driver.hpp:575: eof() is "Whether the current stream is finished (e.g.
\* end-of-file or disconnected)".
EofMeansFinished == [][eof => read' = read]_vars

\* Driver.hpp:489, of readPacket: "@throws TimeoutError on timeout or no data, and
\* UnixError on reading problems".  EAGAIN is no data.
NoDataIsNoError == ~FullBuffers => result # "EAGAIN"

\* Driver.hpp:508-512, of writePacket: "Tries to write a packet to the file
\* descriptor. +timeout+ is the timeout in milliseconds [...] @throws timeout_error
\* on timeout".
BusyIsNoError == ~BadChecksums => result # "EAGAIN"

\* Driver.hpp:444-445, of readRaw, which ends when waitRead returns false: "return if
\* no bytes are received within that much time".
FalseMeansNoData == result = "false" => elapsed >= timeout

\* README.md:198-199: "Writing to the driver will send data back to the last UDP client
\* whose packet was received"; Driver.cpp:563 and 572 "Allow IPv4 or IPv6".
AnswersReachTheLastSender == ~unix /\ result = "sent" => sentTo = LastSender

\* README.md:227, of unixdgram://: "The client can work bidirectional".
UnixClientsAreAnswered == unix => result # "ENOTCONN"
=============================================================================
