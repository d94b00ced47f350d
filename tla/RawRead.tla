------------------------------ MODULE RawRead -------------------------------
(***************************************************************************)
(* Driver::readRaw: read bytes without extracting packets, under an        *)
(* overall, a first-byte and an inter-byte timeout.                        *)
(*                                                                         *)
(* A byte is its number in the device's output, so that order and loss can *)
(* be told.  Time starts with each call; `now' is the local variable of    *)
(* the code, which lags behind `elapsed'.  Time passes where the thread    *)
(* blocks in select(), and between reads that bring nothing.               *)
(***************************************************************************)
EXTENDS Integers, Sequences

CONSTANTS
  MAX,          \* MAX_PACKET_SIZE, the size of internal_buffer
  Sizes,        \* buffer sizes a client passes
  Timeouts,     \* packet and first-byte timeouts a client passes
  InterBytes,   \* inter-byte timeouts a client passes, 0 for none
  MayClose,     \* may the client call readRaw without a stream?
  Signals,      \* may select() be interrupted?
  ReadErrors,   \* may ::read fail?
  MaxInput      \* bound: bytes the device sends

ASSUME RawAssumption ==
  /\ MAX \in Nat /\ MaxInput \in Nat
  /\ Sizes \subseteq Nat /\ Timeouts \subseteq Nat /\ InterBytes \subseteq Nat
  /\ {MayClose, Signals, ReadErrors} \subseteq BOOLEAN

VARIABLES
  pc,             \* "idle", "wait" (in waitRead) or "read"
  ibuf,           \* what readPacket has left in internal_buffer
  out, size,      \* the caller's buffer: bytes put there, its size
  packet, inter,  \* packet_timeout; inter_byte_timeout once defaulted
  now, lastChar,  \* the local variables of these names
  global,         \* global_deadline
  received,       \* received_bytes
  result,         \* what the call returned or threw
  elapsed,        \* time since the call started
  valid, wire, sent, peerClosed,  \* the stream; bytes sent so far
  first, firstAt, lastAt,  \* observers: first_byte_timeout; when bytes came in, -1 if none
  interrupted     \* observer: has a signal ended the call?

callVars == <<size, packet, inter, first, interrupted>>
timeVars == <<now, lastChar, global, received, firstAt, lastAt>>
streamVars == <<valid, wire, sent, peerClosed>>
vars == <<pc, ibuf, out, callVars, timeVars, result, elapsed, streamVars>>

Min2(a, b) == IF a < b THEN a ELSE b
DropFirst(s, n) == SubSeq(s, n + 1, Len(s))

TypeOK ==
  /\ pc \in {"idle", "wait", "read"}
  /\ ibuf \in Seq(Nat) /\ Len(ibuf) <= MAX
  /\ out \in Seq(Nat) /\ size \in Nat /\ Len(out) <= size
  /\ packet \in Nat /\ inter \in Nat /\ first \in Nat
  /\ now \in Nat /\ lastChar \in Nat /\ global \in Nat /\ elapsed \in Nat
  /\ received \in BOOLEAN /\ valid \in BOOLEAN /\ peerClosed \in BOOLEAN
  /\ result \in {"none", "bytes", "unix_error", "runtime_error"}
  /\ wire \in Seq(Nat) /\ sent \in Nat
  /\ firstAt \in Nat \cup {-1} /\ lastAt \in Nat \cup {-1} /\ interrupted \in BOOLEAN

Init ==
  /\ pc = "idle" /\ result = "none"
  /\ ibuf = <<>> /\ out = <<>> /\ size = 0
  /\ packet = 0 /\ inter = 0 /\ first = 0
  /\ now = 0 /\ lastChar = 0 /\ global = 0 /\ received = FALSE /\ elapsed = 0
  /\ firstAt = -1 /\ lastAt = -1 /\ interrupted = FALSE
  /\ valid = TRUE /\ wire = <<>> /\ sent = 0 /\ peerClosed = FALSE

-----------------------------------------------------------------------------
DeviceSend ==
  /\ valid /\ ~peerClosed /\ sent < MaxInput
  /\ sent' = sent + 1
  /\ wire' = Append(wire, sent + 1)
  /\ UNCHANGED <<pc, ibuf, out, callVars, timeVars, result, elapsed, valid, peerClosed>>

DeviceClose ==
  /\ valid /\ ~peerClosed
  /\ peerClosed' = TRUE
  /\ UNCHANGED <<pc, ibuf, out, callVars, timeVars, result, elapsed, valid, wire, sent>>

\* A readPacket call reads some bytes and leaves them in the internal buffer.
LeaveInBuffer ==
  /\ pc = "idle" /\ valid /\ wire # <<>>
  /\ \E n \in 1 .. Min2(MAX - Len(ibuf), Len(wire)) :
       ibuf' = ibuf \o SubSeq(wire, 1, n) /\ wire' = DropFirst(wire, n)
  /\ out' = <<>> /\ size' = 0 /\ result' = "none"
  /\ UNCHANGED <<pc, packet, inter, first, interrupted, timeVars, elapsed, valid, sent, peerClosed>>

\* Driver::close.
Close ==
  /\ pc = "idle" /\ MayClose /\ valid
  /\ valid' = FALSE /\ wire' = <<>> /\ sent' = sent - Len(wire)
  /\ result' = "none"
  /\ UNCHANGED <<pc, ibuf, out, callVars, timeVars, elapsed, peerClosed>>

-----------------------------------------------------------------------------
Readable == wire # <<>> \/ peerClosed
Deadline == Min2(global, lastChar + inter)

Return(r) == pc' = "idle" /\ result' = r

\* The condition of the while loop, evaluated after a read.
Continue ==
  IF Len(out') < size /\ now' <= global'
  THEN pc' = "wait" /\ UNCHANGED result
  ELSE Return("bytes")

\* Fault: the internal buffer is passed over.
TakeNothing(n) == out' = <<>> /\ UNCHANGED ibuf

\* What readPacket left in the internal buffer comes first.
TakeBuffered(n) ==
  LET fill == Min2(Len(ibuf), n)
  IN out' = SubSeq(ibuf, 1, fill) /\ ibuf' = DropFirst(ibuf, fill)

ReadRaw(n, p, f, i) ==
  /\ pc = "idle" /\ valid
  /\ TakeBuffered(n)
  /\ size' = n /\ packet' = p /\ first' = Min2(p, f)
  /\ inter' = IF i = 0 THEN p ELSE i
  /\ now' = 0 /\ elapsed' = 0 /\ lastChar' = p /\ global' = Min2(p, f)
  /\ received' = FALSE /\ firstAt' = -1 /\ lastAt' = -1 /\ interrupted' = FALSE
  /\ IF Len(ibuf) < n THEN pc' = "wait" /\ result' = "none" ELSE Return("bytes")
  /\ UNCHANGED streamVars

ReadRawClosed ==
  /\ pc = "idle" /\ ~valid
  /\ Return("runtime_error")
  /\ UNCHANGED <<ibuf, out, callVars, timeVars, elapsed, streamVars>>

\* select() refuses a negative timeout (EINVAL).
WaitRefused ==
  /\ pc = "wait" /\ Deadline < now
  /\ Return("unix_error")
  /\ UNCHANGED <<ibuf, out, callVars, timeVars, elapsed, streamVars>>

WaitReadTrue ==
  /\ pc = "wait" /\ Deadline >= now /\ Readable
  /\ pc' = "read"
  /\ UNCHANGED <<ibuf, out, callVars, timeVars, result, elapsed, streamVars>>

WaitReadFalse ==
  /\ pc = "wait" /\ Deadline >= now
  /\ ~Readable /\ elapsed >= Deadline
  /\ Return("bytes")
  /\ UNCHANGED <<ibuf, out, callVars, timeVars, elapsed, streamVars>>

\* FDStream::waitRead returns false, too, when a signal interrupts select().
WaitInterrupted ==
  /\ pc = "wait" /\ Deadline >= now /\ Signals
  /\ Return("bytes") /\ interrupted' = TRUE
  /\ UNCHANGED <<ibuf, out, size, packet, inter, first, timeVars, elapsed, streamVars>>

\* Fault: the overall deadline starts anew with every read.
GlobalAfterReadAlways == elapsed + packet

\* The first byte received restarts the overall deadline.
GlobalAfterRead == IF received THEN global ELSE elapsed + packet

ReadBytes ==
  /\ pc = "read" /\ wire # <<>>
  /\ LET c == Min2(size - Len(out), Len(wire))
     IN out' = out \o SubSeq(wire, 1, c) /\ wire' = DropFirst(wire, c)
  /\ now' = elapsed /\ lastChar' = elapsed
  /\ global' = GlobalAfterRead
  /\ received' = TRUE
  /\ firstAt' = IF received THEN firstAt ELSE elapsed
  /\ lastAt' = elapsed
  /\ Continue
  /\ UNCHANGED <<ibuf, callVars, elapsed, valid, sent, peerClosed>>

\* Faults: read() returning 0 leaves `now' as it was, or counts as a byte, or ends
\* the call.
ReadNothingKeepingNow ==
  /\ pc = "read" /\ wire = <<>>
  /\ pc' = "wait"
  /\ UNCHANGED <<ibuf, out, callVars, timeVars, result, elapsed, streamVars>>
ReadNothingEndsCall ==
  /\ pc = "read" /\ wire = <<>>
  /\ now' = elapsed
  /\ Return("bytes")
  /\ UNCHANGED <<ibuf, out, callVars, lastChar, global, received, firstAt, lastAt,
                 elapsed, streamVars>>

\* End of file: select() says readable, read() returns 0.
ReadNothing ==
  /\ pc = "read" /\ wire = <<>>
  /\ now' = elapsed
  /\ UNCHANGED <<out, global>>
  /\ Continue
  /\ UNCHANGED <<ibuf, callVars, lastChar, received, firstAt, lastAt, elapsed, streamVars>>

ReadFails ==
  /\ pc = "read" /\ ReadErrors
  /\ Return("unix_error")
  /\ UNCHANGED <<ibuf, out, callVars, timeVars, elapsed, streamVars>>

\* Time passes in select(), until its timeout, and in a read that brings nothing,
\* by one tick at most.
Tick ==
  /\ \/ pc = "wait" /\ ~Readable /\ elapsed < Deadline
     \/ pc = "read" /\ wire = <<>> /\ elapsed = now
  /\ elapsed' = elapsed + 1
  /\ UNCHANGED <<pc, ibuf, out, callVars, timeVars, result, streamVars>>

-----------------------------------------------------------------------------
Driver == WaitRefused \/ WaitReadTrue \/ WaitReadFalse \/ ReadBytes \/ ReadNothing \/ ReadFails

Client ==
  \/ \E n \in Sizes, p \in Timeouts, f \in Timeouts, i \in InterBytes : ReadRaw(n, p, f, i)
  \/ ReadRawClosed \/ LeaveInBuffer \/ Close

Next == DeviceSend \/ DeviceClose \/ Client \/ Driver \/ WaitInterrupted \/ Tick

Spec == Init /\ [][Next]_vars
\* The calling thread goes on, and time with it: a loop of empty reads, in which a
\* tick is possible again and again, does not stay within one instant for ever.
\* The peer and the client need do nothing, and no signal need come.
LiveSpec == Spec /\ WF_vars(Driver) /\ SF_vars(Tick)

-----------------------------------------------------------------------------
\* readRaw hands out the internal buffer first and then the descriptor's bytes:
\* returned, buffered and waiting bytes are one gapless run of the device's output.
BytesInOrder ==
  LET all == out \o ibuf \o wire
  IN \A i \in 1 .. Len(all) : all[i] = sent - Len(all) + i

\* A call that comes back short, and was not interrupted by a signal, has waited long
\* enough: for a first byte, since the last byte, or since the first one.
ShortMeansLate ==
  ~interrupted /\ result = "bytes" /\ Len(out) < size =>
    \/ firstAt = -1 /\ elapsed >= first
    \/ lastAt # -1 /\ elapsed >= lastAt + inter
    \/ firstAt # -1 /\ elapsed >= firstAt + packet

\* The longest a call can last, one tick for a loop of empty reads aside, is the
\* wait for the first byte and then packet_timeout.
ReturnsInTime == elapsed <= first + packet + 1

\* Every call returns, also when the peer is gone and select() never blocks.
CallsReturn == (pc # "idle") ~> (pc = "idle")

-----------------------------------------------------------------------------
(* What texts of the repository say and the code does not keep: TLC refutes each
   with the constants that the README gives. *)

\* Driver.hpp:442-443: "packet_timeout the overall timeout. The method will return
\* at most after that much time has elapsed".
PacketTimeoutIsOverall == elapsed <= packet + 1

\* Driver.hpp:449: "This never throws".
NeverThrows == result \notin {"unix_error", "runtime_error"}
=============================================================================
