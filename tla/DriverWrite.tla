---------------------------- MODULE DriverWrite -----------------------------
(***************************************************************************)
(* Driver::writePacket over an FDStream, with the Timeout it measures its  *)
(* time by.  The kernel takes what it has room for, may refuse a write     *)
(* although select() finds the descriptor writable (ENOBUFS), and makes    *)
(* room as the peer reads.  The client may send again a packet that timed  *)
(* out, on another stream too.  A byte is its packet's number and its      *)
(* place in the packet.  Time is in microseconds; the code computes with   *)
(* milliseconds, which it takes from them by dividing.                     *)
(***************************************************************************)
EXTENDS Integers, Sequences, SequencesExt

CONSTANTS
  Sizes,        \* packet sizes
  Timeouts,     \* write timeouts a client asks for, in microseconds
  Capacity,     \* bytes the kernel holds for the peer
  NoBufs,       \* may write() fail with ENOBUFS?
  WriteErrors,  \* may write() fail otherwise?
  Signals,      \* may select() be interrupted?
  Thousand,     \* the 1000 of the code: microseconds to a millisecond, and these to a second
  IntLimit,     \* 2^31: an int is at least -IntLimit and less than IntLimit
  MaxPackets,   \* bound: packets sent
  MaxCalls      \* bound: calls of writePacket

ASSUME WriteAssumption ==
  /\ Sizes \subseteq Nat /\ Timeouts \subseteq Nat
  /\ Capacity \in Nat \ {0} /\ Thousand \in Nat \ {0} /\ IntLimit \in Nat \ {0}
  /\ MaxPackets \in Nat \ {0} /\ MaxCalls \in Nat
  /\ {NoBufs, WriteErrors, Signals} \subseteq BOOLEAN

VARIABLES
  pc,             \* "idle", "write", "left" (before timeLeft) or "wait" (in waitWrite)
  valid,          \* isValid(): is there a stream?
  size, written,  \* buffer_size; the local variable written
  timeout,        \* the Timeout's, in milliseconds
  start,          \* start_time.tv_usec
  elapsed, now,   \* time since the Timeout was made; when the thread last looked
  waited,         \* the time select() is given, in microseconds
  tx,             \* m_stats.tx
  result,         \* what the last call returned or threw
  held,           \* bytes the kernel holds for the peer
  packet,         \* number of the packet the client sends
  calls,          \* calls made
  listening, buffered,  \* is the BufferListener in m_listeners; its m_writeBuffer
  accepted,       \* observer: the bytes the kernel has taken, in order
  flushed,        \* observer: the bytes flushWrite() has returned, in order
  overheard,      \* observer: the bytes taken while the listener was there, in order
  partial,        \* observer: bytes taken from packets that were not completed
  interrupted     \* observer: has a signal ended the last call?

vars == <<pc, valid, size, written, timeout, start, elapsed, now, waited, tx, result, held,
          packet, calls, listening, buffered, accepted, flushed, overheard, partial,
          interrupted>>
\* What changes with the call, with what is written, and with neither.
argVars == <<valid, size, timeout, start, packet, calls>>
outVars == <<tx, held, listening, buffered, accepted, flushed, overheard>>
clockVars == <<elapsed, now, waited>>

Min2(a, b) == IF a < b THEN a ELSE b
Byte == Nat \X Nat
\* The bytes of the packet from its place i on, n of them.
Bytes(p, i, n) == [j \in 1..n |-> <<p, i + j - 1>>]

MicroPerSecond == Thousand * Thousand

TypeOK ==
  /\ pc \in {"idle", "write", "left", "wait"} /\ valid \in BOOLEAN
  /\ size \in Nat /\ written \in 0..size
  /\ timeout \in Nat /\ start \in 0..(MicroPerSecond - 1)
  /\ elapsed \in Nat /\ now \in 0..elapsed /\ waited \in Int
  /\ tx \in Nat
  /\ result \in {"none", "true", "PACKET", "NONE", "unix_error", "runtime_error"}
  /\ held \in 0..Capacity /\ packet \in 1..MaxPackets /\ calls \in 0..MaxCalls
  /\ buffered \in Seq(Byte) /\ accepted \in Seq(Byte)
  /\ flushed \in Seq(Byte) /\ overheard \in Seq(Byte)
  /\ listening \in BOOLEAN /\ partial \in Nat /\ interrupted \in BOOLEAN

Init ==
  /\ pc = "idle" /\ valid = TRUE /\ size = 0 /\ written = 0
  /\ timeout = 0 /\ start = 0 /\ elapsed = 0 /\ now = 0
  /\ waited = 0 /\ tx = 0 /\ result = "none" /\ held = 0 /\ packet = 1 /\ calls = 0
  /\ listening = FALSE /\ buffered = <<>> /\ accepted = <<>> /\ flushed = <<>>
  /\ overheard = <<>> /\ partial = 0 /\ interrupted = FALSE

-----------------------------------------------------------------------------
\* The peer reads.
PeerReads ==
  /\ held > 0
  /\ held' = held - 1
  /\ UNCHANGED <<pc, argVars, written, clockVars, tx, result, listening, buffered, accepted,
                 flushed, overheard, partial, interrupted>>

\* Between the calls, the listener is plugged in or out, or emptied.
ClientOfListener ==
  /\ pc = "idle"
  /\ UNCHANGED <<pc, argVars, written, clockVars, tx, held, result, accepted, overheard,
                 partial, interrupted>>

AddListener ==
  listening' = TRUE /\ UNCHANGED <<buffered, flushed>> /\ ClientOfListener
RemoveListener ==
  listening' = FALSE /\ UNCHANGED <<buffered, flushed>> /\ ClientOfListener

FlushWrite ==
  /\ flushed' = flushed \o buffered /\ buffered' = <<>>
  /\ UNCHANGED listening /\ ClientOfListener

\* close() and setMainStream: the driver has no stream, or another one.
SetStream(s) ==
  /\ pc = "idle"
  /\ valid' = s /\ held' = 0
  /\ UNCHANGED <<pc, size, timeout, start, packet, calls, written, clockVars, tx, result,
                 listening, buffered, accepted, flushed, overheard, partial, interrupted>>

\* A new packet, or the one that has just failed once more.
ChoosePacket ==
  \/ result = "none" /\ UNCHANGED packet
  \/ result # "none" /\ packet < MaxPackets /\ packet' = packet + 1
  \/ result \notin {"none", "true"} /\ UNCHANGED packet

\* The timeout, a base::Time, is cut down to milliseconds.
WritePacket(n, t) ==
  /\ pc = "idle" /\ calls < MaxCalls /\ valid
  /\ ChoosePacket
  /\ pc' = "write" /\ calls' = calls + 1 /\ interrupted' = FALSE /\ result' = "none"
  /\ size' = n /\ written' = 0 /\ timeout' = t \div Thousand
  /\ start' \in 0..(MicroPerSecond - 1) /\ elapsed' = 0 /\ now' = 0
  /\ UNCHANGED <<valid, waited, outVars, partial>>

WritePacketWithoutStream ==
  /\ pc = "idle" /\ ~valid
  /\ result' = "runtime_error"
  /\ UNCHANGED <<pc, argVars, written, clockVars, outVars, partial, interrupted>>

Throw(r) == pc' = "idle" /\ result' = r /\ partial' = partial + written'

\* Integer division in C++ cuts off towards zero.
Quotient(x, n) == IF x >= 0 THEN x \div n ELSE -((-x) \div n)

\* Milliseconds since start_time, from the clock's seconds and microseconds: one too
\* many, of the part of one that has begun, while the latter are below start_time's.
Millis ==
  ((start + elapsed) \div MicroPerSecond) * Thousand
    + Quotient(((start + elapsed) % MicroPerSecond) - start, Thousand)

\* Timeout::elapsed and Timeout::timeLeft.
Elapsed == timeout < Millis
TimeLeft == IF timeout < Millis THEN 0 ELSE timeout - Millis

\* Fault: milliseconds are given to select() for microseconds.
MicroLeftUnconverted == TimeLeft

\* remaining_timeout * 1000, an int.
MicroLeft == ((TimeLeft * Thousand + IntLimit) % (2 * IntLimit)) - IntLimit

\* Fault: tx counts every write.
AfterWriteCounting(c) ==
  /\ tx' = tx + c
  /\ \/ written' = size /\ pc' = "idle" /\ result' = "true" /\ UNCHANGED partial
     \/ written' # size /\ Elapsed /\ Throw("PACKET")
     \/ written' # size /\ ~Elapsed /\ pc' = "left" /\ UNCHANGED <<result, partial>>
\* Fault: only waitWrite is trusted to notice that the time is over.
AfterWriteWithoutElapsed(c) ==
  \/ /\ written' = size
     /\ tx' = tx + size /\ pc' = "idle" /\ result' = "true" /\ UNCHANGED partial
  \/ written' # size /\ pc' = "left" /\ UNCHANGED <<tx, result, partial>>

\* The loop body from `written += c' to the test of the time.
AfterWrite(c) ==
  \/ /\ written' = size
     /\ tx' = tx + size /\ pc' = "idle" /\ result' = "true" /\ UNCHANGED partial
  \/ written' # size /\ Elapsed /\ Throw("PACKET") /\ UNCHANGED tx
  \/ written' # size /\ ~Elapsed /\ pc' = "left" /\ UNCHANGED <<tx, result, partial>>

\* Faults: the loop starts over at the beginning of the buffer, for write() or
\* for the listeners.
TakenFromStart(c) == Bytes(packet, 1, c)
WriteDataFromStart(c) == buffered \o Bytes(packet, 1, c)

Remaining == size - written
\* What write() is given, and what the listener holds afterwards.
Taken(c) == Bytes(packet, written + 1, c)
WriteData(c) == buffered \o Bytes(packet, written + 1, c)

\* FDStream::write: the kernel takes what fits, or nothing (EAGAIN, ENOBUFS).
Write(c) ==
  /\ pc = "write"
  /\ \/ c = Min2(Remaining, Capacity - held)
     \/ NoBufs /\ c = 0
  /\ accepted' = accepted \o Taken(c)
  /\ IF listening
     THEN buffered' = WriteData(c) /\ overheard' = overheard \o Bytes(packet, written + 1, c)
     ELSE UNCHANGED <<buffered, overheard>>
  /\ held' = held + c
  /\ written' = written + c
  /\ now' = elapsed
  /\ AfterWrite(c)
  /\ UNCHANGED <<argVars, elapsed, waited, listening, flushed, interrupted>>

\* The calls that throw.
ThrowOnly(r) ==
  UNCHANGED written /\ Throw(r) /\ UNCHANGED <<argVars, clockVars, outVars>>

WriteFails ==
  pc = "write" /\ WriteErrors /\ ThrowOnly("unix_error") /\ UNCHANGED interrupted

\* timeLeft looks at the clock again, and select() is given what it says.
StartWait ==
  /\ pc = "left"
  /\ pc' = "wait" /\ waited' = MicroLeft /\ now' = elapsed
  /\ UNCHANGED <<argVars, written, elapsed, outVars, result, partial, interrupted>>

\* select() for writing.
WaitUntil == now + waited

WaitWriteTrue ==
  /\ pc = "wait" /\ waited >= 0 /\ held < Capacity
  /\ pc' = "write" /\ now' = elapsed
  /\ UNCHANGED <<argVars, written, elapsed, waited, outVars, result, partial, interrupted>>

WaitWriteFalse ==
  /\ pc = "wait" /\ waited >= 0
  /\ held = Capacity /\ elapsed >= WaitUntil
  /\ ThrowOnly("NONE") /\ UNCHANGED interrupted

\* FDStream::waitWrite returns false, too, when a signal interrupts select().
WaitInterrupted ==
  pc = "wait" /\ waited >= 0 /\ Signals /\ ThrowOnly("NONE") /\ interrupted' = TRUE

WaitWriteRefused ==
  pc = "wait" /\ waited < 0 /\ ThrowOnly("unix_error") /\ UNCHANGED interrupted

\* Time passes in select() until its timeout, and elsewhere by one tick at most before
\* the code looks again; bound: how long ago the timeout ended is not told apart.
Tick ==
  /\ elapsed < (timeout + 1) * Thousand
  /\ \/ pc = "wait" /\ held = Capacity /\ elapsed < WaitUntil
     \/ pc \in {"write", "left"} /\ elapsed = now
  /\ elapsed' = elapsed + 1
  /\ UNCHANGED <<pc, argVars, written, now, waited, outVars, result, partial, interrupted>>

-----------------------------------------------------------------------------
Driver ==
  \/ \E c \in 0..Capacity : Write(c)
  \/ WriteFails \/ StartWait \/ WaitWriteTrue \/ WaitWriteFalse \/ WaitWriteRefused

Next ==
  \/ \E n \in Sizes, t \in Timeouts : WritePacket(n, t)
  \/ WritePacketWithoutStream \/ \E s \in BOOLEAN : SetStream(s)
  \/ AddListener \/ RemoveListener \/ FlushWrite
  \/ Driver \/ WaitInterrupted \/ PeerReads \/ Tick

Spec == Init /\ [][Next]_vars
\* The calling thread goes on and time with it; the peer need not read, nor a signal come.
LiveSpec == Spec /\ WF_vars(Driver) /\ SF_vars(Tick)

-----------------------------------------------------------------------------
\* writePacket returns true only when the last bytes the kernel took are the
\* packet, whole and in order, over however many short writes it took.
TrueMeansSent ==
  result = "true" =>
    /\ Len(accepted) >= size
    /\ IsSuffix(Bytes(packet, 1, size), accepted)

\* Status.tx counts the bytes of complete packets and of nothing else.
TxCountsWholePackets ==
  pc = "idle" => tx + partial = Len(accepted)

\* What flushWrite() has returned and what m_writeBuffer still holds are the bytes the
\* kernel took while the listener was plugged in, each once and in that order, over short
\* writes, failed calls and flushes between them.
ListenersSeeTheWire == flushed \o buffered = overheard

\* A write that no signal interrupts gives up after its loop only when its timeout, in
\* whole milliseconds, is over, and in waitWrite less than a millisecond before that at
\* most: two cut-off readings of the clock are subtracted, wherever in a second the call
\* began and the clock was read.
WriteTimeoutsAreLate ==
  ~interrupted =>
    /\ result = "PACKET" => elapsed > timeout * Thousand
    /\ result = "NONE" => elapsed > (timeout - 1) * Thousand

\* Every writePacket ends, also when the descriptor is always writable and every
\* write is refused.
CallsReturn == (pc # "idle") ~> (pc = "idle")

-----------------------------------------------------------------------------
(* What texts of the repository say and the code does not keep: TLC refutes each
   with the constants that the README gives. *)

\* Driver.hpp:508-512: "+timeout+ is the timeout in milliseconds ... @throws
\* timeout_error on timeout and unix_error on reading problems".
UnixErrorMeansIoError == result = "unix_error" => WriteErrors

\* Exceptions.hpp:21: a TimeoutError is "raised when a timeout occured".
TimeoutErrorMeansTimeout ==
  ~interrupted /\ result \in {"PACKET", "NONE"} => elapsed >= timeout * Thousand
=============================================================================
