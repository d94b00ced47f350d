----------------------------- MODULE DriverRead -----------------------------
(***************************************************************************)
(* The packet-reading half of iodrivers_base::Driver over an FDStream:     *)
(* readPacket and its helpers readPacketInternal, doPacketExtraction,      *)
(* findPacket and extractPacketFromInternalBuffer, with hasPacket, clear,  *)
(* close, setMainStream, setExtractLastPacket and resetStatus.             *)
(*                                                                         *)
(* The driver is single-threaded, so a call is a run of steps (pc) that    *)
(* interleave with the device at the other end of the descriptor and with  *)
(* the passing of time.  Time is counted from the start of the current     *)
(* readPacket call (`elapsed'), which is all the code ever compares.       *)
(*                                                                         *)
(* findPacket recurses on the rest of the buffer; here each level is one   *)
(* FindPacket step, and `find' is what the levels so far have established. *)
(* Bytes are numbered by their place in readLog, what a listener attached  *)
(* to the driver (IOListener::readData) has been given.                    *)
(***************************************************************************)
EXTENDS Integers, Sequences

CONSTANTS
  Byte,               \* the byte values the device sends
  MAX,                \* MAX_PACKET_SIZE, the size of internal_buffer
  ExtractPacket(_),   \* the subclass' extractPacket on a non-empty buffer
  Timeouts,           \* packet and first-byte timeouts a client passes
  Modes,              \* values of m_extract_last the client uses
  UserOps,            \* calls the client makes besides readPacket
  HasEof,             \* FDStream::m_has_eof
  Signals,            \* may select() be interrupted by a signal?
  ReadErrors,         \* may ::read fail with something else than EAGAIN?
  MaxInput,           \* bound: bytes the device sends
  MaxCounted          \* bound: bytes counted when the client extracts the last packet

ASSUME SizeAssumption == MAX \in Nat \ {0} /\ MaxInput \in Nat /\ MaxCounted \in Nat

ASSUME ChoiceAssumption ==
  /\ Timeouts \subseteq Nat
  /\ Modes \subseteq BOOLEAN
  /\ {HasEof, Signals, ReadErrors} \subseteq BOOLEAN

\* What Driver.hpp asks of extractPacket: a count of bytes to drop (negative),
\* 0, or a packet size.  A size beyond the buffer is checked for by findPacket;
\* dropping more than the buffer holds is not, and is outside the contract.
ASSUME ExtractAssumption ==
  \A n \in 1..MAX : \A b \in [1..n -> Byte] :
     ExtractPacket(b) \in Int /\ ExtractPacket(b) >= -n

VARIABLES
  pc,           \* "idle", or where the current call stands
  cont,         \* which caller findPacket returns to
  ibuf,         \* internal_buffer, its first internal_buffer_size bytes
  extractLast,  \* m_extract_last
  good, bad,    \* m_stats.good_rx, m_stats.bad_rx
  find,         \* findPacket so far: bytes examined, packet start and size
  out,          \* bytes of the packet copied to the caller's buffer
  received,     \* received_something of readPacketInternal
  elapsed,      \* time since start_time of readPacket
  pt, first,    \* packet_timeout and min(packet_timeout, first_byte_timeout)
  ttype,        \* timeout_type
  result,       \* what the last call returned or threw
  valid,        \* isValid(): is there a main stream?
  eof,          \* FDStream::m_eof
  wire,         \* bytes the kernel holds for the descriptor
  peerClosed,   \* the other end is closed
  readLog,      \* observer: every byte read() returned (BufferListener)
  callBase,     \* observer: Len(readLog) when the current call started
  forgotten     \* observer: consumed bytes the counters do not speak for

driverVars == <<pc, cont, ibuf, extractLast, good, bad, find, out, received>>
callVars   == <<elapsed, pt, first, ttype, result>>
streamVars == <<valid, eof, wire, peerClosed>>
ghostVars  == <<readLog, callBase, forgotten>>
vars == <<driverVars, callVars, streamVars, ghostVars>>

Min2(a, b) == IF a < b THEN a ELSE b
DropFirst(s, n) == SubSeq(s, n + 1, Len(s))
Consumed == Len(readLog) - Len(ibuf)

NoFind == [at |-> 0, start |-> 0, size |-> 0]

Outcomes == {"none", "packet", "FIRST_BYTE", "PACKET", "length_error",
             "unix_error", "true", "false"}
Conts == {"entry", "loop", "drain", "has"}

TypeOK ==
  /\ pc \in {"idle", "scan", "pull", "read", "decide", "wait"}
  /\ cont \in Conts
  /\ ibuf \in Seq(Byte) /\ Len(ibuf) <= MAX
  /\ extractLast \in BOOLEAN
  /\ good \in Nat /\ bad \in Nat
  /\ find \in [at : Nat, start : Nat, size : Nat]
  /\ out \in Seq(Byte)
  /\ received \in BOOLEAN
  /\ elapsed \in Nat /\ pt \in Nat /\ first \in Nat
  /\ ttype \in {"FIRST_BYTE", "PACKET"}
  /\ result \in Outcomes
  /\ valid \in BOOLEAN /\ eof \in BOOLEAN /\ peerClosed \in BOOLEAN
  /\ wire \in Seq(Byte)
  /\ readLog \in Seq(Byte)
  /\ callBase \in Nat /\ forgotten \in Int

Init ==
  /\ pc = "idle" /\ cont = "entry" /\ result = "none"
  /\ ibuf = <<>> /\ out = <<>> /\ find = NoFind /\ received = FALSE
  /\ extractLast \in Modes
  /\ good = 0 /\ bad = 0
  /\ elapsed = 0 /\ pt = 0 /\ first = 0 /\ ttype = "FIRST_BYTE"
  /\ valid = TRUE /\ eof = FALSE /\ wire = <<>> /\ peerClosed = FALSE
  /\ readLog = <<>> /\ callBase = 0 /\ forgotten = 0

-----------------------------------------------------------------------------
(* The environment: the device at the other end, and time. *)

DeviceSend(b) ==
  /\ valid /\ ~peerClosed
  /\ Len(readLog) + Len(wire) < MaxInput
  /\ wire' = Append(wire, b)
  /\ UNCHANGED <<driverVars, callVars, valid, eof, peerClosed, ghostVars>>

DeviceClose ==
  /\ valid /\ ~peerClosed
  /\ peerClosed' = TRUE
  /\ UNCHANGED <<driverVars, callVars, valid, eof, wire, ghostVars>>

\* Past pt every deadline of the call has passed, so counting stops there.
Tick ==
  /\ pc # "idle" /\ elapsed <= pt
  /\ elapsed' = elapsed + 1
  /\ UNCHANGED <<driverVars, pt, first, ttype, result, streamVars, ghostVars>>

-----------------------------------------------------------------------------
(* Steps shared by the calls. *)

Return(r) == pc' = "idle" /\ result' = r

StartFind(c) ==
  /\ pc' = "scan" /\ cont' = c /\ find' = NoFind

\* Fault: readPacketInternal goes straight to read().
EnterReadInternalSkippingBuffer == pc' = "read" /\ UNCHANGED <<cont, find>>

\* readPacketInternal up to its first read: what is already buffered is
\* looked at first.
EnterReadInternal ==
  IF ibuf = <<>>
  THEN pc' = "read" /\ UNCHANGED <<cont, find>>
  ELSE StartFind("entry")

\* The level of findPacket that starts `find.at' bytes into the buffer.
Level == DropFirst(ibuf, find.at)

\* A packet larger than the buffer it was found in.
FindTooLong ==
  /\ pc = "scan" /\ ExtractPacket(Level) > Len(Level)
  /\ Return("length_error") /\ find' = NoFind
  /\ UNCHANGED <<cont, ibuf, extractLast, good, bad, out, received,
                 elapsed, pt, first, ttype, streamVars, ghostVars>>

\* Fault: the start of a packet is dropped like garbage.
FindIncompleteDropped ==
  /\ pc = "scan" /\ ExtractPacket(Level) = 0
  /\ find' = [find EXCEPT !.start = Len(ibuf)]
  /\ pc' = "pull"
  /\ UNCHANGED <<cont, ibuf, extractLast, good, bad, out, received,
                 callVars, streamVars, ghostVars>>

FindIncomplete ==
  /\ pc = "scan" /\ ExtractPacket(Level) = 0
  /\ pc' = "pull"
  /\ UNCHANGED <<cont, ibuf, extractLast, good, bad, find, out, received,
                 callVars, streamVars, ghostVars>>

\* Faults: the returned position always, or never, moves past the garbage, or
\* the garbage is counted here in both modes.
FindGarbageVariant(start, counted) ==
  /\ pc = "scan" /\ ExtractPacket(Level) < 0
  /\ LET at == find.at - ExtractPacket(Level)
     IN /\ find' = [find EXCEPT !.at = at, !.start = IF start THEN at ELSE @]
        /\ bad' = IF counted THEN bad + (at - find.at) ELSE bad
        /\ pc' = IF at < Len(ibuf) THEN "scan" ELSE "pull"
  /\ UNCHANGED <<cont, ibuf, extractLast, good, out, received,
                 callVars, streamVars, ghostVars>>
FindGarbageMovesStart == FindGarbageVariant(TRUE, extractLast)
FindGarbageKeepsStart == FindGarbageVariant(FALSE, extractLast)
FindGarbageAlwaysCounted == FindGarbageVariant(TRUE, TRUE)

\* A negative result.  Extracting the last packet, only the outermost level's
\* own skip can end up in the returned position.
FindGarbage ==
  /\ pc = "scan" /\ ExtractPacket(Level) < 0
  /\ LET skip == -ExtractPacket(Level)
         at == find.at + skip
     IN /\ find' = [find EXCEPT !.at = at,
                      !.start = IF extractLast /\ find.at > 0 THEN @ ELSE at]
        /\ bad' = IF extractLast THEN bad + skip ELSE bad
        /\ pc' = IF at < Len(ibuf) THEN "scan" ELSE "pull"
  /\ UNCHANGED <<cont, ibuf, extractLast, good, out, received,
                 callVars, streamVars, ghostVars>>

\* Faults: the last packet is looked for no further than the first one, or the
\* packets passed over on the way are not counted.
FindCompleteVariant(goOn, counted) ==
  /\ pc = "scan" /\ ExtractPacket(Level) \in 1..Len(Level)
  /\ LET size == ExtractPacket(Level)
         at == find.at + size
     IN /\ find' = [at |-> at, start |-> find.at, size |-> size]
        /\ good' = IF counted THEN good + size ELSE good
        /\ pc' = IF goOn /\ at < Len(ibuf) THEN "scan" ELSE "pull"
  /\ UNCHANGED <<cont, ibuf, extractLast, bad, out, received,
                 callVars, streamVars, ghostVars>>
FindCompleteStopsAtFirst == FindCompleteVariant(FALSE, extractLast)
FindCompleteUncounted == FindCompleteVariant(extractLast, FALSE)

FindComplete ==
  /\ pc = "scan" /\ ExtractPacket(Level) \in 1..Len(Level)
  /\ LET size == ExtractPacket(Level)
         at == find.at + size
     IN /\ find' = [at |-> at, start |-> find.at, size |-> size]
        /\ good' = IF extractLast THEN good + size ELSE good
        /\ pc' = IF extractLast /\ at < Len(ibuf) THEN "scan" ELSE "pull"
  /\ UNCHANGED <<cont, ibuf, extractLast, bad, out, received,
                 callVars, streamVars, ghostVars>>

FindPacket == FindTooLong \/ FindIncomplete \/ FindGarbage \/ FindComplete

\* Faults: memmove keeps the wrong end of the buffer, or memcpy ignores the skip.
PullBytesVariant(kept, from) ==
  /\ ibuf' = kept
  /\ out' = IF find.size > 0 THEN SubSeq(ibuf, from + 1, from + find.size) ELSE out
  /\ bad' = IF extractLast THEN bad ELSE bad + find.start
  /\ good' = IF extractLast THEN good ELSE good + find.size
  /\ UNCHANGED <<extractLast, received, elapsed, pt, first, ttype,
                 streamVars, ghostVars>>
PullBytesKeepingFront ==
  PullBytesVariant(SubSeq(ibuf, 1, Len(ibuf) - find.start - find.size), find.start)
PullBytesCopyingFront ==
  PullBytesVariant(DropFirst(ibuf, find.start + find.size), 0)

\* doPacketExtraction once findPacket has returned, with pullBytesFromInternal.
PullBytes ==
  /\ ibuf' = DropFirst(ibuf, find.start + find.size)
  /\ out' = IF find.size > 0
            THEN SubSeq(ibuf, find.start + 1, find.start + find.size) ELSE out
  /\ bad' = IF extractLast THEN bad ELSE bad + find.start
  /\ good' = IF extractLast THEN good ELSE good + find.size
  /\ UNCHANGED <<extractLast, received, elapsed, pt, first, ttype,
                 streamVars, ghostVars>>

GotFirst == find.size > 0 /\ ~extractLast

\* Called by readPacketInternal before any read.
ExtractOnEntry ==
  /\ pc = "pull" /\ cont = "entry"
  /\ PullBytes
  /\ find' = NoFind /\ UNCHANGED cont
  /\ \/ GotFirst /\ Return("packet")
     \/ ~GotFirst /\ pc' = "read" /\ UNCHANGED result

\* Called by readPacketInternal on what a read has just brought.
ExtractAfterRead ==
  /\ pc = "pull" /\ cont = "loop"
  /\ PullBytes
  /\ find' = NoFind /\ UNCHANGED cont
  /\ \/ GotFirst /\ Return("packet")
     \/ ~GotFirst /\ Len(ibuf') = MAX /\ Return("length_error")
     \/ ~GotFirst /\ Len(ibuf') < MAX /\ pc' = "read" /\ UNCHANGED result

\* Called by extractPacketFromInternalBuffer, for a driver without a stream.
ExtractWithoutStream ==
  /\ pc = "pull" /\ cont = "drain"
  /\ PullBytes
  /\ IF find.size > 0 /\ extractLast /\ ibuf' # <<>>
     THEN StartFind("drain") /\ UNCHANGED result
     ELSE /\ Return(IF out' # <<>> THEN "packet" ELSE "PACKET")
          /\ find' = NoFind /\ UNCHANGED cont

HasPacketReturns ==
  /\ pc = "pull" /\ cont = "has"
  /\ Return(IF find.size > 0 THEN "true" ELSE "false") /\ find' = NoFind
  /\ UNCHANGED <<cont, ibuf, extractLast, good, bad, out, received,
                 elapsed, pt, first, ttype, streamVars, ghostVars>>

-----------------------------------------------------------------------------
(* readPacketInternal's read, and the waiting loop of readPacket. *)

\* Fault: read() is given the whole buffer's size.
RoomOfEmptyBuffer == MAX

Room == MAX - Len(ibuf)

ReadBytes ==
  /\ pc = "read" /\ Room > 0 /\ wire # <<>>
  /\ LET n == Min2(Room, Len(wire))
         c == SubSeq(wire, 1, n)
     IN /\ ibuf' = ibuf \o c
        /\ readLog' = readLog \o c
        /\ wire' = DropFirst(wire, n)
  /\ received' = TRUE
  /\ StartFind("loop")
  /\ UNCHANGED <<extractLast, good, bad, out, callVars, valid, eof, peerClosed,
                 callBase, forgotten>>

\* read() returned 0: EAGAIN, or a return value of 0 that FDStream takes for an
\* end of file.  That is also what read() returns when no room is left.
ReadNothing ==
  /\ pc = "read" /\ (Room = 0 \/ wire = <<>>)
  /\ eof' = IF Room = 0 \/ peerClosed THEN HasEof ELSE eof
  /\ pc' = "decide"
  /\ UNCHANGED <<cont, ibuf, extractLast, good, bad, find, out, received,
                 callVars, valid, wire, peerClosed, ghostVars>>

ReadFails ==
  /\ pc = "read" /\ ReadErrors
  /\ Return("unix_error")
  /\ UNCHANGED <<cont, ibuf, extractLast, good, bad, find, out, received,
                 elapsed, pt, first, ttype, streamVars, ghostVars>>

NextType == IF ttype = "FIRST_BYTE" /\ received THEN "PACKET" ELSE ttype
\* Fault: the first byte does not move the deadline.
DeadlineNotExtended(t) == first

DeadlineOf(t) == IF t = "FIRST_BYTE" THEN first ELSE pt

\* Fault: only waitRead is trusted to notice that the time is over.
DecideWithoutDeadline ==
  /\ pc = "decide"
  /\ \/ out # <<>> /\ Return("packet") /\ UNCHANGED ttype
     \/ out = <<>> /\ pt = 0 /\ Return("FIRST_BYTE") /\ UNCHANGED ttype
     \/ out = <<>> /\ pt > 0 /\ ttype' = NextType /\ pc' = "wait" /\ UNCHANGED result
  /\ UNCHANGED <<cont, ibuf, extractLast, good, bad, find, out, received,
                 elapsed, pt, first, streamVars, ghostVars>>

\* readPacket after readPacketInternal has found nothing more to read.
Decide ==
  /\ pc = "decide"
  /\ \/ out # <<>> /\ Return("packet") /\ UNCHANGED ttype
     \/ out = <<>> /\ pt = 0 /\ Return("FIRST_BYTE") /\ UNCHANGED ttype
     \/ /\ out = <<>> /\ pt > 0
        /\ ttype' = NextType
        /\ IF elapsed > DeadlineOf(NextType)
           THEN Return(NextType)
           ELSE pc' = "wait" /\ UNCHANGED result
  /\ UNCHANGED <<cont, ibuf, extractLast, good, bad, find, out, received,
                 elapsed, pt, first, streamVars, ghostVars>>

Readable == wire # <<>> \/ peerClosed

WaitReadTrue ==
  /\ pc = "wait" /\ Readable
  /\ received' = FALSE
  /\ EnterReadInternal
  /\ UNCHANGED <<ibuf, extractLast, good, bad, out, callVars, streamVars, ghostVars>>

\* FDStream::waitRead returns false when select() times out and when a signal
\* interrupts it.
WaitReadsNothing ==
  /\ Return(ttype)
  /\ UNCHANGED <<cont, ibuf, extractLast, good, bad, find, out, received,
                 elapsed, pt, first, ttype, streamVars, ghostVars>>
WaitReadFalse ==
  /\ pc = "wait" /\ ~Readable /\ elapsed >= DeadlineOf(ttype)
  /\ WaitReadsNothing
WaitInterrupted ==
  /\ pc = "wait" /\ Signals
  /\ WaitReadsNothing

-----------------------------------------------------------------------------
(* The client's calls. *)

\* The deprecated overload turns a first-byte timeout of -1 into the packet
\* timeout; the others take the smaller of the two.
FirstByteTimeout(p, f) == IF f = -1 THEN p ELSE Min2(p, f)

\* Extracting the last packet, each scan counts again what it does not pull, so
\* the counters are bounded here.
Counting == extractLast => good + bad < MaxCounted

ReadPacket(p, f) ==
  /\ pc = "idle" /\ Counting
  /\ elapsed' = 0 /\ pt' = p /\ first' = FirstByteTimeout(p, f)
  /\ ttype' = "FIRST_BYTE" /\ out' = <<>> /\ received' = FALSE
  /\ callBase' = Len(readLog)
  /\ IF valid
     THEN EnterReadInternal /\ result' = "none"
     ELSE IF ibuf = <<>>
          THEN Return("PACKET") /\ UNCHANGED <<cont, find>>
          ELSE StartFind("drain") /\ result' = "none"
  /\ UNCHANGED <<ibuf, extractLast, good, bad, streamVars, readLog, forgotten>>

\* readPacket with a buffer smaller than MAX_PACKET_SIZE.
ReadPacketSmallBuffer ==
  /\ pc = "idle"
  /\ Return("length_error")
  /\ UNCHANGED <<cont, ibuf, extractLast, good, bad, find, out, received,
                 elapsed, pt, first, ttype, streamVars, ghostVars>>

HasPacket ==
  /\ pc = "idle" /\ "hasPacket" \in UserOps
  /\ Counting
  /\ IF ibuf = <<>>
     THEN Return("false") /\ UNCHANGED <<cont, find>>
     ELSE StartFind("has") /\ result' = "none"
  /\ out' = <<>>
  /\ UNCHANGED <<ibuf, extractLast, good, bad, received, elapsed, pt, first,
                 ttype, streamVars, ghostVars>>

\* FDStream::clear does nothing, so only the internal buffer is emptied.
Clear ==
  /\ pc = "idle" /\ "clear" \in UserOps
  /\ ibuf' = <<>>
  /\ forgotten' = forgotten + Len(ibuf)
  /\ result' = "none"
  /\ UNCHANGED <<pc, cont, extractLast, good, bad, find, out, received, elapsed,
                 pt, first, ttype, streamVars, readLog, callBase>>

\* close() deletes the stream, setMainStream replaces it; neither touches the
\* internal buffer.
SetStream(s) ==
  /\ pc = "idle" /\ "stream" \in UserOps
  /\ valid' = s
  /\ eof' = FALSE /\ wire' = <<>> /\ peerClosed' = FALSE
  /\ result' = "none"
  /\ UNCHANGED <<driverVars, elapsed, pt, first, ttype, ghostVars>>

SetExtractLastPacket(flag) ==
  /\ pc = "idle" /\ flag # extractLast
  /\ extractLast' = flag
  /\ result' = "none"
  /\ UNCHANGED <<pc, cont, ibuf, good, bad, find, out, received, elapsed, pt,
                 first, ttype, streamVars, ghostVars>>

ResetStatus ==
  /\ pc = "idle" /\ "reset" \in UserOps
  /\ good' = 0 /\ bad' = 0
  /\ forgotten' = Consumed
  /\ result' = "none"
  /\ UNCHANGED <<pc, cont, ibuf, extractLast, find, out, received, elapsed, pt,
                 first, ttype, streamVars, readLog, callBase>>

-----------------------------------------------------------------------------
Device == (\E b \in Byte : DeviceSend(b)) \/ DeviceClose

Client ==
  \/ \E p \in Timeouts, f \in Timeouts \cup {-1} : ReadPacket(p, f)
  \/ ReadPacketSmallBuffer
  \/ HasPacket
  \/ Clear
  \/ \E s \in BOOLEAN : SetStream(s)
  \/ \E flag \in Modes : SetExtractLastPacket(flag)
  \/ ResetStatus

Driver ==
  \/ FindPacket
  \/ ExtractOnEntry \/ ExtractAfterRead \/ ExtractWithoutStream \/ HasPacketReturns
  \/ ReadBytes \/ ReadNothing \/ ReadFails
  \/ Decide \/ WaitReadTrue \/ WaitReadFalse

Next == Device \/ Tick \/ Client \/ Driver \/ WaitInterrupted

Spec == Init /\ [][Next]_vars

\* The thread in readPacket keeps running and time keeps passing; nothing is
\* promised of the device or of the client, and no signal need come.
LiveSpec == Spec /\ WF_vars(Driver) /\ WF_vars(Tick)
-----------------------------------------------------------------------------
(* What the read path promises. *)

\* The internal buffer is the tail of what was read: no byte is lost, repeated
\* or reordered between read() and extractPacket, whatever the sequence of
\* reads, pulls (memmove) and failed calls.
BufferIsUnconsumedTail ==
  /\ Len(ibuf) <= Len(readLog)
  /\ ibuf = DropFirst(readLog, Consumed)

\* getStatus: when packets are extracted first to last, every byte that has left
\* the internal buffer (other than by clear() or before resetStatus()) is
\* counted exactly once, as good_rx or as bad_rx.
EveryByteCountedOnce ==
  TRUE \notin Modes => good + bad + forgotten = Consumed

\* getStatus in either mode, and across switches between them: no consumed byte
\* escapes the counters.
NoByteUncounted == Consumed <= good + bad + forgotten

\* readPacket gives up only once its time is over, and the TimeoutError type
\* tells which: FIRST_BYTE when no byte came in during the call, PACKET when
\* some did (a call with a null packet_timeout excepted, which never waits).
TimeoutsAreLate ==
  ~Signals /\ valid /\ pt > 0 =>
    /\ result = "FIRST_BYTE" => elapsed >= first /\ Len(readLog) = callBase
    /\ result = "PACKET" => elapsed >= pt /\ Len(readLog) > callBase

\* Once the device has stopped sending, a call of the read path ends, be the internal
\* buffer full of an incomplete packet or the peer gone (both make select() return at
\* once for ever). A device that never stops may keep it: while a read brings bytes
\* and these make no packet, the loop of readPacketInternal does not look at the time.
DeviceStops == <>[][\A b \in Byte : ~DeviceSend(b)]_vars
CallsReturn == DeviceStops => ((pc # "idle") ~> (pc = "idle"))

\* The refinement: everything read is the log, what has left the internal buffer
\* is dealt with, and the caller's buffer holds the packet.
Stream == INSTANCE PacketStream WITH log <- readLog, cut <- Consumed, packet <- out

\* Whatever the chunks the bytes arrive in, the client gets in-order, contiguous,
\* non-overlapping packets of the byte stream, each accepted by extractPacket.
DeliversPacketStream == Stream!Spec
=============================================================================
