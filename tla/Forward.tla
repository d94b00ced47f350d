------------------------------ MODULE Forward -------------------------------
(***************************************************************************)
(* iodrivers_base::forward: one thread passes what it reads from each of   *)
(* two drivers on to the other, until one of them is at its end of file.   *)
(*                                                                         *)
(* An item is a byte in raw mode and a packet in packet mode; items are    *)
(* numbered in the order the peer of a driver sends them.  readRaw and     *)
(* readPacket appear as what their callers see of them: RawRead and        *)
(* DriverRead have them in full.  `wait' is the time since readRaw or      *)
(* readPacket was entered or the first item came, `seen' that time when    *)
(* the call last looked at the clock, after a read.                        *)
(*                                                                         *)
(* The program iodrivers_base_forwarder calls forward() in raw mode, with  *)
(* new drivers each time it returns.                                       *)
(***************************************************************************)
EXTENDS Integers, Sequences

CONSTANTS
  RawModes,     \* values of raw_mode
  Timeout1, Timeout2,
  BufferSize,   \* buffer_size, in bytes
  Servers,      \* drivers on a Unix server socket without a client as yet
  EofSets,      \* the sets of drivers whose streams may be those that know an end of file
  Errors,       \* may a read, a write or an opening throw a UnixError?
  Signals,      \* may select() be interrupted?
  MaxItems,     \* bound: items each peer sends
  MaxReopens    \* bound: how often the forwarder opens its drivers again

Drivers == {1, 2}
Other(d) == 3 - d

ASSUME ForwardAssumption ==
  /\ RawModes \subseteq BOOLEAN /\ {Errors, Signals} \subseteq BOOLEAN
  /\ Timeout1 \in Nat /\ Timeout2 \in Nat /\ {MaxItems, MaxReopens} \subseteq Nat
  /\ BufferSize \in Nat \ {0} /\ Servers \subseteq Drivers
  /\ EofSets \subseteq SUBSET Drivers /\ \A e \in EofSets : Servers \subseteq e

VARIABLES
  raw,          \* raw_mode
  hasEof,       \* drivers whose stream has m_has_eof: serial lines have not
  pc,           \* "select", "serve", "read", "write", "returned" or "thrown"
  ready,        \* descriptors select() has reported and that are not served as yet
  from,         \* the driver being read
  buffer,       \* what was read from it and is not written yet
  wait, seen,
  eof,          \* per driver, its stream's m_eof
  left,         \* per driver, the packets in internal_buffer
  wire,         \* per driver, the items waiting in its descriptor
  accepted,     \* drivers with a client, if they are servers
  sent, closed, \* the peers: items sent; those that are gone
  out,          \* per driver, the items written to it
  reopens       \* how often the drivers have been opened again

readVars == <<from, buffer, wait, seen>>
peerVars == <<sent, closed>>
driverVars == <<eof, left, wire, accepted>>
runVars == <<raw, hasEof, out, reopens>>
vars == <<pc, ready, readVars, driverVars, peerVars, runVars>>

Min2(a, b) == IF a < b THEN a ELSE b
DropFirst(s, n) == SubSeq(s, n + 1, Len(s))

TypeOK ==
  /\ raw \in BOOLEAN /\ hasEof \subseteq Drivers
  /\ pc \in {"select", "serve", "read", "write", "returned", "thrown"}
  /\ ready \subseteq Drivers /\ from \in Drivers
  /\ buffer \in Seq(Nat) /\ (raw => Len(buffer) <= BufferSize)
  /\ wait \in Nat /\ seen \in Nat /\ eof \in [Drivers -> BOOLEAN] /\ accepted \subseteq Drivers
  /\ left \in [Drivers -> Seq(Nat)] /\ wire \in [Drivers -> Seq(Nat)]
  /\ sent \in [Drivers -> Nat] /\ closed \subseteq Drivers
  /\ out \in [Drivers -> Seq(Nat)] /\ reopens \in 0..MaxReopens

Init ==
  /\ raw \in RawModes /\ hasEof \in EofSets /\ pc = "select" /\ ready = {}
  /\ from = 1 /\ buffer = <<>> /\ wait = 0 /\ seen = 0
  /\ eof = [d \in Drivers |-> FALSE] /\ left = [d \in Drivers |-> <<>>]
  /\ wire = [d \in Drivers |-> <<>>] /\ accepted = Drivers \ Servers
  /\ sent = [d \in Drivers |-> 0] /\ closed = {} /\ out = [d \in Drivers |-> <<>>]
  /\ reopens = 0

-----------------------------------------------------------------------------
\* The peers.  One that writes to a server has connected; it waits in the backlog.
PeerSends(d) ==
  /\ d \notin closed /\ sent[d] < MaxItems
  /\ sent' = [sent EXCEPT ![d] = @ + 1]
  /\ wire' = [wire EXCEPT ![d] = Append(@, sent[d] + 1)]
  /\ UNCHANGED <<pc, ready, readVars, eof, left, accepted, closed, runVars>>

PeerCloses(d) ==
  /\ d \notin closed
  /\ closed' = closed \cup {d}
  /\ UNCHANGED <<pc, ready, readVars, driverVars, sent, runVars>>

\* A stream is readable when it has items or is at its end.  The descriptor that
\* forward() took at its start is, for a server, the listening socket, which
\* select() finds readable until its client has been accepted.
Readable(d) == wire[d] # <<>> \/ d \in closed
SelectReports(d) ==
  IF d \in Servers THEN d \notin accepted /\ Readable(d) ELSE Readable(d)

\* Fault: forward() waits for both ends of file.
AtEndOfBoth == \A d \in Drivers : eof[d]

AtEnd == \E d \in Drivers : eof[d]

\* The head of the while loop and select().
Select ==
  /\ pc = "select" /\ ~AtEnd
  /\ ready' = {d \in Drivers : SelectReports(d)} /\ ready' # {}
  /\ pc' = "serve"
  /\ UNCHANGED <<readVars, driverVars, peerVars, runVars>>

\* On EINTR the sets are as they were before, so that both drivers are read.
SelectInterrupted ==
  /\ pc = "select" /\ ~AtEnd /\ Signals
  /\ ready' = Drivers /\ pc' = "serve"
  /\ UNCHANGED <<readVars, driverVars, peerVars, runVars>>

SelectEnds ==
  /\ pc = "select" /\ AtEnd
  /\ pc' = "returned"
  /\ UNCHANGED <<ready, readVars, driverVars, peerVars, runVars>>

\* Fault: an `else' before the second `if'.
UnservedNone(d) == {}

\* The two `if (FD_ISSET(...))'.
Unserved(d) == ready \ {d}
Serve ==
  /\ pc = "serve"
  /\ \/ ready = {} /\ pc' = "select" /\ UNCHANGED <<ready, readVars>>
     \/ \E d \in ready :
          /\ \A e \in ready : d <= e
          /\ ready' = Unserved(d)
          /\ from' = d /\ buffer' = <<>> /\ wait' = 0 /\ seen' = 0
          /\ pc' = "read"
  /\ UNCHANGED <<driverVars, peerVars, runVars>>

\* forwardData is given timeout1 for both.
ReadTimeout == Timeout1

\* size != 0, or nothing to write.
AfterRead == pc' = IF buffer' # <<>> THEN "write" ELSE "serve"

Room == BufferSize - Len(buffer)
\* What ::read brings: all there is room for, or fewer.
Chunk(n) == SubSeq(wire[from], 1, n)

\* The clock is looked at after the read, and started anew by the first items.
RawRead ==
  /\ pc = "read" /\ raw /\ Len(buffer) < BufferSize /\ seen <= ReadTimeout
  /\ wire[from] # <<>>
  /\ LET n == Min2(Room, Len(wire[from]))
     IN /\ buffer' = buffer \o Chunk(n)
        /\ wire' = [wire EXCEPT ![from] = DropFirst(@, n)]
  /\ wait' = IF buffer = <<>> THEN 0 ELSE wait
  /\ seen' = wait'
  /\ accepted' = accepted \cup {from}
  /\ UNCHANGED <<pc, ready, from, eof, left, peerVars, runVars>>

AtItsEnd ==
  /\ pc = "read" /\ seen <= ReadTimeout
  /\ raw => Len(buffer) < BufferSize
  /\ left[from] = <<>> /\ wire[from] = <<>> /\ from \in closed

\* Fault: what was read ahead of an end of file is dropped with it.
ReadEndDropping ==
  /\ AtItsEnd
  /\ eof' = [eof EXCEPT ![from] = from \in hasEof]
  /\ seen' = wait /\ buffer' = <<>>
  /\ accepted' = accepted \cup {from}
  /\ UNCHANGED <<pc, ready, from, wait, left, wire, peerVars, runVars>>

\* read() returns 0: the stream is marked, if it knows an end of file, and the call
\* goes on to its deadline.
ReadEnd ==
  /\ AtItsEnd
  /\ eof' = [eof EXCEPT ![from] = from \in hasEof]
  /\ seen' = wait
  /\ accepted' = accepted \cup {from}
  /\ UNCHANGED <<pc, ready, from, buffer, wait, left, wire, peerVars, runVars>>

\* waitRead has found nothing till its deadline.
WaitedInVain == ~Readable(from) /\ wait >= ReadTimeout

\* readRaw returns with its buffer full, or when its time is over: after a read, or in
\* waitRead.
RawReturn ==
  /\ pc = "read" /\ raw
  /\ Len(buffer) = BufferSize \/ seen > ReadTimeout \/ WaitedInVain
  /\ UNCHANGED buffer /\ AfterRead
  /\ UNCHANGED <<ready, from, wait, seen, driverVars, peerVars, runVars>>

ReadInterrupted ==
  /\ pc = "read" /\ left[from] = <<>> /\ ~Readable(from) /\ Signals
  /\ UNCHANGED buffer /\ AfterRead
  /\ UNCHANGED <<ready, from, wait, seen, driverVars, peerVars, runVars>>

\* readPacket: the first packet of internal_buffer, and only then the descriptor.
PacketFromBuffer ==
  /\ pc = "read" /\ ~raw /\ left[from] # <<>>
  /\ buffer' = <<Head(left[from])>>
  /\ left' = [left EXCEPT ![from] = Tail(@)]
  /\ AfterRead
  /\ UNCHANGED <<ready, from, wait, seen, eof, wire, accepted, peerVars, runVars>>

PacketFromStream ==
  /\ pc = "read" /\ ~raw /\ left[from] = <<>> /\ wire[from] # <<>> /\ seen <= ReadTimeout
  /\ \E n \in 1 .. Len(wire[from]) :
       /\ buffer' = Chunk(1)
       /\ left' = [left EXCEPT ![from] = DropFirst(Chunk(n), 1)]
       /\ wire' = [wire EXCEPT ![from] = DropFirst(@, n)]
  /\ accepted' = accepted \cup {from}
  /\ AfterRead
  /\ UNCHANGED <<ready, from, wait, seen, eof, peerVars, runVars>>

\* The TimeoutError of readPacket is caught; size stays 0.
PacketTimeout ==
  /\ pc = "read" /\ ~raw /\ left[from] = <<>>
  /\ seen > ReadTimeout \/ WaitedInVain
  /\ buffer' = <<>> /\ AfterRead
  /\ UNCHANGED <<ready, from, wait, seen, driverVars, peerVars, runVars>>

Write ==
  /\ pc = "write"
  /\ out' = [out EXCEPT ![Other(from)] = @ \o buffer]
  /\ buffer' = <<>> /\ pc' = "serve"
  /\ UNCHANGED <<ready, from, wait, seen, driverVars, peerVars, raw, hasEof, reopens>>

\* The exceptions of writePacket leave forward(); a part may have been written.
WriteFails ==
  /\ pc = "write" /\ Errors
  /\ \E n \in 0 .. Len(buffer) - 1 :
       /\ out' = [out EXCEPT ![Other(from)] = @ \o SubSeq(buffer, 1, n)]
       /\ buffer' = DropFirst(buffer, n)
  /\ pc' = "thrown"
  /\ UNCHANGED <<ready, from, wait, seen, driverVars, peerVars, raw, hasEof, reopens>>

\* So do those of a read that are no TimeoutErrors, and of select(); and the program
\* ends with one of openURI.
Fails ==
  /\ Errors /\ (pc \in {"select", "read"} \/ (pc = "returned" /\ raw))
  /\ pc' = "thrown"
  /\ UNCHANGED <<ready, readVars, driverVars, peerVars, runVars>>

\* The forwarder's loop: new drivers for the old ones.  A device may still have what it
\* had for the old driver, a connection is a new one.
Reopen(dropped) ==
  /\ pc = "returned" /\ raw /\ reopens < MaxReopens
  /\ closed \subseteq dropped
  /\ pc' = "select" /\ reopens' = reopens + 1 /\ closed' = {}
  /\ eof' = [d \in Drivers |-> FALSE] /\ left' = [d \in Drivers |-> <<>>]
  /\ accepted' = Drivers \ Servers
  /\ wire' = [d \in Drivers |-> IF d \in dropped THEN <<>> ELSE wire[d]]
  /\ UNCHANGED <<ready, readVars, sent, raw, hasEof, out>>

\* Time passes anywhere in a read; bound: how long ago its deadline was is not told apart.
Tick ==
  /\ pc = "read" /\ wait <= ReadTimeout
  /\ wait' = wait + 1
  /\ UNCHANGED <<pc, ready, from, buffer, seen, driverVars, peerVars, runVars>>

-----------------------------------------------------------------------------
Step ==
  \/ Select \/ SelectEnds \/ Serve \/ RawRead \/ ReadEnd \/ RawReturn
  \/ PacketFromBuffer \/ PacketFromStream \/ PacketTimeout \/ Write
Failures == WriteFails \/ Fails
Peers == \E d \in Drivers : PeerSends(d) \/ PeerCloses(d)

Next ==
  \/ Step \/ SelectInterrupted \/ ReadInterrupted \/ Failures \/ Tick \/ Peers
  \/ \E dropped \in SUBSET Drivers : Reopen(dropped)

Spec == Init /\ [][Next]_vars
\* The thread goes on, and time with it; the peers do as they like, no call need fail
\* and no signal come.
LiveSpec == Spec /\ WF_vars(Step) /\ WF_vars(Tick)

-----------------------------------------------------------------------------
Ended == pc \in {"returned", "thrown"}

Under(d) == (IF from = d THEN buffer ELSE <<>>) \o left[d] \o wire[d]
Ch == INSTANCE Channels WITH
        gone <- closed,
        channel <- [d \in Drivers |-> Under(d)],
        got <- [d \in Drivers |-> out[Other(d)]],
        phase <- CASE pc = "returned" -> "returned" [] pc = "thrown" -> "failed"
                   [] OTHER -> "running"

\* Forward.hpp:9-13: forward() is two channels between its drivers.  Every item is
\* passed on once and in order, whichever of the buffers it passes through; the function
\* returns only when all that a closed side has sent is passed on; and what the forwarder
\* drops, between two calls, is the rest of a channel.
ImplementsChannels == Ch!Spec

\* Forward.hpp:11-12: "It blocks until one of the connections is closed (the driver
\* detects an EOF)".  When a side whose stream knows an end of file closes, forward()
\* ends, whatever the other side sends.  Under Servers, the same for a driver whose
\* client connects while it forwards.
CloseEndsForward == closed \cap hasEof # {} ~> Ended

\* One side's traffic does not keep the other side's from being read, nor does the end of
\* a side that forward() cannot notice, which select() reports for ever.
BothSidesServed == \A d \in Drivers : wire[d] # <<>> ~> (wire[d] = <<>> \/ Ended)

-----------------------------------------------------------------------------
(* What texts of the repository say and the code does not keep: TLC refutes each
   with the constants that the README gives. *)

\* Forward.hpp:11-12, as above: closed by whatever peer, on whatever stream.
EveryCloseEndsForward == closed # {} ~> Ended

\* Forward.hpp:38-39, of timeout2: "how long we should wait, while reading, before
\* forwarding the data received from driver2".
EachSideHasItsTimeout ==
  pc = "read" => wait <= (IF from = 1 THEN Timeout1 ELSE Timeout2) + 1

\* Forward.hpp:27-28: "The timeout as it is implemented is a maximum latency value
\* between the reception of a first byte and the sending of the bytes received".
ReceivedIsSent == \A d \in Drivers : left[d] # <<>> ~> (left[d] = <<>> \/ Ended)
=============================================================================
