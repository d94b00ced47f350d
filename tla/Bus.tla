-------------------------------- MODULE Bus ---------------------------------
(***************************************************************************)
(* Bus: a driver that several devices share.  Each device has a parser     *)
(* that knows its packets.  A read for one parser (Parser::readPacket)     *)
(* uses that parser's extractPacket only; a read for none                  *)
(* (BusHandler::readPacket) asks every registered parser and calls         *)
(* packedReady of the handlers that see a packet of theirs.  Threads take  *)
(* the bus's mutex for a whole call, blocking reads included.              *)
(*                                                                         *)
(* Driver::readPacket appears as DriverRead has it, for the first packet   *)
(* and a buffer that does not fill up.                                     *)
(***************************************************************************)
EXTENDS Integers, Sequences, FiniteSets

CONSTANTS
  Threads, Parsers, Handlers,
  NoThread, NoParser,
  Byte,
  Extract(_, _),  \* a parser's extractPacket
  MaxInput,       \* bound: bytes on the bus
  MaxDispatches   \* bound: calls of packedReady that are remembered

Magnitude(i) == IF i < 0 THEN -i ELSE i

ASSUME BusAssumption ==
  /\ Handlers \subseteq Parsers /\ NoParser \notin Parsers /\ NoThread \notin Threads
  /\ MaxInput \in Nat /\ MaxDispatches \in Nat

\* Driver.hpp:517-535, of extractPacket: how many bytes to drop, 0, or the size of a full
\* packet at the first byte, which is one whatever follows it.
ASSUME ParserAssumption ==
  \A p \in Parsers : \A n \in 1 .. MaxInput : \A b \in [1 .. n -> Byte] :
    /\ Extract(p, b) \in -n .. n
    /\ Extract(p, b) > 0 => Extract(p, SubSeq(b, 1, Extract(p, b))) = Extract(p, b)

VARIABLES
  owner,        \* the thread that holds mutex
  op, for,      \* per thread: the call it is in, the parser it reads for
  caller,       \* caller
  registered,   \* parser, the list
  phase,        \* of the read in progress: "find" or "stream"
  ibuf,         \* internal_buffer
  wire, stream, \* bytes waiting in the descriptor; all bytes sent on the bus
  got,          \* observer: the last packet returned and the parser it was read for
  dispatched    \* observer: calls of packedReady: handler, place in the stream, size

threadVars == <<op, for>>
dataVars == <<ibuf, wire, stream>>
vars == <<owner, threadVars, caller, registered, phase, dataVars, got, dispatched>>

NoPacket == [for |-> NoParser, bytes |-> <<>>]

TypeOK ==
  /\ owner \in Threads \cup {NoThread}
  /\ op \in [Threads -> {"none", "read", "write"}]
  /\ for \in [Threads -> Parsers \cup {NoParser}]
  /\ caller \in Parsers \cup {NoParser}
  /\ registered \in Seq(Parsers) /\ phase \in {"find", "stream"}
  /\ {ibuf, wire, stream} \subseteq Seq(Byte)
  /\ got.for \in Parsers \cup {NoParser} /\ got.bytes \in Seq(Byte)
  /\ \A i \in 1 .. Len(dispatched) :
       /\ dispatched[i].handler \in Handlers
       /\ dispatched[i].at \in 0 .. Len(stream) /\ dispatched[i].size \in Nat

Init ==
  /\ owner = NoThread
  /\ op = [t \in Threads |-> "none"] /\ for = [t \in Threads |-> NoParser]
  /\ caller = NoParser /\ registered = <<>> /\ phase = "stream"
  /\ ibuf = <<>> /\ wire = <<>> /\ stream = <<>>
  /\ got = NoPacket /\ dispatched = <<>>

-----------------------------------------------------------------------------
DeviceSends(b) ==
  /\ Len(stream) < MaxInput
  /\ stream' = Append(stream, b) /\ wire' = Append(wire, b)
  /\ UNCHANGED <<owner, threadVars, caller, registered, phase, ibuf, got, dispatched>>

\* addParser and removeParser take the mutex for themselves.
AddParser(p) ==
  /\ owner = NoThread /\ p \notin {registered[i] : i \in 1 .. Len(registered)}
  /\ registered' = Append(registered, p)
  /\ UNCHANGED <<owner, threadVars, caller, phase, dataVars, got, dispatched>>

\* A parser is in the list once at most.
RemoveParser(p) ==
  /\ owner = NoThread
  /\ \E i \in 1 .. Len(registered) :
       /\ registered[i] = p
       /\ registered' = SubSeq(registered, 1, i - 1)
                           \o SubSeq(registered, i + 1, Len(registered))
  /\ UNCHANGED <<owner, threadVars, caller, phase, dataVars, got, dispatched>>

Call(t, o, p) ==
  /\ op[t] = "none"
  /\ op' = [op EXCEPT ![t] = o] /\ for' = [for EXCEPT ![t] = p]
  /\ UNCHANGED <<owner, caller, registered, phase, dataVars, got, dispatched>>

\* Fault: the caller of an earlier read is kept.
NewCallerStale(t) == caller

NewCaller(t) == for[t]
ReadStarts(t) ==
  /\ owner = NoThread /\ op[t] = "read"
  /\ owner' = t /\ caller' = NewCaller(t)
  /\ phase' = IF ibuf = <<>> THEN "stream" ELSE "find"
  /\ UNCHANGED <<threadVars, registered, dataVars, got, dispatched>>

WriteStarts(t) ==
  /\ owner = NoThread /\ op[t] = "write"
  /\ owner' = t
  /\ UNCHANGED <<threadVars, caller, registered, phase, dataVars, got, dispatched>>

Leave == owner' = NoThread /\ op' = [op EXCEPT ![owner] = "none"] /\ UNCHANGED for

\* writePacket has written or failed.
WriteEnds ==
  /\ owner # NoThread /\ op[owner] = "write"
  /\ Leave
  /\ UNCHANGED <<caller, registered, phase, dataVars, got, dispatched>>

Reading == owner # NoThread /\ op[owner] = "read"

\* What the first n parsers of the list leave of minSkip.
MinSkip(n) ==
  LET skips == {Magnitude(Extract(registered[i], ibuf)) : i \in 1..n} \cup {Len(ibuf)}
  IN CHOOSE s \in skips : \A u \in skips : s <= u

\* Bus::extractPacket and the packedReady calls it makes.
Extracted ==
  IF caller # NoParser THEN Extract(caller, ibuf) ELSE MinSkip(Len(registered))

Calls ==
  LET called(i) == registered[i] \in Handlers /\ Extract(registered[i], ibuf) > 0
      call(i) == [handler |-> registered[i], at |-> Len(stream) - Len(wire) - Len(ibuf),
                  size |-> MinSkip(i - 1)]
      indices == SelectSeq([i \in 1 .. Len(registered) |-> i], called)
  IN IF caller # NoParser THEN <<>> ELSE [j \in 1 .. Len(indices) |-> call(indices[j])]

\* findPacket on what is left of the buffer.
Find ==
  /\ Reading /\ phase = "find"
  /\ LET all == dispatched \o Calls
     IN dispatched' = SubSeq(all, 1, IF Len(all) < MaxDispatches THEN Len(all) ELSE MaxDispatches)
  /\ \/ /\ Extracted = 0
        /\ phase' = "stream" /\ UNCHANGED <<owner, threadVars, ibuf, got>>
     \/ /\ Extracted < 0
        /\ ibuf' = SubSeq(ibuf, 1 - Extracted, Len(ibuf))
        /\ phase' = IF ibuf' = <<>> THEN "stream" ELSE "find"
        /\ UNCHANGED <<owner, threadVars, got>>
     \/ /\ Extracted > 0
        /\ got' = [for |-> for[owner], bytes |-> SubSeq(ibuf, 1, Extracted)]
        /\ ibuf' = SubSeq(ibuf, Extracted + 1, Len(ibuf))
        /\ Leave /\ UNCHANGED phase
  /\ UNCHANGED <<caller, registered, wire, stream>>

ReadBytes(n) ==
  /\ Reading /\ phase = "stream" /\ n <= Len(wire)
  /\ ibuf' = ibuf \o SubSeq(wire, 1, n) /\ wire' = SubSeq(wire, n + 1, Len(wire))
  /\ phase' = "find"
  /\ UNCHANGED <<owner, threadVars, caller, registered, stream, got, dispatched>>

\* The TimeoutError, or an error of the stream.
ReadThrows ==
  /\ Reading /\ phase = "stream" /\ wire = <<>>
  /\ caller' = NoParser
  /\ Leave
  /\ UNCHANGED <<registered, phase, dataVars, got, dispatched>>

-----------------------------------------------------------------------------
Holder == WriteEnds \/ Find \/ (\E n \in 1..MaxInput : ReadBytes(n)) \/ ReadThrows
Next ==
  \/ Holder
  \/ \E b \in Byte : DeviceSends(b)
  \/ \E p \in Parsers : AddParser(p) \/ RemoveParser(p)
  \/ \E t \in Threads :
       \/ \E p \in Parsers \cup {NoParser} : Call(t, "read", p)
       \/ Call(t, "write", NoParser)
       \/ ReadStarts(t) \/ WriteStarts(t)

Spec == Init /\ [][Next]_vars

-----------------------------------------------------------------------------
\* Whatever other threads read for, a read for a parser returns packets of that
\* parser.
PacketsForReader ==
  got.for # NoParser => Extract(got.for, got.bytes) = Len(got.bytes)

-----------------------------------------------------------------------------
(* What texts of the repository say and the code does not keep: TLC refutes each
   with the constants that the README gives. *)

\* Driver.hpp:531-532, of extractPacket: "there is a full packet in the buffer,
\* starting at the first buffer byte.  Return the packet size".
PacketsAreSomeones ==
  got # NoPacket => \E p \in Parsers : Extract(p, got.bytes) = Len(got.bytes)

\* Bus.hpp:49: "In case an Parser detects an packed for this Device, the function
\* packedReady get's call".
ReadyOncePerPacket ==
  \A i, j \in 1 .. Len(dispatched) :
    dispatched[i].handler = dispatched[j].handler /\ dispatched[i].at = dispatched[j].at
      => i = j
=============================================================================
