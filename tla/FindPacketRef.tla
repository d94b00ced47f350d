--------------------------- MODULE FindPacketRef ----------------------------
(***************************************************************************)
(* Driver::findPacket as the recursion it is written as, and the parsing   *)
(* of a whole byte stream by repeated extraction; the properties that      *)
(* compare DriverRead, which takes the recursion one level at a time and   *)
(* the stream as its bytes come in, with the two.                          *)
(***************************************************************************)
EXTENDS DriverRead

\* What findPacket may be called on.
Buffers == UNION {[1 .. n -> Byte] : n \in 1 .. MAX}

\* The bytes an answer of extractPacket drops, and those of the packet it announces.
Skip(answer) == IF answer < 0 THEN -answer ELSE 0
Size(answer) == IF answer > 0 THEN answer ELSE 0

\* [start, size] of what findPacket returns on the bytes `buffer'; size -1 stands for
\* the length_error it throws.
TooLong == [start |-> 0, size |-> -1]
Here(answer, b) ==
  IF answer > Len(b) THEN TooLong ELSE [start |-> Skip(answer), size |-> Size(answer)]
GoesOn(answer, b, last) ==
  answer # 0 /\ Skip(answer) + Size(answer) < Len(b) /\ (answer < 0 \/ last)
Rest(answer, b) == DropFirst(b, Skip(answer) + Size(answer))
FromNext(next, answer, last) ==
  CASE next.size = -1 -> next
    [] next.size # -1 /\ last /\ next.size = 0 -> [start |-> Skip(answer), size |-> Size(answer)]
    [] OTHER -> [start |-> next.start + Skip(answer) + Size(answer), size |-> next.size]

Find(buffer, last) ==
  LET found[b \in Buffers] ==
        LET answer == ExtractPacket(b)
        IN IF GoesOn(answer, b, last)
           THEN FromNext(found[Rest(answer, b)], answer, last)
           ELSE Here(answer, b)
  IN found[buffer]

\* The places of a byte stream where parsing it in one go, packet after packet,
\* cuts it: 0, and every end of a packet or of dropped bytes.
Cuts(log) ==
  LET from[p \in Nat] ==
        LET answer == ExtractPacket(DropFirst(log, p))
        IN IF p >= Len(log) THEN {p}
           ELSE IF answer = 0 THEN {p} ELSE {p} \cup from[p + Skip(answer) + Size(answer)]
  IN from[0]

-----------------------------------------------------------------------------
\* findPacket level by level returns what the recursion of the source returns.
FindMatchesRecursion ==
  pc = "pull" => LET f == Find(ibuf, extractLast)
                 IN find.start = f.start /\ find.size = f.size

\* hasPacket says what a readPacket would find in the internal buffer, and a
\* TimeoutError never leaves a complete packet behind in it.
NoPacketLeftBehind ==
  result \in {"true", "false", "FIRST_BYTE", "PACKET"} =>
    ((result = "true") <=> (ibuf # <<>> /\ Find(ibuf, extractLast).size > 0))

\* Driver.hpp:188-190: with extract_last, readPacket "will return only the latest
\* packet found in the buffer": none is left behind in it.
LastMeansLatest ==
  extractLast /\ result = "packet" =>
    ibuf = <<>> \/ Find(ibuf, TRUE).size = 0

\* Packet boundaries do not depend on how the bytes came in: between calls, the
\* driver has cut the stream where parsing all of it in one go cuts it.
CutsDoNotDependOnChunks == pc = "idle" => Consumed \in Cuts(readLog)
=============================================================================
