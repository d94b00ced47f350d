---------------------------- MODULE MCDriverRead ----------------------------
(***************************************************************************)
(* Instances of DriverRead for TLC: extractors scaled down from the ones   *)
(* the repository's tests define, and what texts say of the driver.        *)
(***************************************************************************)
EXTENDS FindPacketRef

\* DriverTest::extractPacket (test_Driver.cpp:26-36), packets of 3 bytes
\* instead of 4: 0, anything, 0.
TestExtract(b) ==
  CASE b[1] # 0 -> -1
    [] b[1] = 0 /\ Len(b) < 3 -> 0
    [] b[1] = 0 /\ Len(b) >= 3 -> IF b[3] = 0 THEN 3 ELSE -3

\* PacketForwardDriver::extractPacket (test_Forward.cpp:103-116): a packet ends
\* with the first 0.
LineExtract(b) ==
  IF \E i \in 1..Len(b) : b[i] = 0
  THEN CHOOSE i \in 1..Len(b) : b[i] = 0 /\ \A j \in 1..i-1 : b[j] # 0
  ELSE 0

\* All that extractPacket may say, with two byte values: 0 is garbage, 1 0 a packet;
\* 1 1 starts a packet that is never complete, or, with 0 after it, is said to be
\* longer than what is there.
HeaderExtract(b) ==
  CASE b[1] = 0 -> -1
    [] b[1] = 1 /\ Len(b) = 1 -> 0
    [] b[1] = 1 /\ Len(b) > 1 /\ b[2] = 0 -> 2
    [] b[1] = 1 /\ Len(b) > 1 /\ b[2] = 1 ->
         IF Len(b) > 2 /\ b[3] = 0 THEN Len(b) + 1 ELSE 0

\* The extractors of the tests take no answer back when more bytes come in: what the
\* proof of CutsDoNotDependOnChunks assumes.
ShortStreams == UNION {[1..n -> Byte] : n \in 0..6}
Stable(Extract(_)) ==
  \A b \in ShortStreams \ {<<>>}, c \in ShortStreams :
    Extract(b) # 0 => Extract(b \o c) = Extract(b)
ASSUME TestsAreStable == Stable(TestExtract) /\ Stable(LineExtract)

-----------------------------------------------------------------------------
(* What texts of the repository say and the code does not keep: TLC refutes each
   with the constants that the README gives. *)

\* Driver.hpp:575 on eof(): "Whether the current stream is finished (e.g.
\* end-of-file or disconnected)".
EofMeansFinished == eof => peerClosed

\* Status.hpp:13-14: good_rx and bad_rx are the "count of bytes received and
\* accepted" and "received and rejected".
CountersCountReceivedBytes == good + bad <= Len(readLog)

\* Exceptions.hpp:21: a TimeoutError is "raised when a timeout occured".
TimeoutErrorMeansTimeout ==
  valid /\ pt > 0 /\ result \in {"FIRST_BYTE", "PACKET"} => elapsed >= DeadlineOf(result)

\* Driver.hpp:477 on readPacket: "+packet_timeout+ is the timeout to receive a complete
\* packet". What comes in afterwards is not waited for, and not read.
TimeoutEndsReading == [][ReadBytes /\ received /\ pt > 0 => elapsed <= pt]_vars

\* Driver.hpp:204 on clear(): "Removes all data that is pending on the file
\* descriptor".
ClearEmptiesDescriptor == [][Clear => wire' = <<>>]_vars
=============================================================================
