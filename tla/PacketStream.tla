---------------------------- MODULE PacketStream ----------------------------
(***************************************************************************)
(* What the read path of a Driver promises its client, with nothing said   *)
(* of buffers, reads or timeouts.  `log' is everything received, the first *)
(* `cut' bytes of it are dealt with, and `packet' is the packet the client *)
(* has in its hands, if any.  Packets are delivered in the order received, *)
(* never overlap, are contiguous in the log, and are what extractPacket    *)
(* accepts at their first byte given all that had been received.           *)
(***************************************************************************)
EXTENDS Integers, Sequences

CONSTANT ExtractPacket(_)

VARIABLES log, cut, packet
vars == <<log, cut, packet>>

Init == log = <<>> /\ cut = 0 /\ packet = <<>>

Receive ==
  /\ Len(log') > Len(log)
  /\ SubSeq(log', 1, Len(log)) = log
  /\ UNCHANGED <<cut, packet>>

Deliver ==
  /\ \E i \in cut .. Len(log) - 1 :
       LET n == ExtractPacket(SubSeq(log, i + 1, Len(log)))
       IN /\ n \in 1 .. Len(log) - i
          /\ packet' = SubSeq(log, i + 1, i + n)
          /\ cut' = i + n
  /\ UNCHANGED log

Discard ==
  /\ cut' \in cut + 1 .. Len(log)
  /\ UNCHANGED <<log, packet>>

HandOver ==
  /\ packet' = <<>>
  /\ UNCHANGED <<log, cut>>

Next == Receive \/ Deliver \/ Discard \/ HandOver

Spec == Init /\ [][Next]_vars
=============================================================================
