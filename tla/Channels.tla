------------------------------ MODULE Channels ------------------------------
(***************************************************************************)
(* What forwarding between two ends promises, to those who look at the     *)
(* ends only: two channels, first in, first out.  Forward implements it.   *)
(*                                                                         *)
(* Forwarding goes on until an end is gone and all it has sent is          *)
(* delivered, or until something fails.  It may then start again, and what *)
(* was under way on a channel is there still or is dropped with it.        *)
(***************************************************************************)
EXTENDS Integers, Sequences

VARIABLES
  sent,     \* per end, how many items it has sent; they are numbered
  gone,     \* the ends that have closed
  channel,  \* per end, the items sent by it and not delivered
  got,      \* per end, the items of it that the other one has got
  phase     \* "running", "returned" or "failed"

vars == <<sent, gone, channel, got, phase>>
Ends == {1, 2}

Init ==
  /\ sent = [d \in Ends |-> 0] /\ gone = {} /\ phase = "running"
  /\ channel = [d \in Ends |-> <<>>] /\ got = [d \in Ends |-> <<>>]

Send(d) ==
  /\ d \notin gone
  /\ sent' = [sent EXCEPT ![d] = @ + 1]
  /\ channel' = [channel EXCEPT ![d] = Append(@, sent'[d])]
  /\ UNCHANGED <<gone, got, phase>>

Close(d) == gone' = gone \cup {d} /\ UNCHANGED <<sent, channel, got, phase>>

\* The first n items under way arrive.
Move(d, n) ==
  /\ got' = [got EXCEPT ![d] = @ \o SubSeq(channel[d], 1, n)]
  /\ channel' = [channel EXCEPT ![d] = SubSeq(@, n + 1, Len(@))]
  /\ UNCHANGED <<sent, gone>>

Deliver(d) ==
  /\ phase = "running" /\ UNCHANGED phase
  /\ \E n \in 1..Len(channel[d]) : Move(d, n)

Return ==
  /\ phase = "running" /\ phase' = "returned"
  /\ \E d \in gone : channel[d] = <<>>
  /\ UNCHANGED <<sent, gone, channel, got>>

Fail(d) ==
  /\ phase # "failed" /\ phase' = "failed"
  /\ \E n \in 0..Len(channel[d]) : Move(d, n)

Restart(dropped) ==
  /\ phase = "returned" /\ phase' = "running" /\ gone' = {} /\ gone \subseteq dropped
  /\ channel' = [d \in Ends |-> IF d \in dropped THEN <<>> ELSE channel[d]]
  /\ UNCHANGED <<sent, got>>

Next ==
  \/ \E d \in Ends : Send(d) \/ Close(d) \/ Deliver(d) \/ Fail(d)
  \/ Return
  \/ \E dropped \in SUBSET Ends : Restart(dropped)

Spec == Init /\ [][Next]_vars
=============================================================================
