--------------------------- MODULE Forward_proofs ---------------------------
(***************************************************************************)
(* Theorems about Forward, for every buffer size and timeout, any number   *)
(* of items and any number of times the drivers are opened again.          *)
(***************************************************************************)
EXTENDS Forward, TLAPS, SequenceTheorems

USE DEF readVars, peerVars, driverVars, runVars

-----------------------------------------------------------------------------
(* Lemmas on the sequences that items pass through.                        *)

\* The first n items go one way and the rest stays.
LEMMA SplitProperties ==
  ASSUME NEW s \in Seq(Nat), NEW n \in 0 .. Len(s)
  PROVE  /\ SubSeq(s, 1, n) \in Seq(Nat) /\ Len(SubSeq(s, 1, n)) = n
         /\ DropFirst(s, n) \in Seq(Nat) /\ Len(DropFirst(s, n)) = Len(s) - n
         /\ SubSeq(s, 1, n) \o DropFirst(s, n) = s
<1>1. Len(s) \in Nat /\ \A i \in 1 .. Len(s) : s[i] \in Nat
  BY LenProperties
<1>2. SubSeq(s, 1, n) \in Seq(Nat) /\ Len(SubSeq(s, 1, n)) = n
  BY <1>1, SubSeqProperties
<1>3. DropFirst(s, n) \in Seq(Nat) /\ Len(DropFirst(s, n)) = Len(s) - n
  BY <1>1, SubSeqProperties DEF DropFirst
<1>4. SubSeq(s, 1, n) \o SubSeq(s, n + 1, Len(s)) = s
  <2>1. 1 \in 1 .. Len(s) + 1 /\ n \in 1 - 1 .. Len(s) /\ Len(s) \in n .. Len(s)
    BY <1>1
  <2>2. SubSeq(s, 1, n) \o SubSeq(s, n + 1, Len(s)) = SubSeq(s, 1, Len(s))
    BY <2>1, ConcatAdjacentSubSeq
  <2> QED
    BY <2>2, SubSeqFull
<1> QED
  BY <1>2, <1>3, <1>4 DEF DropFirst

\* What is taken from the front of a concatenation comes from its first part.
LEMMA TakeFromFront ==
  ASSUME NEW s \in Seq(Nat), NEW t \in Seq(Nat), NEW n \in 0 .. Len(s)
  PROVE  /\ SubSeq(s \o t, 1, n) = SubSeq(s, 1, n)
         /\ DropFirst(s \o t, n) = DropFirst(s, n) \o t
         /\ Len(s) <= Len(s \o t)
<1> DEFINE u == SubSeq(s, 1, n)
           v == DropFirst(s, n) \o t
           w == s \o t
<1>1. /\ Len(s) \in Nat /\ Len(t) \in Nat
      /\ w \in Seq(Nat) /\ Len(w) = Len(s) + Len(t)
  BY LenProperties, ConcatProperties
<1>2. u \in Seq(Nat) /\ Len(u) = n /\ v \in Seq(Nat) /\ u \o v = w
  <2> DEFINE d == DropFirst(s, n)
  <2>1. u \in Seq(Nat) /\ Len(u) = n /\ d \in Seq(Nat) /\ u \o d = s
    BY SplitProperties
  <2> HIDE DEF u, d
  <2>2. d \o t \in Seq(Nat)
    BY <2>1, ConcatProperties
  <2>3. (u \o d) \o t = u \o (d \o t)
    <3>1. u \in Seq(Nat) /\ d \in Seq(Nat)
      BY <2>1
    <3> QED
      BY <3>1, ConcatAssociative, SMTT(30)
  <2> QED
    BY <2>1, <2>2, <2>3, Zenon DEF d
<1>3. n \in 0 .. Len(w)
  BY <1>1
<1> HIDE DEF u, v, w
<1>4. /\ SubSeq(w, 1, n) \in Seq(Nat) /\ Len(SubSeq(w, 1, n)) = n
      /\ DropFirst(w, n) \in Seq(Nat)
      /\ SubSeq(w, 1, n) \o DropFirst(w, n) = w
  BY <1>1, <1>3, SplitProperties
<1>5. SubSeq(w, 1, n) = u
  <2>1. ASSUME NEW i \in 1 .. n PROVE SubSeq(w, 1, n)[i] = u[i]
    <3>1. w[i] = u[i]
      <4> DEFINE x == u \o v
      <4>1. Len(v) \in Nat /\ \A j \in 1 .. Len(u) + Len(v) :
                                x[j] = IF j <= Len(u) THEN u[j] ELSE v[j - Len(u)]
        BY <1>2, LenProperties, ConcatProperties
      <4>2. x = w
        BY <1>2
      <4> HIDE DEF x
      <4>3. i \in 1 .. Len(u) + Len(v) /\ i <= Len(u)
        BY <1>1, <1>2, <4>1
      <4> QED
        BY <4>1, <4>2, <4>3
    <3>2. SubSeq(w, 1, n)[i] = w[i]
      <4>1. \A j \in 1 .. n : w[j] \in Nat
        <5>1. Len(w) \in Nat /\ \A j \in 1 .. Len(w) : w[j] \in Nat
          BY <1>1, ElementOfSeq
        <5> QED
          BY <1>3, <5>1
      <4> QED
        BY <1>3, <4>1, SubSeqProperties
    <3> QED
      BY <3>1, <3>2
  <2> DEFINE x == SubSeq(w, 1, n)
  <2>2. x \in Seq(Nat) /\ Len(x) = Len(u) /\ \A i \in 1 .. Len(x) : x[i] = u[i]
    BY <1>2, <1>4, <2>1
  <2> HIDE DEF x
  <2>3. x = u
    BY <1>2, <2>2, SeqEqual
  <2> QED
    BY <2>3 DEF x
<1>6. DropFirst(w, n) = v
  <2> DEFINE x == DropFirst(w, n)
  <2>1. x \in Seq(Nat) /\ u \o x = u \o v
    BY <1>2, <1>4, <1>5
  <2> HIDE DEF x
  <2>2. \A a, b, c \in Seq(Nat) : a \o b = a \o c => b = c
    BY ConcatSimplifications
  <2>3. x = v
    BY <1>2, <2>1, <2>2
  <2> QED
    BY <2>3 DEF x
<1> QED
  BY <1>1, <1>5, <1>6 DEF u, v, w

\* An item moves from the front of one buffer to the back of another.
LEMMA MoveProperties ==
  ASSUME NEW s \in Seq(Nat), NEW t \in Seq(Nat), NEW n \in 0 .. Len(t)
  PROVE  /\ s \o SubSeq(t, 1, n) \in Seq(Nat)
         /\ Len(s \o SubSeq(t, 1, n)) = Len(s) + n
         /\ DropFirst(t, n) \in Seq(Nat)
         /\ (s \o SubSeq(t, 1, n)) \o DropFirst(t, n) = s \o t
<1> DEFINE u == SubSeq(t, 1, n)
           v == DropFirst(t, n)
<1>1. u \in Seq(Nat) /\ Len(u) = n /\ v \in Seq(Nat) /\ u \o v = t
  BY SplitProperties
<1> HIDE DEF u, v
<1>2. s \o u \in Seq(Nat) /\ Len(s \o u) = Len(s) + Len(u)
  BY <1>1, ConcatProperties
<1>3. (s \o u) \o v = s \o (u \o v)
  <2>1. u \in Seq(Nat) /\ v \in Seq(Nat)
    BY <1>1
  <2> QED
    BY <2>1, ConcatAssociative, SMTT(30)
<1>4. /\ s \o u \in Seq(Nat) /\ Len(s \o u) = Len(s) + n
      /\ v \in Seq(Nat) /\ (s \o u) \o v = s \o t
  BY <1>1, <1>2, <1>3, Zenon
<1> QED
  BY <1>4 DEF u, v

-----------------------------------------------------------------------------
(* The invariant.                                                          *)

\* Where an item can be: in `buffer' only while its driver is served, in the internal
\* buffer only in packet mode, and nowhere on the side of a driver at its end of file.
PlaceInv ==
  /\ pc \in {"select", "serve", "returned"} => buffer = <<>>
  /\ pc = "write" => buffer # <<>>
  /\ pc = "read" /\ ~raw => buffer = <<>>
  /\ raw => \A d \in Drivers : left[d] = <<>>
  /\ \A d \in Drivers : eof[d] => d \in closed /\ left[d] = <<>> /\ wire[d] = <<>>

ForwardInv == TypeOK /\ PlaceInv

\* What readRaw and readPacket take from the descriptor, and what they leave there.
LEMMA ChunkProperties ==
  ASSUME TypeOK, NEW n \in 0 .. Len(wire[from])
  PROVE  /\ from \in Drivers /\ wire[from] \in Seq(Nat)
         /\ Chunk(n) \in Seq(Nat) /\ Len(Chunk(n)) = n
         /\ DropFirst(wire[from], n) \in Seq(Nat)
<1>1. from \in Drivers /\ wire[from] \in Seq(Nat)
  BY DEF TypeOK
<1> DEFINE w == wire[from]
<1>2. w \in Seq(Nat) /\ n \in 0 .. Len(w)
  BY <1>1
<1> HIDE DEF w
<1>3. /\ SubSeq(w, 1, n) \in Seq(Nat) /\ Len(SubSeq(w, 1, n)) = n
      /\ DropFirst(w, n) \in Seq(Nat)
  BY <1>2, SplitProperties
<1> QED
  BY <1>1, <1>3 DEF Chunk, w

\* A read that has room for a byte and finds one brings at least that.
LEMMA RoomProperties ==
  ASSUME TypeOK, Len(buffer) < BufferSize, wire[from] # <<>>
  PROVE  /\ Min2(Room, Len(wire[from])) \in 1 .. Len(wire[from])
         /\ Len(buffer) + Min2(Room, Len(wire[from])) <= BufferSize
<1>1. buffer \in Seq(Nat) /\ Len(buffer) \in Nat /\ BufferSize \in Nat
  BY LenProperties, ForwardAssumption DEF TypeOK
<1>2. wire[from] \in Seq(Nat)
  BY DEF TypeOK
<1>3. Len(wire[from]) \in Nat \ {0}
  <2> DEFINE w == wire[from]
  <2>1. w \in Seq(Nat) /\ w # <<>>
    BY <1>2
  <2> HIDE DEF w
  <2>2. Len(w) \in Nat \ {0}
    BY <2>1, EmptySeq
  <2> QED
    BY <2>2 DEF w
<1> QED
  BY <1>1, <1>3 DEF Min2, Room

LEMMA ForwardInvInit == Init => ForwardInv
<1> SUFFICES ASSUME Init PROVE ForwardInv
  OBVIOUS
<1>1. <<>> \in Seq(Nat) /\ Len(<<>>) = 0
  OBVIOUS
<1>2. buffer \in Seq(Nat) /\ (raw => Len(buffer) <= BufferSize)
  BY <1>1, ForwardAssumption DEF Init
<1>3. /\ left \in [Drivers -> Seq(Nat)] /\ wire \in [Drivers -> Seq(Nat)]
      /\ out \in [Drivers -> Seq(Nat)]
  BY <1>1 DEF Init
<1>4. raw \in BOOLEAN
  BY ForwardAssumption DEF Init
<1>5. eof \in [Drivers -> BOOLEAN] /\ sent \in [Drivers -> Nat]
  BY DEF Init
<1>6. /\ pc \in {"select", "serve", "read", "write", "returned", "thrown"}
      /\ from \in Drivers /\ wait \in Nat /\ seen \in Nat /\ reopens \in 0 .. MaxReopens
  BY ForwardAssumption DEF Init, Drivers
<1>7. /\ ready \subseteq Drivers /\ accepted \subseteq Drivers /\ closed \subseteq Drivers
      /\ hasEof \subseteq Drivers
  BY ForwardAssumption DEF Init
<1>8. PlaceInv
  BY DEF Init, PlaceInv
<1> QED
  BY <1>2, <1>3, <1>4, <1>5, <1>6, <1>7, <1>8 DEF ForwardInv, TypeOK

\* The steps of forward() that move items.
LEMMA ForwardInvMove ==
  ASSUME ForwardInv,
         RawRead \/ PacketFromBuffer \/ PacketFromStream \/ Write \/ WriteFails
  PROVE  ForwardInv'
<1>1. /\ from \in Drivers /\ Other(from) \in Drivers
      /\ buffer \in Seq(Nat) /\ Len(buffer) \in Nat
      /\ left[from] \in Seq(Nat) /\ wire[from] \in Seq(Nat) /\ out[Other(from)] \in Seq(Nat)
      /\ left \in [Drivers -> Seq(Nat)] /\ wire \in [Drivers -> Seq(Nat)]
      /\ out \in [Drivers -> Seq(Nat)]
  <2>1. from \in Drivers /\ Other(from) \in Drivers
    BY DEF ForwardInv, TypeOK, Drivers, Other
  <2> QED
    BY <2>1, LenProperties DEF ForwardInv, TypeOK
<1>2. CASE RawRead
  <2> DEFINE n == Min2(Room, Len(wire[from]))
  <2>1. /\ pc = "read" /\ raw /\ buffer' = buffer \o Chunk(n)
        /\ wire' = [wire EXCEPT ![from] = DropFirst(@, n)]
        /\ wait' \in {0, wait} /\ seen' = wait' /\ accepted' = accepted \cup {from}
        /\ UNCHANGED <<pc, ready, from, eof, left, peerVars, runVars>>
        /\ Len(buffer) < BufferSize /\ wire[from] # <<>>
    BY <1>2 DEF RawRead
  <2>2. n \in 1 .. Len(wire[from]) /\ Len(buffer) + n <= BufferSize
    BY <2>1, RoomProperties DEF ForwardInv
  <2> HIDE DEF n
  <2>3. n \in 0 .. Len(wire[from])
    BY <2>2
  <2>4. Chunk(n) \in Seq(Nat) /\ Len(Chunk(n)) = n /\ DropFirst(wire[from], n) \in Seq(Nat)
    BY <2>3, ChunkProperties DEF ForwardInv
  <2>5. buffer' \in Seq(Nat) /\ Len(buffer') = Len(buffer) + n
    <3> DEFINE c == Chunk(n)
    <3>1. c \in Seq(Nat) /\ Len(c) = n
      BY <2>4
    <3> HIDE DEF c
    <3>2. buffer \o c \in Seq(Nat) /\ Len(buffer \o c) = Len(buffer) + Len(c)
      BY <1>1, <3>1, ConcatProperties
    <3> QED
      BY <2>1, <3>1, <3>2 DEF c
  <2>6. wire' \in [Drivers -> Seq(Nat)]
    BY <1>1, <2>1, <2>4
  <2>7. \A d \in Drivers : eof[d] => d # from
    BY <2>1 DEF ForwardInv, PlaceInv
  <2>8. PlaceInv'
    BY <1>1, <2>1, <2>7 DEF ForwardInv, PlaceInv
  <2>9. Len(buffer') <= BufferSize /\ wait' \in Nat /\ seen' \in Nat /\ accepted' \subseteq Drivers
    BY <1>1, <2>1, <2>2, <2>5, SMTT(30) DEF ForwardInv, TypeOK
  <2>10. TypeOK'
    BY <2>1, <2>5, <2>6, <2>9 DEF ForwardInv, TypeOK
  <2> QED
    BY <2>8, <2>10 DEF ForwardInv
<1>3. CASE PacketFromBuffer
  <2>1. /\ pc = "read" /\ ~raw /\ left[from] # <<>>
        /\ buffer' = <<Head(left[from])>> /\ left' = [left EXCEPT ![from] = Tail(@)]
        /\ AfterRead
        /\ UNCHANGED <<ready, from, wait, seen, eof, wire, accepted, peerVars, runVars>>
    BY <1>3 DEF PacketFromBuffer
  <2>2. Head(left[from]) \in Nat /\ Tail(left[from]) \in Seq(Nat)
    <3> DEFINE l == left[from]
    <3>1. l \in Seq(Nat) /\ l # <<>>
      BY <1>1, <2>1
    <3> HIDE DEF l
    <3>2. Head(l) \in Nat /\ Tail(l) \in Seq(Nat)
      BY <3>1, HeadTailProperties
    <3> QED
      BY <3>2 DEF l
  <2>3. buffer' \in Seq(Nat) /\ buffer' # <<>> /\ pc' = "write"
    BY <2>1, <2>2 DEF AfterRead
  <2>4. left' \in [Drivers -> Seq(Nat)]
    BY <1>1, <2>1, <2>2
  <2>5. \A d \in Drivers : eof[d] => d # from
    BY <2>1 DEF ForwardInv, PlaceInv
  <2>6. PlaceInv'
    BY <1>1, <2>1, <2>3, <2>5 DEF ForwardInv, PlaceInv
  <2>7. TypeOK'
    BY <1>1, <2>1, <2>3, <2>4 DEF ForwardInv, TypeOK
  <2> QED
    BY <2>6, <2>7 DEF ForwardInv
<1>4. CASE PacketFromStream
  <2>1. PICK n \in 1 .. Len(wire[from]) :
          /\ buffer' = Chunk(1)
          /\ left' = [left EXCEPT ![from] = DropFirst(Chunk(n), 1)]
          /\ wire' = [wire EXCEPT ![from] = DropFirst(@, n)]
    BY <1>4 DEF PacketFromStream
  <2>2. /\ pc = "read" /\ ~raw /\ left[from] = <<>> /\ wire[from] # <<>>
        /\ accepted' = accepted \cup {from} /\ AfterRead
        /\ UNCHANGED <<ready, from, wait, seen, eof, peerVars, runVars>>
    BY <1>4 DEF PacketFromStream
  <2>3. Len(wire[from]) \in Nat /\ n \in 0 .. Len(wire[from]) /\ 1 \in 0 .. Len(wire[from])
        /\ 1 \in 0 .. n
    BY <1>1, LenProperties
  <2>4. /\ Chunk(n) \in Seq(Nat) /\ Len(Chunk(n)) = n
        /\ DropFirst(wire[from], n) \in Seq(Nat)
        /\ Chunk(1) \in Seq(Nat) /\ Len(Chunk(1)) = 1
    BY <2>3, ChunkProperties DEF ForwardInv
  <2>5. DropFirst(Chunk(n), 1) \in Seq(Nat)
    <3> DEFINE c == Chunk(n)
    <3>1. c \in Seq(Nat) /\ 1 \in 0 .. Len(c)
      BY <2>3, <2>4
    <3> HIDE DEF c
    <3>2. DropFirst(c, 1) \in Seq(Nat)
      BY <3>1, SplitProperties
    <3> QED
      BY <3>2 DEF c
  <2>6. buffer' \in Seq(Nat) /\ buffer' # <<>> /\ pc' = "write"
    <3>1. buffer' # <<>>
      <4>1. Len(buffer') = 1
        BY <2>1, <2>4
      <4> QED
        BY <4>1
    <3> QED
      BY <2>1, <2>2, <2>4, <3>1 DEF AfterRead
  <2>7. left' \in [Drivers -> Seq(Nat)] /\ wire' \in [Drivers -> Seq(Nat)]
    BY <1>1, <2>1, <2>4, <2>5
  <2>8. \A d \in Drivers : eof[d] => d # from
    BY <2>2 DEF ForwardInv, PlaceInv
  <2>9. PlaceInv'
    BY <1>1, <2>1, <2>2, <2>6, <2>8 DEF ForwardInv, PlaceInv
  <2>10. TypeOK'
    BY <1>1, <2>2, <2>6, <2>7 DEF ForwardInv, TypeOK
  <2> QED
    BY <2>9, <2>10 DEF ForwardInv
<1>5. CASE Write
  <2>1. out[Other(from)] \o buffer \in Seq(Nat)
    <3> DEFINE o == out[Other(from)]
    <3>1. o \in Seq(Nat)
      BY <1>1
    <3> HIDE DEF o
    <3>2. o \o buffer \in Seq(Nat)
      BY <1>1, <3>1, ConcatProperties
    <3> QED
      BY <3>2 DEF o
  <2>2. out' \in [Drivers -> Seq(Nat)] /\ buffer' = <<>> /\ pc' = "serve"
    BY <1>1, <1>5, <2>1 DEF Write
  <2>3. Len(<<>>) = 0 /\ <<>> \in Seq(Nat)
    OBVIOUS
  <2>4. buffer' \in Seq(Nat) /\ (raw => Len(buffer') <= BufferSize)
    BY <2>2, <2>3, ForwardAssumption
  <2> QED
    BY <1>5, <2>2, <2>4 DEF Write, ForwardInv, TypeOK, PlaceInv
<1>6. CASE WriteFails
  <2>1. PICK n \in 0 .. Len(buffer) - 1 :
          /\ out' = [out EXCEPT ![Other(from)] = @ \o SubSeq(buffer, 1, n)]
          /\ buffer' = DropFirst(buffer, n)
    BY <1>6 DEF WriteFails
  <2>2. n \in 0 .. Len(buffer)
    BY <1>1
  <2>3. /\ DropFirst(buffer, n) \in Seq(Nat) /\ Len(DropFirst(buffer, n)) = Len(buffer) - n
        /\ SubSeq(buffer, 1, n) \in Seq(Nat)
    BY <1>1, <2>2, SplitProperties
  <2>4. out[Other(from)] \o SubSeq(buffer, 1, n) \in Seq(Nat)
    <3> DEFINE o == out[Other(from)]
               c == SubSeq(buffer, 1, n)
    <3>1. o \in Seq(Nat) /\ c \in Seq(Nat)
      BY <1>1, <2>3
    <3> HIDE DEF o, c
    <3>2. o \o c \in Seq(Nat)
      BY <3>1, ConcatProperties
    <3> QED
      BY <3>2 DEF o, c
  <2>5. out' \in [Drivers -> Seq(Nat)]
    BY <1>1, <2>1, <2>4
  <2>6. buffer' \in Seq(Nat) /\ Len(buffer') <= Len(buffer)
    BY <1>1, <2>1, <2>2, <2>3
  <2>7. raw => Len(buffer') <= BufferSize
    <3>1. Len(buffer') \in Nat /\ BufferSize \in Nat
      BY <2>6, LenProperties, ForwardAssumption
    <3> QED
      BY <1>1, <2>6, <3>1 DEF ForwardInv, TypeOK
  <2>8. /\ pc' = "thrown"
        /\ UNCHANGED <<ready, from, wait, seen, driverVars, peerVars, raw, hasEof, reopens>>
    BY <1>6 DEF WriteFails
  <2> QED
    BY <2>5, <2>6, <2>7, <2>8 DEF ForwardInv, TypeOK, PlaceInv
<1> QED
  BY <1>2, <1>3, <1>4, <1>5, <1>6

LEMMA ForwardInvNext == ForwardInv /\ [Next]_vars => ForwardInv'
<1> SUFFICES ASSUME ForwardInv, [Next]_vars PROVE ForwardInv'
  OBVIOUS
<1>1. CASE Select \/ SelectInterrupted \/ SelectEnds \/ Fails
  BY <1>1, SMTT(30) DEF Select, SelectInterrupted, SelectEnds, Fails, ForwardInv, TypeOK, PlaceInv
<1>2. CASE Serve
  <2>1. CASE ready = {} /\ pc' = "select" /\ UNCHANGED <<ready, readVars>>
    BY <1>2, <2>1 DEF Serve, ForwardInv, TypeOK, PlaceInv
  <2>2. ASSUME NEW d \in ready, ready' = Unserved(d), from' = d, buffer' = <<>>, wait' = 0,
               seen' = 0, pc' = "read"
        PROVE  ForwardInv'
    <3>1. <<>> \in Seq(Nat) /\ Len(<<>>) = 0
      OBVIOUS
    <3>2. buffer' \in Seq(Nat) /\ (raw => Len(buffer') <= BufferSize)
      BY <2>2, <3>1, ForwardAssumption
    <3>3. from' \in Drivers /\ ready' \subseteq Drivers
      BY <2>2 DEF Unserved, ForwardInv, TypeOK
    <3>4. UNCHANGED <<driverVars, peerVars, runVars>>
      BY <1>2 DEF Serve
    <3> QED
      BY <2>2, <3>2, <3>3, <3>4 DEF ForwardInv, TypeOK, PlaceInv
  <2> QED
    BY <1>2, <2>1, <2>2 DEF Serve
<1>3. CASE ReadEnd
  <2>1. /\ AtItsEnd /\ eof' = [eof EXCEPT ![from] = from \in hasEof]
        /\ seen' = wait /\ accepted' = accepted \cup {from}
        /\ UNCHANGED <<pc, ready, from, buffer, wait, left, wire, peerVars, runVars>>
    BY <1>3 DEF ReadEnd
  <2>2. left[from] = <<>> /\ wire[from] = <<>> /\ from \in closed
    BY <2>1 DEF AtItsEnd
  <2>3. eof' \in [Drivers -> BOOLEAN] /\ \A d \in Drivers : eof'[d] => eof[d] \/ d = from
    BY <2>1 DEF ForwardInv, TypeOK
  <2>4. TypeOK'
    BY <2>1, <2>3 DEF ForwardInv, TypeOK
  <2>5. PlaceInv'
    BY <2>1, <2>2, <2>3 DEF ForwardInv, PlaceInv
  <2> QED
    BY <2>4, <2>5 DEF ForwardInv
<1>4. CASE RawReturn \/ ReadInterrupted
  BY <1>4 DEF RawReturn, ReadInterrupted, AfterRead, ForwardInv, TypeOK, PlaceInv
<1>5. CASE PacketTimeout
  BY <1>5 DEF PacketTimeout, AfterRead, ForwardInv, TypeOK, PlaceInv
<1>6. CASE Tick
  BY <1>6 DEF Tick, ForwardInv, TypeOK, PlaceInv
<1>7. ASSUME NEW d \in Drivers, PeerSends(d) PROVE ForwardInv'
  <2>1. /\ d \notin closed /\ sent' = [sent EXCEPT ![d] = @ + 1]
        /\ wire' = [wire EXCEPT ![d] = Append(@, sent[d] + 1)]
        /\ UNCHANGED <<pc, ready, readVars, eof, left, accepted, closed, runVars>>
    BY <1>7 DEF PeerSends
  <2>2. Append(wire[d], sent[d] + 1) \in Seq(Nat)
    <3> DEFINE w == wire[d]
    <3>1. w \in Seq(Nat) /\ sent[d] + 1 \in Nat
      BY DEF ForwardInv, TypeOK
    <3> HIDE DEF w
    <3>2. Append(w, sent[d] + 1) \in Seq(Nat)
      BY <3>1, AppendProperties
    <3> QED
      BY <3>2 DEF w
  <2>3. wire' \in [Drivers -> Seq(Nat)] /\ sent' \in [Drivers -> Nat]
    BY <2>1, <2>2 DEF ForwardInv, TypeOK
  <2>4. TypeOK'
    BY <2>1, <2>3 DEF ForwardInv, TypeOK
  <2>5. PlaceInv'
    BY <2>1 DEF ForwardInv, TypeOK, PlaceInv
  <2> QED
    BY <2>4, <2>5 DEF ForwardInv
<1>8. ASSUME NEW d \in Drivers, PeerCloses(d) PROVE ForwardInv'
  BY <1>8 DEF PeerCloses, ForwardInv, TypeOK, PlaceInv
<1>9. ASSUME NEW dropped \in SUBSET Drivers, Reopen(dropped) PROVE ForwardInv'
  <2>1. <<>> \in Seq(Nat)
    OBVIOUS
  <2>2. left' \in [Drivers -> Seq(Nat)] /\ wire' \in [Drivers -> Seq(Nat)]
        /\ \A d \in Drivers : left'[d] = <<>>
    BY <1>9, <2>1 DEF Reopen, ForwardInv, TypeOK
  <2>3. eof' \in [Drivers -> BOOLEAN] /\ \A d \in Drivers : ~eof'[d]
    BY <1>9 DEF Reopen
  <2>4. reopens' \in 0 .. MaxReopens /\ accepted' \subseteq Drivers /\ closed' \subseteq Drivers
    BY <1>9, ForwardAssumption DEF Reopen, ForwardInv, TypeOK
  <2>5. pc = "returned" /\ pc' = "select" /\ UNCHANGED <<ready, readVars, sent, raw, hasEof, out>>
    BY <1>9 DEF Reopen
  <2>6. TypeOK'
    BY <2>2, <2>3, <2>4, <2>5 DEF ForwardInv, TypeOK
  <2>7. PlaceInv'
    BY <2>2, <2>3, <2>5 DEF ForwardInv, PlaceInv
  <2> QED
    BY <2>6, <2>7 DEF ForwardInv
<1>10. CASE UNCHANGED vars
  BY <1>10 DEF vars, ForwardInv, TypeOK, PlaceInv
<1> QED
  BY <1>1, <1>2, <1>3, <1>4, <1>5, <1>6, <1>7, <1>8, <1>9, <1>10, ForwardInvMove
  DEF Next, Step, Failures, Peers

LEMMA ForwardInvariant == Spec => []ForwardInv
BY ForwardInvInit, ForwardInvNext, PTL DEF Spec

\* Every state of forward() has its types; in raw mode no more than buffer_size bytes
\* are ever under way between a read and its write.
THEOREM TypeCorrect == Spec => []TypeOK
<1>1. ForwardInv => TypeOK
  BY DEF ForwardInv
<1> QED
  BY ForwardInvariant, <1>1, PTL

-----------------------------------------------------------------------------
(* The refinement: what is under way on a channel.                         *)

Channel == [d \in Drivers |-> Under(d)]
Got == [d \in Drivers |-> out[Other(d)]]
Phase == CASE pc = "returned" -> "returned" [] pc = "thrown" -> "failed" [] OTHER -> "running"

\* The part of a channel that forward() holds, and the part behind it.
Held(d) == IF from = d THEN buffer ELSE <<>>
Behind(d) == left[d] \o wire[d]

LEMMA UnderProperties ==
  ASSUME ForwardInv, NEW d \in Drivers
  PROVE  /\ left[d] \in Seq(Nat) /\ wire[d] \in Seq(Nat)
         /\ Held(d) \in Seq(Nat) /\ Behind(d) \in Seq(Nat)
         /\ Under(d) \in Seq(Nat) /\ Under(d) = Held(d) \o Behind(d)
<1> DEFINE l == left[d]
           w == wire[d]
           h == Held(d)
<1>1. l \in Seq(Nat) /\ w \in Seq(Nat)
  BY DEF ForwardInv, TypeOK
<1>2. h \in Seq(Nat)
  <2>1. buffer \in Seq(Nat) /\ <<>> \in Seq(Nat)
    BY DEF ForwardInv, TypeOK
  <2> QED
    BY <2>1 DEF Held
<1>3. Under(d) = (h \o l) \o w
  BY DEF Under, Held
<1> HIDE DEF l, w, h
<1>4. l \o w \in Seq(Nat)
  BY <1>1, ConcatProperties
<1>5. (h \o l) \o w = h \o (l \o w)
  BY <1>1, <1>2, ConcatAssociative, SMTT(30)
<1>6. h \o (l \o w) \in Seq(Nat)
  <2> DEFINE b == l \o w
  <2>1. b \in Seq(Nat)
    BY <1>4
  <2> HIDE DEF b
  <2>2. h \o b \in Seq(Nat)
    BY <1>2, <2>1, ConcatProperties
  <2> QED
    BY <2>2 DEF b
<1>7. l \in Seq(Nat) /\ w \in Seq(Nat) /\ h \in Seq(Nat) /\ l \o w \in Seq(Nat)
      /\ Under(d) \in Seq(Nat) /\ Under(d) = h \o (l \o w)
  BY <1>1, <1>2, <1>3, <1>4, <1>5, <1>6, Zenon
<1> QED
  BY <1>7 DEF l, w, h, Behind

\* Nobody outside notices when items only change places within forward().
LEMMA SameChannels ==
  ASSUME \A d \in Drivers : Under(d)' = Under(d), out' = out
  PROVE  Channel' = Channel /\ Got' = Got
BY DEF Channel, Got

LEMMA UnderUnchanged ==
  ASSUME NEW d, from' = from, buffer' = buffer, left'[d] = left[d], wire'[d] = wire[d]
  PROVE  Under(d)' = Under(d)
BY DEF Under

\* Serving a driver begins with an empty buffer.
LEMMA ServeStutters ==
  ASSUME ForwardInv, Serve
  PROVE  \A d \in Drivers : Under(d)' = Under(d)
<1>1. buffer = <<>> /\ buffer' = <<>> /\ left' = left /\ wire' = wire
  BY DEF Serve, ForwardInv, PlaceInv
<1> QED
  BY <1>1 DEF Under

\* Reads only move items from the descriptor and the internal buffer to `buffer'.
LEMMA RawReadStutters ==
  ASSUME ForwardInv, RawRead
  PROVE  \A d \in Drivers : Under(d)' = Under(d)
<1> SUFFICES ASSUME NEW d \in Drivers PROVE Under(d)' = Under(d)
  OBVIOUS
<1> DEFINE n == Min2(Room, Len(wire[from]))
<1>1. /\ raw /\ buffer' = buffer \o Chunk(n) /\ from' = from /\ left' = left
      /\ wire' = [wire EXCEPT ![from] = DropFirst(@, n)]
      /\ Len(buffer) < BufferSize /\ wire[from] # <<>>
  BY DEF RawRead
<1>2. n \in 1 .. Len(wire[from])
  BY <1>1, RoomProperties DEF ForwardInv
<1> HIDE DEF n
<1>3. wire \in [Drivers -> Seq(Nat)] /\ from \in Drivers /\ buffer \in Seq(Nat)
  BY DEF ForwardInv, TypeOK
<1>4. CASE d # from
  <2>1. wire'[d] = wire[d]
    BY <1>1, <1>3, <1>4
  <2> QED
    BY <1>1, <1>4, <2>1 DEF Under
<1>5. CASE d = from
  <2> DEFINE w == wire[from]
             c == Chunk(n)
             r == DropFirst(w, n)
  <2>1. left[d] = <<>> /\ left'[d] = <<>>
    BY <1>1 DEF ForwardInv, PlaceInv
  <2>2. wire'[d] = r
    BY <1>1, <1>3, <1>5
  <2>3. w \in Seq(Nat) /\ n \in 0 .. Len(w)
    BY <1>2, <1>3
  <2>4. /\ c \in Seq(Nat) /\ buffer \o c \in Seq(Nat)
        /\ (buffer \o c) \o r = buffer \o w
    <3> HIDE DEF w
    <3>1. /\ SubSeq(w, 1, n) \in Seq(Nat) /\ buffer \o SubSeq(w, 1, n) \in Seq(Nat)
          /\ (buffer \o SubSeq(w, 1, n)) \o DropFirst(w, n) = buffer \o w
      BY <1>3, <2>3, MoveProperties, SplitProperties
    <3> QED
      BY <3>1 DEF Chunk, w
  <2>5. Under(d) = (buffer \o <<>>) \o w
    BY <1>5, <2>1, Zenon DEF Under
  <2>6. Under(d)' = ((buffer \o c) \o <<>>) \o r
    BY <1>1, <1>5, <2>1, <2>2, Zenon DEF Under
  <2>7. buffer \o <<>> = buffer
    BY <1>3, ConcatEmptySeq
  <2>8. (buffer \o c) \o <<>> = buffer \o c
    <3> DEFINE b == buffer \o c
    <3>1. b \in Seq(Nat)
      BY <2>4
    <3> HIDE DEF b
    <3>2. b \o <<>> = b
      BY <3>1, ConcatEmptySeq
    <3> QED
      BY <3>2 DEF b
  <2> HIDE DEF w, c, r
  <2> QED
    BY <2>4, <2>5, <2>6, <2>7, <2>8, Zenon
<1> QED
  BY <1>4, <1>5

LEMMA PacketFromBufferStutters ==
  ASSUME ForwardInv, PacketFromBuffer
  PROVE  \A d \in Drivers : Under(d)' = Under(d)
<1> SUFFICES ASSUME NEW d \in Drivers PROVE Under(d)' = Under(d)
  OBVIOUS
<1>1. /\ buffer = <<>> /\ from' = from /\ wire' = wire
      /\ left[from] # <<>>
      /\ buffer' = <<Head(left[from])>> /\ left' = [left EXCEPT ![from] = Tail(@)]
  BY DEF PacketFromBuffer, ForwardInv, PlaceInv
<1>2. left \in [Drivers -> Seq(Nat)] /\ from \in Drivers
  BY DEF ForwardInv, TypeOK
<1>3. CASE d # from
  <2>1. left'[d] = left[d]
    BY <1>1, <1>2, <1>3
  <2> QED
    BY <1>1, <1>3, <2>1 DEF Under
<1>4. CASE d = from
  <2> DEFINE l == left[from]
  <2>1. l \in Seq(Nat) /\ l # <<>>
    BY <1>1, <1>2
  <2>2. left'[d] = Tail(l)
    BY <1>1, <1>2, <1>4
  <2>3. Under(d) = (<<>> \o l) \o wire[d]
    BY <1>1, <1>4, Zenon DEF Under
  <2>4. Under(d)' = (<<Head(l)>> \o Tail(l)) \o wire[d]
    BY <1>1, <1>4, <2>2, Zenon DEF Under
  <2> HIDE DEF l
  <2>5. <<>> \o l = l
    BY <2>1, ConcatEmptySeq
  <2>6. <<Head(l)>> \o Tail(l) = l
    <3>1. /\ Head(l) \in Nat /\ Tail(l) \in Seq(Nat) /\ Len(Tail(l)) = Len(l) - 1
          /\ \A i \in 1 .. Len(Tail(l)) : Tail(l)[i] = l[i + 1]
      BY <2>1, HeadTailProperties
    <3>2. Len(l) \in Nat \ {0} /\ Head(l) = l[1]
      BY <2>1, EmptySeq
    <3> DEFINE h == <<Head(l)>>
               r == Tail(l)
               x == h \o r
    <3>3. h \in Seq(Nat) /\ Len(h) = 1 /\ h[1] = l[1]
      BY <3>1, <3>2
    <3>4. r \in Seq(Nat) /\ Len(r) = Len(l) - 1 /\ \A i \in 1 .. Len(r) : r[i] = l[i + 1]
      BY <3>1
    <3> HIDE DEF h, r
    <3>5. /\ x \in Seq(Nat) /\ Len(x) = 1 + Len(r)
          /\ \A i \in 1 .. 1 + Len(r) : x[i] = IF i <= 1 THEN h[i] ELSE r[i - 1]
      <4>1. h \in Seq(Nat) /\ r \in Seq(Nat)
        BY <3>3, <3>4
      <4>2. /\ x \in Seq(Nat) /\ Len(x) = Len(h) + Len(r)
            /\ \A i \in 1 .. Len(h) + Len(r) :
                 x[i] = IF i <= Len(h) THEN h[i] ELSE r[i - Len(h)]
        BY <4>1, ConcatProperties
      <4> HIDE DEF x
      <4> QED
        BY <3>3, <4>2
    <3> HIDE DEF x
    <3>6. ASSUME NEW i \in 1 .. Len(x) PROVE x[i] = l[i]
      <4>1. CASE i = 1
        BY <3>2, <3>3, <3>4, <3>5, <4>1
      <4>2. CASE i # 1
        <5>1. i - 1 \in 1 .. Len(r) /\ i \in 1 .. 1 + Len(r) /\ ~(i <= 1) /\ i - 1 + 1 = i
          BY <3>2, <3>4, <3>5, <4>2
        <5> QED
          BY <3>4, <3>5, <5>1
      <4> QED
        BY <4>1, <4>2
    <3>7. Len(x) = Len(l)
      BY <3>2, <3>4, <3>5
    <3>8. x = l
      BY <2>1, <3>5, <3>6, <3>7, SeqEqual
    <3> QED
      BY <3>8 DEF x, h, r
  <2> QED
    BY <2>3, <2>4, <2>5, <2>6, Zenon
<1> QED
  BY <1>3, <1>4

LEMMA PacketFromStreamStutters ==
  ASSUME ForwardInv, PacketFromStream
  PROVE  \A d \in Drivers : Under(d)' = Under(d)
<1> SUFFICES ASSUME NEW d \in Drivers PROVE Under(d)' = Under(d)
  OBVIOUS
<1>1. buffer = <<>> /\ from' = from /\ left[from] = <<>>
  BY DEF PacketFromStream, ForwardInv, PlaceInv
<1>2. PICK n \in 1 .. Len(wire[from]) :
        /\ buffer' = Chunk(1)
        /\ left' = [left EXCEPT ![from] = DropFirst(Chunk(n), 1)]
        /\ wire' = [wire EXCEPT ![from] = DropFirst(@, n)]
  BY DEF PacketFromStream
<1>3. left \in [Drivers -> Seq(Nat)] /\ wire \in [Drivers -> Seq(Nat)] /\ from \in Drivers
  BY DEF ForwardInv, TypeOK
<1>4. CASE d # from
  <2>1. left'[d] = left[d] /\ wire'[d] = wire[d]
    BY <1>2, <1>3, <1>4
  <2> QED
    BY <1>1, <1>4, <2>1 DEF Under
<1>5. CASE d = from
  <2> DEFINE w == wire[from]
             a == SubSeq(w, 1, 1)
             c == SubSeq(w, 1, n)
             r == DropFirst(c, 1)
             v == DropFirst(w, n)
  <2>1. w \in Seq(Nat) /\ Len(w) \in Nat /\ n \in 0 .. Len(w) /\ 1 \in 0 .. Len(w) /\ 1 \in 0 .. n
    <3>1. w \in Seq(Nat)
      BY <1>3
    <3>2. Len(w) \in Nat
      BY <3>1, LenProperties
    <3> QED
      BY <3>1, <3>2
  <2>2. left'[d] = r /\ wire'[d] = v /\ buffer' = a
    BY <1>2, <1>3, <1>5 DEF Chunk
  <2>3. Under(d) = (<<>> \o <<>>) \o w
    BY <1>1, <1>5, Zenon DEF Under
  <2>4. Under(d)' = (a \o r) \o v
    BY <1>1, <1>5, <2>2, Zenon DEF Under
  <2> HIDE DEF w
  <2>5. c \in Seq(Nat) /\ Len(c) = n /\ v \in Seq(Nat) /\ c \o v = w
    BY <2>1, SplitProperties
  <2>6. a = SubSeq(c, 1, 1)
    <3> HIDE DEF c, v
    <3>1. 1 \in 0 .. Len(c)
      BY <2>1, <2>5
    <3>2. SubSeq(c \o v, 1, 1) = SubSeq(c, 1, 1)
      BY <2>5, <3>1, TakeFromFront
    <3> QED
      BY <2>5, <3>2
  <2>7. SubSeq(c, 1, 1) \o r = c
    <3>1. 1 \in 0 .. Len(c) /\ c \in Seq(Nat)
      BY <2>1, <2>5
    <3> HIDE DEF c
    <3> QED
      BY <3>1, SplitProperties
  <2>8. (<<>> \o <<>>) \o w = w
    <3>1. <<>> \o <<>> = <<>>
      OBVIOUS
    <3>2. <<>> \o w = w
      BY <2>1, ConcatEmptySeq
    <3> QED
      BY <3>1, <3>2, Zenon
  <2> HIDE DEF a, c, r, v
  <2> QED
    BY <2>3, <2>4, <2>5, <2>6, <2>7, <2>8, Zenon
<1> QED
  BY <1>4, <1>5

\* What is written is the front of its channel.
LEMMA MoveOnChannel ==
  ASSUME ForwardInv, NEW n \in 0 .. Len(buffer),
         buffer' = DropFirst(buffer, n), from' = from, left' = left, wire' = wire,
         out' = [out EXCEPT ![Other(from)] = @ \o SubSeq(buffer, 1, n)]
  PROVE  /\ from \in Drivers /\ n \in 0 .. Len(Channel[from])
         /\ Channel' = [Channel EXCEPT ![from] = SubSeq(@, n + 1, Len(@))]
         /\ Got' = [Got EXCEPT ![from] = @ \o SubSeq(Channel[from], 1, n)]
<1> DEFINE b == Behind(from)
           u == Under(from)
<1>1. /\ from \in Drivers /\ Other(from) \in Drivers /\ buffer \in Seq(Nat)
      /\ out \in [Drivers -> Seq(Nat)]
  BY DEF ForwardInv, TypeOK, Drivers, Other
<1>2. u \in Seq(Nat) /\ b \in Seq(Nat) /\ u = buffer \o b
  <2>1. /\ Behind(from) \in Seq(Nat) /\ Under(from) \in Seq(Nat)
        /\ Under(from) = Held(from) \o Behind(from)
    BY <1>1, UnderProperties
  <2>2. Held(from) = buffer
    BY DEF Held
  <2> QED
    BY <2>1, <2>2, Zenon
<1> HIDE DEF b, u
<1>3. /\ SubSeq(u, 1, n) = SubSeq(buffer, 1, n)
      /\ DropFirst(u, n) = DropFirst(buffer, n) \o b
      /\ Len(buffer) <= Len(u)
  <2>1. /\ SubSeq(buffer \o b, 1, n) = SubSeq(buffer, 1, n)
        /\ DropFirst(buffer \o b, n) = DropFirst(buffer, n) \o b
        /\ Len(buffer) <= Len(buffer \o b)
    BY <1>1, <1>2, TakeFromFront
  <2> QED
    BY <1>2, <2>1, Zenon
<1>4. n \in 0 .. Len(u)
  <2>1. Len(buffer) \in Nat /\ Len(u) \in Nat
    BY <1>1, <1>2, LenProperties
  <2> QED
    BY <1>3, <2>1
<1>5. Under(from)' = DropFirst(u, n)
  <2> DEFINE x == DropFirst(buffer, n)
             l == left[from]
             w == wire[from]
  <2>1. Under(from)' = (x \o l) \o w
    BY Zenon DEF Under
  <2>2. x \in Seq(Nat) /\ l \in Seq(Nat) /\ w \in Seq(Nat)
    BY <1>1, SplitProperties DEF ForwardInv, TypeOK
  <2>3. b = l \o w
    BY DEF b, Behind
  <2> HIDE DEF x, l, w
  <2>4. (x \o l) \o w = x \o (l \o w)
    BY <2>2, ConcatAssociative, SMTT(30)
  <2>5. Under(from)' = x \o b
    BY <2>1, <2>3, <2>4, Zenon
  <2> QED
    BY <1>3, <2>5, Zenon DEF x
<1>6. \A d \in Drivers : d # from => Under(d)' = Under(d)
  BY DEF Under
<1>7. Channel' = [Channel EXCEPT ![from] = SubSeq(@, n + 1, Len(@))]
  <2>1. Channel[from] = u
    BY <1>1 DEF Channel, u
  <2>2. SubSeq(u, n + 1, Len(u)) = Under(from)'
    BY <1>5 DEF DropFirst
  <2>3. [Channel EXCEPT ![from] = SubSeq(@, n + 1, Len(@))]
          = [d \in Drivers |-> IF d = from THEN SubSeq(u, n + 1, Len(u)) ELSE Channel[d]]
    BY <1>1, <2>1 DEF Channel
  <2>4. \A d \in Drivers : d # from => Channel[d] = Under(d)'
    BY <1>6 DEF Channel
  <2>5. Channel' = [d \in Drivers |-> Under(d)']
    BY DEF Channel
  <2>6. \A d \in Drivers :
          (IF d = from THEN SubSeq(u, n + 1, Len(u)) ELSE Channel[d]) = Under(d)'
    BY <2>2, <2>4
  <2> QED
    BY <2>3, <2>5, <2>6, Zenon
<1>8. Got' = [Got EXCEPT ![from] = @ \o SubSeq(Channel[from], 1, n)]
  <2> DEFINE c == SubSeq(buffer, 1, n)
  <2>1. SubSeq(Channel[from], 1, n) = c
    BY <1>1, <1>3 DEF Channel, u
  <2>2. out' = [out EXCEPT ![Other(from)] = @ \o c]
    OBVIOUS
  <2> HIDE DEF c
  <2>3. \A d \in Drivers : /\ Other(d) \in Drivers
                           /\ Other(d) = Other(from) <=> d = from
    BY <1>1 DEF Drivers, Other
  <2>4. \A d \in Drivers : out'[Other(d)] =
                             IF d = from THEN out[Other(d)] \o c ELSE out[Other(d)]
    BY <1>1, <2>2, <2>3
  <2>5. [Got EXCEPT ![from] = @ \o c]
          = [d \in Drivers |-> IF d = from THEN out[Other(d)] \o c ELSE out[Other(d)]]
    BY <1>1 DEF Got
  <2>6. Got' = [d \in Drivers |-> out'[Other(d)]]
    BY DEF Got
  <2>7. Got' = [Got EXCEPT ![from] = @ \o c]
    BY <2>4, <2>5, <2>6, Zenon
  <2> QED
    BY <2>1, <2>7, Zenon
<1>9. Channel[from] = u
  BY <1>1 DEF Channel, u
<1> QED
  BY <1>1, <1>4, <1>7, <1>8, <1>9, Zenon

\* A step that moves nothing from or to a channel is none of the abstract one's.
LEMMA Unseen ==
  ASSUME \A d \in Drivers : Under(d)' = Under(d), out' = out,
         UNCHANGED <<sent, closed>>, Phase' = Phase
  PROVE  UNCHANGED <<sent, closed, Channel, Got, Phase>>
BY SameChannels

\* The steps of forward(): its loop, reads and writes.
LEMMA ForwardStep ==
  ASSUME ForwardInv, Step \/ SelectInterrupted \/ ReadInterrupted \/ Failures \/ Tick
  PROVE  [Ch!Next]_<<sent, closed, Channel, Got, Phase>>
<1>1. CASE Select \/ SelectInterrupted \/ RawReturn \/ ReadInterrupted \/ ReadEnd \/ Tick
  <2>1. /\ UNCHANGED <<from, buffer, left, wire, out, sent, closed>>
        /\ pc \in {"select", "read"} /\ pc' \in {"serve", "read", "write"}
    BY <1>1
    DEF Select, SelectInterrupted, RawReturn, ReadInterrupted, ReadEnd, AtItsEnd, Tick, AfterRead
  <2>2. Phase' = Phase
    BY <2>1 DEF Phase
  <2>3. \A d \in Drivers : Under(d)' = Under(d)
    BY <2>1 DEF Under
  <2> QED
    BY <2>1, <2>2, <2>3, Unseen
<1>2. CASE Serve
  <2>1. UNCHANGED <<out, sent, closed>> /\ pc = "serve" /\ pc' \in {"select", "read"}
    BY <1>2 DEF Serve
  <2>2. Phase' = Phase
    BY <2>1 DEF Phase
  <2> QED
    BY <1>2, <2>1, <2>2, ServeStutters, Unseen
<1>3. CASE RawRead \/ PacketFromBuffer \/ PacketFromStream
  <2>1. UNCHANGED <<out, sent, closed>> /\ pc = "read" /\ pc' \in {"read", "serve", "write"}
    BY <1>3 DEF RawRead, PacketFromBuffer, PacketFromStream, AfterRead
  <2>2. Phase' = Phase
    BY <2>1 DEF Phase
  <2>3. \A d \in Drivers : Under(d)' = Under(d)
    BY <1>3, RawReadStutters, PacketFromBufferStutters, PacketFromStreamStutters
  <2> QED
    BY <2>1, <2>2, <2>3, Unseen
<1>4. CASE PacketTimeout
  <2>1. /\ UNCHANGED <<from, left, wire, out, sent, closed>> /\ buffer' = buffer
        /\ pc = "read" /\ pc' = "serve"
    BY <1>4 DEF PacketTimeout, AfterRead, ForwardInv, PlaceInv
  <2>2. Phase' = Phase
    BY <2>1 DEF Phase
  <2>3. \A d \in Drivers : Under(d)' = Under(d)
    BY <2>1 DEF Under
  <2> QED
    BY <2>1, <2>2, <2>3, Unseen
<1>5. CASE SelectEnds
  <2>1. /\ UNCHANGED <<from, buffer, left, wire, out, sent, closed>>
        /\ pc = "select" /\ pc' = "returned" /\ AtEnd
    BY <1>5 DEF SelectEnds
  <2>2. Phase = "running" /\ Phase' = "returned"
    BY <2>1 DEF Phase
  <2>3. Channel' = Channel /\ Got' = Got
    <3>1. \A d \in Drivers : Under(d)' = Under(d)
      BY <2>1 DEF Under
    <3> QED
      BY <2>1, <3>1, SameChannels
  <2>4. PICK d \in Drivers : eof[d]
    BY <2>1 DEF AtEnd
  <2>5. d \in closed /\ left[d] = <<>> /\ wire[d] = <<>> /\ buffer = <<>>
    BY <2>1, <2>4 DEF ForwardInv, PlaceInv
  <2>6. Under(d) = <<>>
    <3>1. <<>> \o <<>> = <<>>
      OBVIOUS
    <3> QED
      BY <2>5, <3>1 DEF Under
  <2>7. Channel[d] = <<>>
    BY <2>6 DEF Channel
  <2>8. Ch!Return
    BY <2>1, <2>2, <2>3, <2>5, <2>7 DEF Ch!Return, Channel, Got, Phase
  <2> QED
    BY <2>8 DEF Ch!Next
<1>6. CASE Write
  <2> DEFINE n == Len(buffer)
  <2>1. buffer \in Seq(Nat) /\ n \in 1 .. n /\ n \in 0 .. n
    <3>1. buffer \in Seq(Nat) /\ buffer # <<>>
      BY <1>6 DEF Write, ForwardInv, TypeOK, PlaceInv
    <3> QED
      BY <3>1, EmptySeq, LenProperties
  <2>2. SubSeq(buffer, 1, n) = buffer /\ DropFirst(buffer, n) = <<>>
    <3>1. SubSeq(buffer, 1, n) = buffer
      BY <2>1, SubSeqFull
    <3>2. DropFirst(buffer, n) \in Seq(Nat) /\ Len(DropFirst(buffer, n)) = n - n
      BY <2>1, SplitProperties
    <3> DEFINE e == DropFirst(buffer, n)
    <3>3. e \in Seq(Nat) /\ Len(e) = 0
      BY <2>1, <3>2
    <3> HIDE DEF e
    <3>4. e = <<>>
      BY <3>3, EmptySeq
    <3> QED
      BY <3>1, <3>4 DEF e
  <2>3. /\ UNCHANGED <<from, left, wire, sent, closed>>
        /\ pc = "write" /\ pc' = "serve"
        /\ buffer' = DropFirst(buffer, n)
        /\ out' = [out EXCEPT ![Other(from)] = @ \o SubSeq(buffer, 1, n)]
    BY <1>6, <2>2 DEF Write
  <2>4. /\ from \in Drivers /\ n \in 0 .. Len(Channel[from])
        /\ Channel' = [Channel EXCEPT ![from] = SubSeq(@, n + 1, Len(@))]
        /\ Got' = [Got EXCEPT ![from] = @ \o SubSeq(Channel[from], 1, n)]
    BY <2>1, <2>3, MoveOnChannel
  <2> HIDE DEF n
  <2>5. Phase = "running" /\ Phase' = Phase
    BY <2>3 DEF Phase
  <2>6. n \in 1 .. Len(Channel[from])
    BY <2>1, <2>4
  <2>7. Ch!Deliver(from)
    BY <2>3, <2>4, <2>5, <2>6 DEF Ch!Deliver, Ch!Move, Channel, Got, Phase
  <2> QED
    BY <2>4, <2>7 DEF Ch!Next, Ch!Ends, Drivers
<1>7. CASE WriteFails
  <2>1. PICK n \in 0 .. Len(buffer) - 1 :
          /\ out' = [out EXCEPT ![Other(from)] = @ \o SubSeq(buffer, 1, n)]
          /\ buffer' = DropFirst(buffer, n)
    BY <1>7 DEF WriteFails
  <2>2. /\ UNCHANGED <<from, left, wire, sent, closed>>
        /\ pc = "write" /\ pc' = "thrown"
    BY <1>7 DEF WriteFails
  <2>3. n \in 0 .. Len(buffer)
    <3>1. Len(buffer) \in Nat
      BY LenProperties DEF ForwardInv, TypeOK
    <3> QED
      BY <3>1
  <2>4. /\ from \in Drivers /\ n \in 0 .. Len(Channel[from])
        /\ Channel' = [Channel EXCEPT ![from] = SubSeq(@, n + 1, Len(@))]
        /\ Got' = [Got EXCEPT ![from] = @ \o SubSeq(Channel[from], 1, n)]
    BY <2>1, <2>2, <2>3, MoveOnChannel
  <2>5. Phase # "failed" /\ Phase' = "failed"
    BY <2>2 DEF Phase
  <2>6. Ch!Fail(from)
    BY <2>2, <2>4, <2>5 DEF Ch!Fail, Ch!Move, Channel, Got, Phase
  <2> QED
    BY <2>4, <2>6 DEF Ch!Next, Ch!Ends, Drivers
<1>8. CASE Fails
  <2>1. /\ UNCHANGED <<from, buffer, left, wire, out, sent, closed>>
        /\ pc \in {"select", "read", "returned"} /\ pc' = "thrown"
    BY <1>8 DEF Fails
  <2>2. Channel' = Channel /\ Got' = Got
    <3>1. \A d \in Drivers : Under(d)' = Under(d)
      BY <2>1 DEF Under
    <3> QED
      BY <2>1, <3>1, SameChannels
  <2>3. Phase # "failed" /\ Phase' = "failed"
    BY <2>1 DEF Phase
  <2>4. 1 \in Drivers
    BY DEF Drivers
  <2> DEFINE c == Channel[1]
             g == Got[1]
  <2>5. c \in Seq(Nat) /\ g \in Seq(Nat) /\ Other(1) \in Drivers
    <3>1. Other(1) \in Drivers
      BY DEF Other, Drivers
    <3>2. Under(1) \in Seq(Nat)
      BY <2>4, UnderProperties
    <3>3. out[Other(1)] \in Seq(Nat)
      BY <3>1 DEF ForwardInv, TypeOK
    <3> QED
      BY <2>4, <3>1, <3>2, <3>3 DEF Channel, Got
  <2>6. 0 \in 0 .. Len(c) /\ g \o SubSeq(c, 1, 0) = g /\ SubSeq(c, 0 + 1, Len(c)) = c
    <3> HIDE DEF c, g
    <3>1. Len(c) \in Nat
      BY <2>5, LenProperties
    <3>2. SubSeq(c, 1, 0) = <<>>
      <4>1. SubSeq(c, 1, 0) \in Seq(Nat) /\ Len(SubSeq(c, 1, 0)) = 0
        BY <2>5, <3>1, SplitProperties
      <4> DEFINE e == SubSeq(c, 1, 0)
      <4> HIDE DEF e
      <4>2. e \in Seq(Nat) /\ Len(e) = 0
        BY <4>1 DEF e
      <4>3. e = <<>>
        BY <4>2, EmptySeq
      <4> QED
        BY <4>3 DEF e
    <3>3. g \o <<>> = g
      BY <2>5, ConcatEmptySeq
    <3>4. SubSeq(c, 1, Len(c)) = c
      BY <2>5, SubSeqFull
    <3>5. 0 + 1 = 1
      OBVIOUS
    <3>6. 0 \in 0 .. Len(c)
      BY <3>1
    <3> QED
      BY <3>2, <3>3, <3>4, <3>5, <3>6, Zenon
  <2>7. /\ Channel' = [Channel EXCEPT ![1] = SubSeq(@, 0 + 1, Len(@))]
        /\ Got' = [Got EXCEPT ![1] = @ \o SubSeq(Channel[1], 1, 0)]
    <3>1. /\ [Channel EXCEPT ![1] = SubSeq(c, 0 + 1, Len(c))] = Channel
          /\ [Got EXCEPT ![1] = g \o SubSeq(c, 1, 0)] = Got
      BY <2>6 DEF Channel, Got
    <3> QED
      BY <2>2, <3>1
  <2>8. Ch!Fail(1)
    BY <2>1, <2>3, <2>6, <2>7 DEF Ch!Fail, Ch!Move, Channel, Got, Phase
  <2> QED
    BY <2>4, <2>8 DEF Ch!Next, Ch!Ends, Drivers
<1> QED
  BY <1>1, <1>2, <1>3, <1>4, <1>5, <1>6, <1>7, <1>8 DEF Step, Failures

\* The peers, and the forwarder that opens its drivers again.
LEMMA PeerStep ==
  ASSUME ForwardInv, NEW d \in Drivers, PeerSends(d) \/ PeerCloses(d)
  PROVE  Ch!Next
<1>1. /\ UNCHANGED <<from, buffer, left, out>> /\ Phase' = Phase /\ Got' = Got
  BY DEF PeerSends, PeerCloses, Phase, Got
<1>2. CASE PeerCloses(d)
  <2>1. wire' = wire /\ sent' = sent /\ closed' = closed \cup {d}
    BY <1>2 DEF PeerCloses
  <2>2. \A e \in Drivers : Under(e)' = Under(e)
    BY <1>1, <2>1 DEF Under
  <2>3. Channel' = Channel
    BY <1>1, <2>2, SameChannels
  <2>4. Ch!Close(d)
    BY <1>1, <2>1, <2>3 DEF Ch!Close, Channel, Got, Phase
  <2> QED
    BY <2>4 DEF Ch!Next, Ch!Ends, Drivers
<1>3. CASE PeerSends(d)
  <2> DEFINE i == sent[d] + 1
             w == wire[d]
             u == Under(d)
             h == Held(d)
             l == left[d]
  <2>1. /\ d \notin closed /\ closed' = closed /\ sent' = [sent EXCEPT ![d] = @ + 1]
        /\ wire' = [wire EXCEPT ![d] = Append(@, i)]
    BY <1>3 DEF PeerSends
  <2>2. /\ wire \in [Drivers -> Seq(Nat)] /\ i \in Nat /\ sent'[d] = i
        /\ w \in Seq(Nat) /\ l \in Seq(Nat) /\ h \in Seq(Nat) /\ u \in Seq(Nat)
    <3>1. wire \in [Drivers -> Seq(Nat)] /\ sent \in [Drivers -> Nat]
      BY DEF ForwardInv, TypeOK
    <3>2. i \in Nat /\ sent'[d] = i
      BY <2>1, <3>1
    <3>3. w \in Seq(Nat) /\ l \in Seq(Nat) /\ h \in Seq(Nat) /\ u \in Seq(Nat)
      BY UnderProperties, Zenon
    <3> QED
      BY <3>1, <3>2, <3>3
  <2>3. wire'[d] = Append(w, i)
    BY <2>1, <2>2
  <2>4. u = (h \o l) \o w
    BY Zenon DEF Under, Held, u, h, l, w
  <2>5. Under(d)' = (h \o l) \o Append(w, i)
    BY <1>1, <2>3, Zenon DEF Under, Held
  <2> HIDE DEF i, w, u, h, l
  <2>6. (h \o l) \o Append(w, i) = Append(u, i)
    <3> DEFINE x == h \o l
               y == <<i>>
    <3>1. x \in Seq(Nat)
      BY <2>2, ConcatProperties
    <3>2. y \in Seq(Nat)
      BY <2>2
    <3> HIDE DEF x, y
    <3>3. Append(w, i) = w \o y
      BY <2>2, AppendIsConcat DEF y
    <3>4. Append(u, i) = u \o y
      BY <2>2, AppendIsConcat DEF y
    <3>5. (x \o w) \o y = x \o (w \o y)
      <4>1. w \in Seq(Nat)
        BY <2>2
      <4> QED
        BY <3>1, <3>2, <4>1, ConcatAssociative, SMTT(30)
    <3>6. u = x \o w
      BY <2>4 DEF x
    <3>7. x \o Append(w, i) = Append(u, i)
      BY <3>3, <3>4, <3>5, <3>6, Zenon
    <3> QED
      BY <3>7 DEF x
  <2>7. Under(d)' = Append(u, i)
    BY <2>5, <2>6
  <2>8. \A e \in Drivers : e # d => Under(e)' = Under(e)
    BY <1>1, <2>1, <2>2 DEF Under
  <2>9. Channel' = [Channel EXCEPT ![d] = Append(@, i)]
    <3>1. [Channel EXCEPT ![d] = Append(@, i)]
            = [e \in Drivers |-> IF e = d THEN Append(u, i) ELSE Under(e)]
      BY DEF Channel, u
    <3>2. Channel' = [e \in Drivers |-> Under(e)']
      BY DEF Channel
    <3>3. \A e \in Drivers : (IF e = d THEN Append(u, i) ELSE Under(e)) = Under(e)'
      BY <2>7, <2>8
    <3> QED
      BY <3>1, <3>2, <3>3, Zenon
  <2>10. Ch!Send(d)
    BY <1>1, <2>1, <2>2, <2>9 DEF Ch!Send, Channel, Got, Phase
  <2> QED
    BY <2>10 DEF Ch!Next, Ch!Ends, Drivers
<1> QED
  BY <1>2, <1>3

LEMMA ReopenStep ==
  ASSUME ForwardInv, NEW dropped \in SUBSET Drivers, Reopen(dropped)
  PROVE  Ch!Next
<1>1. /\ pc = "returned" /\ pc' = "select" /\ raw /\ closed' = {} /\ closed \subseteq dropped
      /\ UNCHANGED <<from, buffer, sent, out>>
      /\ left' = [d \in Drivers |-> <<>>]
      /\ wire' = [d \in Drivers |-> IF d \in dropped THEN <<>> ELSE wire[d]]
  BY DEF Reopen
<1>2. Phase = "returned" /\ Phase' = "running" /\ Got' = Got
  BY <1>1 DEF Phase, Got
<1>3. ASSUME NEW d \in Drivers
      PROVE  Under(d)' = IF d \in dropped THEN <<>> ELSE Under(d)
  <2>1. buffer = <<>> /\ left[d] = <<>> /\ left'[d] = <<>>
        /\ wire'[d] = IF d \in dropped THEN <<>> ELSE wire[d]
    BY <1>1 DEF ForwardInv, PlaceInv
  <2>2. <<>> \o <<>> = <<>>
    OBVIOUS
  <2> QED
    BY <1>1, <2>1, <2>2 DEF Under
<1>4. Channel' = [d \in Drivers |-> IF d \in dropped THEN <<>> ELSE Channel[d]]
  <2>1. Channel' = [d \in Drivers |-> Under(d)']
    BY DEF Channel
  <2>2. \A d \in Drivers : Under(d)' = IF d \in dropped THEN <<>> ELSE Channel[d]
    BY <1>3 DEF Channel
  <2> QED
    BY <2>1, <2>2
<1>5. Ch!Restart(dropped)
  BY <1>1, <1>2, <1>4 DEF Ch!Restart, Ch!Ends, Drivers, Channel, Got, Phase
<1> QED
  BY <1>5 DEF Ch!Next, Ch!Ends, Drivers

LEMMA ChannelInit == Init => Ch!Init
<1> SUFFICES ASSUME Init PROVE Ch!Init
  OBVIOUS
<1>1. <<>> \o <<>> = <<>>
  OBVIOUS
<1>2. \A d \in Drivers : Under(d) = <<>>
  BY <1>1 DEF Init, Under
<1>3. \A d \in Drivers : out[Other(d)] = <<>>
  BY DEF Init, Drivers, Other
<1>4. Channel = [d \in Drivers |-> <<>>] /\ Got = [d \in Drivers |-> <<>>]
  BY <1>2, <1>3 DEF Channel, Got
<1> QED
  BY <1>4 DEF Init, Ch!Init, Ch!Ends, Drivers, Channel, Got

\* Whatever the buffer size, the timeouts, the interleaving of peers and signals, the
\* failures and the number of calls: what goes through forward() goes through two
\* channels, in order, once, and all that a closed side sent before it returns.
THEOREM Refinement == Spec => ImplementsChannels
<1>1. ForwardInv /\ [Next]_vars => [Ch!Next]_<<sent, closed, Channel, Got, Phase>>
  <2> SUFFICES ASSUME ForwardInv, [Next]_vars
               PROVE  [Ch!Next]_<<sent, closed, Channel, Got, Phase>>
    OBVIOUS
  <2>1. CASE UNCHANGED vars
    <3>1. UNCHANGED <<from, buffer, left, wire, out, sent, closed, pc>>
      BY <2>1 DEF vars
    <3>2. \A d \in Drivers : Under(d)' = Under(d)
      BY <3>1 DEF Under
    <3>3. Phase' = Phase
      BY <3>1 DEF Phase
    <3> QED
      BY <3>1, <3>2, <3>3, Unseen
  <2> QED
    BY <2>1, ForwardStep, PeerStep, ReopenStep DEF Next, Peers
<1>2. [Ch!Next]_<<sent, closed, Channel, Got, Phase>> => [Ch!Next]_Ch!vars
  BY DEF Ch!vars, Channel, Got, Phase
<1> QED
  BY <1>1, <1>2, ForwardInvariant, ChannelInit, PTL DEF Spec, ImplementsChannels, Ch!Spec
=============================================================================
