--------------------------- MODULE Servers_proofs ---------------------------
(***************************************************************************)
(* Theorems about the servers that accept clients, for any number of       *)
(* descriptors, clients and bytes: TCPServer, and UnixServer, whose        *)
(* variables that TCPServer has too stand for either.                      *)
(***************************************************************************)
EXTENDS TCPServer, TLAPS, SequenceTheorems

CONSTANTS Capacity, Sizes
VARIABLES accepted, client, eof, noRoom, toClient, reset, got, taken, delivered, result

Unix == INSTANCE UnixServer

USE DEF peerVars, fdVars, observers

-----------------------------------------------------------------------------
(* TCPServer.  Its descriptors: the one of its socket, and the one that    *)
(* client_fd and the stream share while there is a client.                 *)

Entries == {Free, Listening, Foreign} \cup 1 .. Clients
Serving == pc \in {"idle", "read", "write"}

FdType ==
  /\ pc \in {"new", "idle", "read", "write", "destroyed"}
  /\ table \in [Fds -> Entries] /\ newest \in 0 .. Clients /\ backlog \in Seq(1 .. Clients)
  /\ socked_fd \in Fds \cup {0} /\ client_fd \in Fds \cup {0} /\ stream \in Fds \cup {0}
  /\ initialized \in BOOLEAN /\ foreignClose \in BOOLEAN

\* Before tcp_server_init has succeeded client_fd and socked_fd are not to be relied on.
OwnInv ==
  /\ pc = "new" => ~initialized /\ stream = 0
  /\ pc # "destroyed" => ~foreignClose
  /\ Serving => /\ socked_fd # 0 /\ table[socked_fd] = Listening
                /\ client_fd # 0 => /\ stream \in {0, client_fd}
                                    /\ newest # 0 /\ table[client_fd] = newest
  /\ pc \in {"read", "write"} => client_fd # 0
  /\ \A n \in Fds : table[n] > 0 => Serving /\ n = client_fd
  /\ initialized => ~foreignClose

FdInv == FdType /\ OwnInv

LEMMA EntryProperties ==
  /\ 0 \notin Fds /\ Clients \in Nat
  /\ Free \in Entries /\ Listening \in Entries /\ Foreign \in Entries
  /\ Free = 0 /\ Listening = -1 /\ Foreign = -2
  /\ 1 .. Clients \subseteq Entries
  /\ \A k \in 1 .. Clients : k > 0
BY TCPAssumption DEF Entries, Free, Listening, Foreign

LEMMA FdInvInit == Init => FdInv
<1> SUFFICES ASSUME Init PROVE FdInv
  OBVIOUS
<1>1. FdType
  <2>1. table \in [Fds -> Entries] /\ backlog \in Seq(1 .. Clients) /\ newest \in 0 .. Clients
    BY EntryProperties DEF Init
  <2>2. initialized \in BOOLEAN /\ foreignClose \in BOOLEAN
    BY DEF Init
  <2> QED
    BY <2>1, <2>2 DEF Init, FdType
<1>2. \A n \in Fds : table[n] = 0
  BY EntryProperties DEF Init
<1>3. ~Serving /\ pc = "new" /\ ~initialized /\ ~foreignClose /\ stream = 0
  BY DEF Init, Serving
<1> QED
  BY <1>1, <1>2, <1>3 DEF FdInv, OwnInv

\* What closing descriptors makes of the table.
LEMMA ClosedProperties ==
  ASSUME FdType, NEW ns
  PROVE  /\ Closed(ns) \in [Fds -> Entries]
         /\ \A n \in Fds : Closed(ns)[n] = IF n \in ns THEN Free ELSE table[n]
BY EntryProperties DEF FdType, Closed

\* checkClientConnection accepts a client: the old one goes.
LEMMA FdInvAccept ==
  ASSUME FdInv, NEW n \in Fds, NEW call \in {"read", "write"}, Accept(n, call)
  PROVE  FdInv'
<1>1. /\ pc = "idle" /\ backlog # <<>> /\ table[n] = Free
      /\ newest' = Head(backlog) /\ backlog' = Tail(backlog)
      /\ table' = [Closed(OldClient) EXCEPT ![n] = Head(backlog)]
      /\ NoteClose(OldClient)
      /\ client_fd' = n /\ stream' = n /\ pc' = call
      /\ socked_fd' = socked_fd /\ initialized' = initialized
  BY DEF Accept, NextFd
<1> DEFINE k == Head(backlog)
<1>2. k \in 1 .. Clients /\ Tail(backlog) \in Seq(1 .. Clients)
  BY <1>1, HeadTailProperties DEF FdInv, FdType
<1> HIDE DEF k
<1>3. k \in Entries /\ k > 0 /\ k # 0 /\ k \in 0 .. Clients
  BY <1>2, EntryProperties
<1>4. /\ Closed(OldClient) \in [Fds -> Entries]
      /\ \A m \in Fds : Closed(OldClient)[m] = IF m = client_fd THEN Free ELSE table[m]
  BY ClosedProperties, EntryProperties DEF FdInv, OldClient
<1>5. /\ table' \in [Fds -> Entries] /\ table'[n] = k
      /\ \A m \in Fds : m # n => table'[m] = IF m = client_fd THEN Free ELSE table[m]
  BY <1>1, <1>3, <1>4 DEF k
<1>6. ~foreignClose'
  <2>1. \A m \in OldClient : Mine(m)
    BY <1>1 DEF OldClient, Mine, FdInv, OwnInv, Serving
  <2> QED
    BY <1>1, <2>1 DEF NoteClose, FdInv, OwnInv, Serving
<1>7. socked_fd # n /\ socked_fd # client_fd /\ socked_fd \in Fds /\ table[socked_fd] = Listening
  <2>1. socked_fd \in Fds /\ table[socked_fd] = Listening
    BY <1>1 DEF FdInv, FdType, OwnInv, Serving
  <2>2. client_fd # 0 => table[client_fd] # Listening
    BY <1>1, EntryProperties DEF FdInv, FdType, OwnInv, Serving
  <2> QED
    BY <1>1, <2>1, <2>2, EntryProperties
<1>8. table'[socked_fd] = Listening
  BY <1>5, <1>7
<1>9. \A m \in Fds : table'[m] > 0 => m = n
  <2>1. ASSUME NEW m \in Fds, m # n, table'[m] > 0 PROVE FALSE
    <3>1. table[m] > 0 /\ m # client_fd
      BY <1>5, <2>1, EntryProperties
    <3> QED
      BY <3>1 DEF FdInv, OwnInv
  <2> QED
    BY <2>1
<1>10. FdType'
  <2>1. initialized' \in BOOLEAN /\ foreignClose' \in BOOLEAN
    BY <1>1 DEF NoteClose, FdInv, FdType
  <2> QED
    BY <1>1, <1>2, <1>3, <1>5, <2>1 DEF FdInv, FdType, k
<1>11. OwnInv'
  BY <1>1, <1>3, <1>5, <1>6, <1>7, <1>8, <1>9, EntryProperties DEF OwnInv, Serving, k
<1> QED
  BY <1>10, <1>11 DEF FdInv

\* EPIPE: its client's descriptor is closed.
LEMMA FdInvBrokenPipe == FdInv /\ BrokenPipe => FdInv'
<1> SUFFICES ASSUME FdInv, BrokenPipe PROVE FdInv'
  OBVIOUS
<1>1. /\ pc \in {"read", "write"} /\ table' = Closed({client_fd}) /\ NoteClose({client_fd})
      /\ client_fd' = 0 /\ pc' = "idle" /\ stream' = stream /\ socked_fd' = socked_fd
      /\ initialized' = initialized /\ newest' = newest /\ backlog' = backlog
  BY DEF BrokenPipe, NoClient
<1>2. /\ client_fd \in Fds /\ newest # 0 /\ table[client_fd] = newest
      /\ socked_fd \in Fds /\ table[socked_fd] = Listening /\ ~foreignClose
  BY <1>1 DEF FdInv, FdType, OwnInv, Serving
<1>3. /\ table' \in [Fds -> Entries]
      /\ \A m \in Fds : table'[m] = IF m = client_fd THEN Free ELSE table[m]
  BY <1>1, ClosedProperties DEF FdInv
<1>4. socked_fd # client_fd
  BY <1>2, EntryProperties DEF FdInv, FdType
<1>5. ~foreignClose'
  BY <1>1, <1>2 DEF NoteClose, Mine
<1>6. FdType'
  <2>1. initialized' \in BOOLEAN /\ foreignClose' \in BOOLEAN
    BY <1>1 DEF NoteClose, FdInv, FdType
  <2> QED
    BY <1>1, <1>3, <2>1 DEF FdInv, FdType
<1>7. OwnInv'
  BY <1>1, <1>2, <1>3, <1>4, <1>5, EntryProperties DEF FdInv, OwnInv, Serving
<1> QED
  BY <1>6, <1>7 DEF FdInv

\* ~TCPDriver, of a server that was initialized or was not.
LEMMA FdInvDestroy == FdInv /\ Destroy => FdInv'
<1> SUFFICES ASSUME FdInv, Destroy PROVE FdInv'
  OBVIOUS
<1> DEFINE ns == {socked_fd, client_fd} \ {0}
<1>1. /\ pc \in {"new", "idle"} /\ table' = Closed(ns) /\ NoteClose(ns) /\ pc' = "destroyed"
      /\ UNCHANGED <<socked_fd, client_fd, stream, initialized, newest, backlog>>
  BY DEF Destroy
<1>2. /\ table' \in [Fds -> Entries]
      /\ \A m \in Fds : table'[m] = IF m \in ns THEN Free ELSE table[m]
  BY <1>1, ClosedProperties DEF FdInv
<1>3. foreignClose' \in BOOLEAN
  BY <1>1 DEF NoteClose, FdInv, FdType
<1>4. pc = "idle" => ~foreignClose'
  <2>1. pc = "idle" => \A m \in ns : Mine(m)
    BY DEF FdInv, OwnInv, Serving, Mine
  <2> HIDE DEF ns
  <2> QED
    BY <1>1, <2>1 DEF NoteClose, FdInv, OwnInv, Serving
<1>5. \A m \in Fds : ~(table'[m] > 0)
  <2>1. ASSUME NEW m \in Fds, table'[m] > 0 PROVE FALSE
    <3>1. table[m] > 0 /\ m \notin ns
      BY <1>2, <2>1, EntryProperties
    <3>2. m = client_fd /\ m # 0
      BY <3>1, EntryProperties DEF FdInv, OwnInv
    <3> QED
      BY <3>1, <3>2
  <2> QED
    BY <2>1
<1>6. FdType'
  BY <1>1, <1>2, <1>3 DEF FdInv, FdType
<1>7. OwnInv'
  BY <1>1, <1>4, <1>5 DEF FdInv, OwnInv, Serving
<1> QED
  BY <1>6, <1>7 DEF FdInv

\* The rest of the process, and tcp_server_init, which take descriptors that nobody has.
LEMMA FdInvOpen ==
  ASSUME FdInv, NEW n \in Fds, ForeignOpen(n) \/ ForeignCloses(n) \/ TcpServerInit(n)
  PROVE  FdInv'
<1>1. \A m \in Fds : m # n => table'[m] = table[m]
  BY DEF ForeignOpen, ForeignCloses, TcpServerInit, FdInv, FdType
<1>2. /\ table' \in [Fds -> Entries] /\ ~(table'[n] > 0)
      /\ table[n] \in {Free, Foreign}
  BY EntryProperties DEF ForeignOpen, ForeignCloses, TcpServerInit, NextFd, FdInv, FdType
<1>3. UNCHANGED <<stream, newest, backlog, foreignClose>>
  BY DEF ForeignOpen, ForeignCloses, TcpServerInit
<1>4. CASE UNCHANGED <<pc, socked_fd, client_fd, initialized>>
  <2>1. Serving => n # socked_fd /\ n # client_fd
    BY <1>2, EntryProperties DEF FdInv, FdType, OwnInv
  <2>2. FdType'
    BY <1>2, <1>3, <1>4 DEF FdInv, FdType
  <2>3. OwnInv'
    BY <1>1, <1>2, <1>3, <1>4, <2>1 DEF FdInv, FdType, OwnInv, Serving
  <2> QED
    BY <2>2, <2>3 DEF FdInv
<1>5. CASE TcpServerInit(n)
  <2>1. /\ pc = "new" /\ socked_fd' = n /\ table'[n] = Listening
        /\ \/ client_fd' = 0 /\ pc' = "idle" /\ initialized' = TRUE
           \/ UNCHANGED <<client_fd, pc, initialized>>
    BY <1>5 DEF TcpServerInit, FdInv, FdType
  <2>2. \A m \in Fds : ~(table'[m] > 0)
    BY <1>1, <1>2, <2>1 DEF FdInv, OwnInv, Serving
  <2>3. ~initialized /\ stream = 0
    BY <2>1 DEF FdInv, OwnInv
  <2>4. FdType'
    <3>1. initialized' \in BOOLEAN /\ foreignClose' \in BOOLEAN
      BY <1>3, <2>1 DEF FdInv, FdType
    <3>2. /\ pc' \in {"new", "idle"} /\ socked_fd' \in Fds
          /\ client_fd' \in Fds \cup {0}
      BY <2>1 DEF FdInv, FdType
    <3> QED
      BY <1>2, <1>3, <3>1, <3>2 DEF FdInv, FdType
  <2>5. ~foreignClose'
    BY <1>3, <2>1, <2>3 DEF FdInv, OwnInv
  <2>6. ASSUME client_fd' = 0, pc' = "idle", initialized' = TRUE PROVE OwnInv'
    BY <1>3, <2>1, <2>2, <2>3, <2>5, <2>6, EntryProperties DEF OwnInv, Serving
  <2>7. ASSUME UNCHANGED <<client_fd, pc, initialized>> PROVE OwnInv'
    BY <1>3, <2>1, <2>2, <2>3, <2>5, <2>7 DEF OwnInv, Serving
  <2> QED
    BY <2>1, <2>4, <2>6, <2>7 DEF FdInv
<1> QED
  BY <1>4, <1>5 DEF ForeignOpen, ForeignCloses

\* The clients, and the bytes that are on their way.
PeerInv ==
  /\ connects \in 0 .. Clients /\ gone \subseteq 1 .. Clients
  /\ wire \in [1 .. Clients -> 0 .. MaxBytes] /\ sent \in [1 .. Clients -> 0 .. MaxBytes]
  /\ \A k \in 1 .. Clients : wire[k] <= sent[k]
  /\ ibuf \in Seq(1 .. Clients) /\ Len(ibuf) < PacketSize /\ packet \in Seq(1 .. Clients)

LEMMA FdInvNext == FdInv /\ PeerInv /\ [Next]_vars => FdInv'
<1> SUFFICES ASSUME FdInv, PeerInv, [Next]_vars PROVE FdInv'
  OBVIOUS
<1>1. CASE Connect
  <2>1. connects + 1 \in 1 .. Clients
    BY <1>1, TCPAssumption DEF Connect, PeerInv
  <2>2. backlog' \in Seq(1 .. Clients)
    BY <1>1, <2>1 DEF Connect, FdInv, FdType
  <2>3. UNCHANGED <<pc, fdVars, observers>>
    BY <1>1 DEF Connect
  <2> QED
    BY <2>2, <2>3 DEF FdInv, FdType, OwnInv, Serving
<1>2. ASSUME UNCHANGED <<pc, fdVars, backlog, observers>> PROVE FdInv'
  BY <1>2 DEF FdInv, FdType, OwnInv, Serving
<1>3. ASSUME NEW call \in {"read", "write"}, NoAccept(call) PROVE FdInv'
  BY <1>3 DEF NoAccept, FdInv, FdType, OwnInv, Serving
<1>4. ASSUME NEW n \in 1 .. PacketSize, ReadBytes(n) PROVE FdInv'
  <2>1. /\ pc = "read" /\ pc' \in {"read", "idle"}
        /\ UNCHANGED <<fdVars, backlog, initialized, newest, foreignClose>>
    BY <1>4 DEF ReadBytes
  <2> QED
    BY <2>1 DEF FdInv, FdType, OwnInv, Serving
<1>5. CASE CallEnds
  BY <1>5 DEF CallEnds, FdInv, FdType, OwnInv, Serving
<1>6. CASE Close
  BY <1>6 DEF Close, FdInv, FdType, OwnInv, Serving
<1>7. CASE UNCHANGED vars
  BY <1>2, <1>7 DEF vars
<1>8. ASSUME NEW k \in 1 .. Clients, ClientSends(k) \/ ClientCloses(k) PROVE FdInv'
  BY <1>2, <1>8 DEF ClientSends, ClientCloses
<1> QED
  BY <1>1, <1>3, <1>4, <1>5, <1>6, <1>7, <1>8, FdInvOpen, FdInvAccept, FdInvBrokenPipe,
     FdInvDestroy
  DEF Next

\* What Driver::readPacket takes from whoever is behind the stream's descriptor.
LEMMA PeerInvRead ==
  ASSUME FdInv, PeerInv, NEW n \in 1 .. PacketSize, ReadBytes(n) PROVE PeerInv'
<1> DEFINE k == Source
           f == [i \in 1 .. n |-> k]
           new == ibuf \o f
<1>1. /\ ~NoBytes /\ n <= wire[k] /\ Len(ibuf) + n <= PacketSize
      /\ wire' = [wire EXCEPT ![k] = @ - n] /\ UNCHANGED <<connects, sent, gone>>
      /\ IF Len(new) = PacketSize
         THEN packet' = new /\ ibuf' = <<>>
         ELSE ibuf' = new /\ packet' = packet
  BY DEF ReadBytes, EndsPacket
<1>2. k \in 1 .. Clients
  <2>1. k > 0 /\ stream # 0
    BY <1>1 DEF NoBytes, Source
  <2>2. stream \in Fds /\ k = table[stream] /\ table[stream] \in Entries
    BY <2>1 DEF Source, FdInv, FdType
  <2> HIDE DEF k
  <2> QED
    BY <2>1, <2>2, EntryProperties DEF Entries
<1> HIDE DEF k
<1>3. f \in Seq(1 .. Clients) /\ Len(f) = n
  BY <1>2, TCPAssumption
<1>4. ibuf \in Seq(1 .. Clients) /\ PacketSize \in Nat \ {0} /\ Len(ibuf) \in Nat
  BY TCPAssumption DEF PeerInv
<1> HIDE DEF f
<1>5. new \in Seq(1 .. Clients) /\ Len(new) = Len(ibuf) + n
  BY <1>3, <1>4, ConcatProperties
<1> HIDE DEF new
<1>6. /\ ibuf' \in Seq(1 .. Clients) /\ Len(ibuf') < PacketSize /\ packet' \in Seq(1 .. Clients)
  <2>0. <<>> \in Seq(1 .. Clients) /\ Len(<<>>) = 0
    OBVIOUS
  <2>1. CASE Len(new) = PacketSize
    <3>1. packet' = new /\ ibuf' = <<>>
      BY <1>1, <2>1
    <3>2. ibuf' \in Seq(1 .. Clients) /\ Len(ibuf') = 0
      BY <2>0, <3>1, Zenon
    <3> QED
      BY <1>4, <1>5, <3>1, <3>2
  <2>2. CASE Len(new) # PacketSize
    BY <1>1, <1>4, <1>5, <2>2 DEF PeerInv
  <2> QED
    BY <2>1, <2>2
<1>7. /\ wire' \in [1 .. Clients -> 0 .. MaxBytes]
      /\ \A j \in 1 .. Clients : wire'[j] <= wire[j]
  <2>1. wire[k] - n \in 0 .. MaxBytes /\ wire[k] - n <= wire[k]
    BY <1>1, <1>2, <1>4, TCPAssumption DEF PeerInv
  <2> QED
    BY <1>1, <1>2, <2>1, TCPAssumption DEF PeerInv
<1>8. \A j \in 1 .. Clients : wire'[j] <= sent'[j]
  <2>1. ASSUME NEW j \in 1 .. Clients PROVE wire'[j] <= sent'[j]
    <3>1. /\ wire'[j] \in Nat /\ wire[j] \in Nat /\ sent[j] \in Nat /\ wire[j] <= sent[j]
          /\ sent'[j] = sent[j] /\ wire'[j] <= wire[j]
      BY <1>1, <1>7, TCPAssumption DEF PeerInv
    <3> QED
      BY <3>1
  <2> QED
    BY <2>1
<1> QED
  BY <1>1, <1>6, <1>7, <1>8 DEF PeerInv

LEMMA PeerInvNext == FdInv /\ PeerInv /\ [Next]_vars => PeerInv'
<1> SUFFICES ASSUME FdInv, PeerInv, [Next]_vars PROVE PeerInv'
  OBVIOUS
<1>1. ASSUME UNCHANGED <<connects, gone, wire, sent, ibuf, packet>> PROVE PeerInv'
  BY <1>1 DEF PeerInv
<1>2. CASE Connect
  BY <1>2, TCPAssumption, SMTT(30) DEF Connect, PeerInv
<1>3. ASSUME NEW k \in 1 .. Clients, ClientSends(k) PROVE PeerInv'
  <2>1. /\ sent[k] \in Nat /\ wire[k] \in Nat /\ wire[k] <= sent[k] /\ sent[k] < MaxBytes
        /\ sent' = [sent EXCEPT ![k] = sent[k] + 1] /\ wire' = [wire EXCEPT ![k] = wire[k] + 1]
        /\ UNCHANGED <<connects, gone, ibuf, packet>>
    BY <1>3, TCPAssumption DEF ClientSends, PeerInv
  <2>2. sent[k] + 1 \in 0 .. MaxBytes /\ wire[k] + 1 \in 0 .. MaxBytes
    BY <2>1, TCPAssumption
  <2>3. /\ wire' \in [1 .. Clients -> 0 .. MaxBytes] /\ sent' \in [1 .. Clients -> 0 .. MaxBytes]
        /\ \A j \in 1 .. Clients : wire'[j] <= sent'[j]
    BY <2>1, <2>2 DEF PeerInv
  <2> QED
    BY <2>1, <2>3 DEF PeerInv
<1>4. ASSUME NEW k \in 1 .. Clients, ClientCloses(k) PROVE PeerInv'
  BY <1>4 DEF ClientCloses, PeerInv
<1>5. ASSUME NEW n \in Fds, ForeignOpen(n) \/ ForeignCloses(n) \/ TcpServerInit(n) PROVE PeerInv'
  BY <1>1, <1>5 DEF ForeignOpen, ForeignCloses, TcpServerInit
<1>6. ASSUME NEW call \in {"read", "write"}, NoAccept(call) \/ \E n \in Fds : Accept(n, call)
      PROVE  PeerInv'
  BY <1>1, <1>6 DEF NoAccept, Accept
<1>7. CASE CallEnds \/ BrokenPipe \/ Close \/ Destroy
  BY <1>1, <1>7 DEF CallEnds, BrokenPipe, Close, Destroy
<1>8. CASE UNCHANGED vars
  BY <1>1, <1>8 DEF vars
<1> QED
  BY <1>2, <1>3, <1>4, <1>5, <1>6, <1>7, <1>8, PeerInvRead DEF Next

LEMMA TCPInvariant == Spec => [](FdInv /\ PeerInv)
<1>1. Init => PeerInv
  <2> SUFFICES ASSUME Init PROVE PeerInv
    OBVIOUS
  <2>1. ibuf \in Seq(1 .. Clients) /\ packet \in Seq(1 .. Clients) /\ Len(ibuf) = 0
    BY DEF Init
  <2> QED
    BY <2>1, TCPAssumption DEF Init, PeerInv
<1> QED
  BY <1>1, FdInvInit, FdInvNext, PeerInvNext, PTL DEF Spec

\* TCPDriver: the variables keep their types; what is left of a packet is less than one.
THEOREM TypeCorrect == Spec => []TypeOK
<1>1. FdInv /\ PeerInv => TypeOK
  BY DEF FdInv, FdType, PeerInv, TypeOK, Entries
<1> QED
  BY <1>1, TCPInvariant, PTL

\* A server that was initialized closes no descriptor twice and none of the rest of the
\* process, when it replaces a client, drops one or goes (TCPDriver.cpp:27-32, 55-62, 94-112).
THEOREM ClosesItsOwn == Spec => []ClosesItsOwnOnly
<1>1. FdInv => ClosesItsOwnOnly
  BY DEF FdInv, OwnInv, ClosesItsOwnOnly
<1> QED
  BY <1>1, TCPInvariant, PTL

\* The Driver talks to the client that connected last or to none, and no client that has
\* been replaced or has broken off leaves a descriptor open (TCPDriver.cpp:55-112).
THEOREM TalksToTheNewest == Spec => []OnlyTheNewestClient
<1>1. FdInv => OnlyTheNewestClient
  BY DEF FdInv, FdType, OwnInv, Serving, OnlyTheNewestClient
<1> QED
  BY <1>1, TCPInvariant, PTL

-----------------------------------------------------------------------------
(* UnixServer.  The first client is the only one, and what read() has not  *)
(* returned of its bytes is still on its way.                              *)

USE DEF Unix!clientVars, Unix!eofVars, Unix!streamVars, Unix!observers

UnixType ==
  /\ connects \in 0 .. Clients /\ gone \subseteq 1 .. connects
  /\ sent \in [1 .. Clients -> 0 .. MaxBytes] /\ wire \in [1 .. Clients -> 0 .. MaxBytes]
  /\ \A k \in 1 .. Clients : wire[k] <= sent[k]
  /\ accepted \in Seq(1 .. Clients) /\ got \in Seq(Nat \X Nat)
  /\ eof \in BOOLEAN /\ noRoom \in BOOLEAN

FirstInv ==
  /\ \/ client = 0 /\ accepted = <<>>
     \/ client = 1 /\ accepted = <<1>>
  /\ \A i \in 1 .. Len(got) : got[i] = <<1, i>>
  /\ Len(got) + wire[1] = sent[1]
  /\ eof => noRoom \/ (client = 1 /\ 1 \in gone /\ wire[1] = 0)

UnixInv == UnixType /\ FirstInv

\* What UnixServer assumes of its constants.
UnixAssumption ==
  Clients \in Nat \ {0} /\ MaxBytes \in Nat /\ Capacity \in Nat /\ Sizes \subseteq Nat

LEMMA UnixConstants ==
  ASSUME UnixAssumption
  PROVE  /\ Clients \in Nat \ {0} /\ MaxBytes \in Nat /\ Capacity \in Nat
         /\ Sizes \subseteq Nat /\ 1 \in 1 .. Clients
BY DEF UnixAssumption

LEMMA UnixInvInit == ASSUME UnixAssumption PROVE Unix!Init => UnixInv
<1> SUFFICES ASSUME Unix!Init PROVE UnixInv
  OBVIOUS
<1>1. /\ connects = 0 /\ gone = {} /\ accepted = <<>> /\ got = <<>> /\ client = 0 /\ ~eof
      /\ sent = [k \in 1 .. Clients |-> 0] /\ wire = [k \in 1 .. Clients |-> 0]
  BY DEF Unix!Init
<1>2. got \in Seq(Nat \X Nat) /\ Len(got) = 0 /\ accepted \in Seq(1 .. Clients)
  BY <1>1
<1>3. sent[1] = 0 /\ wire[1] = 0
  BY <1>1, UnixConstants
<1>4. eof \in BOOLEAN /\ noRoom \in BOOLEAN
  BY DEF Unix!Init
<1>5. UnixType
  BY <1>1, <1>2, <1>4, UnixConstants DEF UnixType
<1>6. FirstInv
  BY <1>1, <1>2, <1>3 DEF FirstInv
<1> QED
  BY <1>5, <1>6 DEF UnixInv

\* accept() takes the first of the backlog, and only once.
LEMMA AcceptProperties ==
  ASSUME UnixAssumption, UnixInv, Unix!Accept
  PROVE  /\ accepted' \in Seq(1 .. Clients)
         /\ \/ client' = 0 /\ accepted' = <<>> /\ client = 0
            \/ client' = 1 /\ accepted' = <<1>>
<1>1. CASE Unix!Accepts
  <2>1. client = 0 /\ accepted = <<>>
    BY <1>1 DEF Unix!Accepts, UnixInv, FirstInv
  <2>2. Len(accepted) + 1 = 1
    BY <2>1
  <2>3. client' = 1 /\ accepted' = Append(accepted, 1)
    BY <1>1, <2>2 DEF Unix!Accept, Unix!NewClient
  <2>4. Append(<<>>, 1) = <<1>> /\ <<1>> \in Seq(1 .. Clients)
    BY UnixConstants
  <2> QED
    BY <2>1, <2>3, <2>4
<1>2. CASE ~Unix!Accepts
  BY <1>2 DEF Unix!Accept, Unix!NewClient, UnixInv, UnixType, FirstInv
<1> QED
  BY <1>1, <1>2

\* SocketStream::read.
LEMMA UnixInvRead ==
  ASSUME UnixAssumption, UnixInv, NEW size \in Sizes, Unix!Read(size) PROVE UnixInv'
<1>1. /\ accepted' \in Seq(1 .. Clients)
      /\ \/ client' = 0 /\ accepted' = <<>> /\ client = 0
         \/ client' = 1 /\ accepted' = <<1>>
  BY AcceptProperties DEF Unix!Read, Unix!AcceptInRead
<1>2. /\ UNCHANGED <<connects, gone, sent>>
      /\ eof' = (client' # 0 /\ (eof \/ (Unix!AtEnd(client') /\ ~reset)
                                       \/ Unix!NoRoom(client', size)))
      /\ noRoom' = (noRoom \/ (client' # 0 /\ Unix!NoRoom(client', size)))
  BY DEF Unix!Read
<1>3. /\ sent[1] \in Nat /\ wire[1] \in Nat /\ sent[1] <= MaxBytes /\ Len(got) + wire[1] = sent[1]
      /\ got \in Seq(Nat \X Nat) /\ Len(got) \in Nat
  <2>1. sent[1] \in 0 .. MaxBytes /\ wire[1] \in 0 .. MaxBytes
    BY UnixConstants DEF UnixInv, UnixType
  <2>2. got \in Seq(Nat \X Nat) /\ Len(got) \in Nat
    BY DEF UnixInv, UnixType
  <2>3. Len(got) + wire[1] = sent[1]
    BY DEF UnixInv, FirstInv
  <2> QED
    BY <2>1, <2>2, <2>3, UnixConstants
<1>4. eof' => noRoom' \/ (client' = 1 /\ 1 \in gone /\ wire[1] = 0)
  <2>1. CASE Unix!NoRoom(client', size)
    BY <1>2, <2>1
  <2>2. CASE ~Unix!NoRoom(client', size)
    <3>1. eof' => eof \/ (client' # 0 /\ Unix!AtEnd(client'))
      BY <1>2, <2>2
    <3>2. noRoom' <=> noRoom
      BY <1>2, <2>2 DEF UnixInv, UnixType
    <3> QED
      BY <1>1, <3>1, <3>2 DEF Unix!AtEnd, UnixInv, FirstInv
  <2> QED
    BY <2>1, <2>2
<1>5. eof' \in BOOLEAN /\ noRoom' \in BOOLEAN
  BY <1>2 DEF UnixInv, UnixType
<1>6. CASE client' = 0 \/ wire[client'] = 0
  <2>1. UNCHANGED <<wire, got>>
    BY <1>6 DEF Unix!Read
  <2> QED
    BY <1>1, <1>2, <1>4, <1>5, <2>1 DEF UnixInv, UnixType, FirstInv
<1>7. CASE ~(client' = 0 \/ wire[client'] = 0)
  <2> DEFINE n == IF wire[1] < size THEN wire[1] ELSE size
             first == sent[1] - wire[1]
             f == [i \in 1 .. n |-> <<1, first + i>>]
  <2>1. client' = 1
    BY <1>1, <1>7
  <2>2. got' = got \o f /\ wire' = [wire EXCEPT ![1] = @ - n]
    BY <1>7, <2>1 DEF Unix!Read
  <2>3. n \in Nat /\ n <= wire[1] /\ wire[1] - n \in 0 .. MaxBytes
    <3>1. size \in Nat
      BY UnixConstants
    <3> QED
      BY <1>3, <3>1, UnixConstants DEF UnixInv, UnixType
  <2>4. first = Len(got)
    BY <1>3
  <2> HIDE DEF n, first
  <2>5. f \in Seq(Nat \X Nat) /\ Len(f) = n /\ \A i \in 1 .. n : f[i] = <<1, first + i>>
    BY <1>3, <2>3, <2>4
  <2> HIDE DEF f
  <2>6. /\ got' \in Seq(Nat \X Nat) /\ Len(got') = Len(got) + n
        /\ \A i \in 1 .. Len(got) + n :
             got'[i] = IF i <= Len(got) THEN got[i] ELSE f[i - Len(got)]
    BY <1>3, <2>2, <2>5, ConcatProperties
  <2>7. \A i \in 1 .. Len(got') : got'[i] = <<1, i>>
    <3>1. ASSUME NEW i \in 1 .. Len(got') PROVE got'[i] = <<1, i>>
      <4>1. CASE i <= Len(got)
        <5>1. i \in 1 .. Len(got) /\ got'[i] = got[i]
          BY <1>3, <2>3, <2>6, <4>1
        <5> QED
          BY <5>1 DEF UnixInv, FirstInv
      <4>2. CASE i > Len(got)
        <5>1. i - Len(got) \in 1 .. n /\ got'[i] = f[i - Len(got)]
          BY <1>3, <2>3, <2>6, <4>2
        <5>2. first + (i - Len(got)) = i
          BY <1>3, <2>4, <5>1
        <5> QED
          BY <2>5, <5>1, <5>2
      <4> QED
        BY <1>3, <2>3, <2>6, <4>1, <4>2
    <3> QED
      BY <3>1
  <2>8. /\ wire' \in [1 .. Clients -> 0 .. MaxBytes] /\ wire'[1] = wire[1] - n
        /\ \A k \in 1 .. Clients : wire'[k] <= sent[k]
    <3>1. wire \in [1 .. Clients -> 0 .. MaxBytes] /\ 1 \in 1 .. Clients
      BY UnixConstants DEF UnixInv, UnixType
    <3>2. /\ wire'[1] = wire[1] - n
          /\ \A k \in 1 .. Clients : k # 1 => wire'[k] = wire[k]
      BY <2>2, <3>1
    <3>3. wire' \in [1 .. Clients -> 0 .. MaxBytes]
      BY <2>2, <2>3, <3>1
    <3>4. \A k \in 1 .. Clients : wire[k] <= sent[k]
      BY DEF UnixInv, UnixType
    <3>5. wire'[1] <= sent[1]
      BY <1>3, <2>3, <3>2
    <3> QED
      BY <3>2, <3>3, <3>4, <3>5
  <2>9. Len(got') + wire'[1] = sent'[1]
    BY <1>2, <1>3, <2>3, <2>6, <2>8
  <2>10. eof' => noRoom'
    BY <1>4, <1>7, <2>1
  <2>11. UnixType'
    BY <1>1, <1>2, <1>5, <2>6, <2>8 DEF UnixInv, UnixType
  <2>12. FirstInv'
    BY <1>1, <2>7, <2>9, <2>10 DEF FirstInv
  <2> QED
    BY <2>11, <2>12 DEF UnixInv
<1> QED
  BY <1>6, <1>7

LEMMA UnixInvNext == ASSUME UnixAssumption PROVE UnixInv /\ [Unix!Next]_(Unix!vars) => UnixInv'
<1> SUFFICES ASSUME UnixInv, [Unix!Next]_(Unix!vars) PROVE UnixInv'
  OBVIOUS
<1>1. CASE Unix!Connect
  <2>1. connects < Clients /\ connects' = connects + 1
        /\ UNCHANGED <<gone, sent, wire, accepted, client, eof, noRoom, got>>
    BY <1>1 DEF Unix!Connect
  <2>2. connects' \in 0 .. Clients /\ gone \subseteq 1 .. connects'
    BY <2>1, UnixConstants DEF UnixInv, UnixType
  <2> QED
    BY <2>1, <2>2 DEF UnixInv, UnixType, FirstInv
<1>2. ASSUME NEW k \in 1 .. Clients, Unix!ClientSends(k) PROVE UnixInv'
  <2>1. /\ k \notin gone /\ sent[k] < MaxBytes
        /\ sent' = [sent EXCEPT ![k] = sent[k] + 1] /\ wire' = [wire EXCEPT ![k] = wire[k] + 1]
        /\ UNCHANGED <<connects, gone, accepted, client, eof, noRoom, got>>
    BY <1>2 DEF Unix!ClientSends
  <2>2. /\ sent[k] \in Nat /\ wire[k] \in Nat /\ wire[k] <= sent[k]
        /\ sent[1] \in Nat /\ wire[1] \in Nat /\ Len(got) \in Nat /\ Len(got) + wire[1] = sent[1]
    <3>1. sent[k] \in 0 .. MaxBytes /\ wire[k] \in 0 .. MaxBytes /\ wire[k] <= sent[k]
      BY DEF UnixInv, UnixType
    <3>2. sent[1] \in 0 .. MaxBytes /\ wire[1] \in 0 .. MaxBytes
      BY UnixConstants DEF UnixInv, UnixType
    <3>3. Len(got) \in Nat /\ Len(got) + wire[1] = sent[1]
      BY DEF UnixInv, UnixType, FirstInv
    <3> QED
      BY <3>1, <3>2, <3>3, UnixConstants
  <2>3. sent[k] + 1 \in 0 .. MaxBytes /\ wire[k] + 1 \in 0 .. MaxBytes /\ wire[k] + 1 <= sent[k] + 1
    BY <2>1, <2>2, UnixConstants, SMTT(30)
  <2>4. /\ sent' \in [1 .. Clients -> 0 .. MaxBytes] /\ wire' \in [1 .. Clients -> 0 .. MaxBytes]
        /\ \A j \in 1 .. Clients : wire'[j] <= sent'[j]
    BY <2>1, <2>3 DEF UnixInv, UnixType
  <2>5. Len(got) + wire'[1] = sent'[1]
    <3>1. sent \in [1 .. Clients -> 0 .. MaxBytes] /\ wire \in [1 .. Clients -> 0 .. MaxBytes]
      BY DEF UnixInv, UnixType
    <3>2. CASE k = 1
      <4>1. sent'[1] = sent[1] + 1 /\ wire'[1] = wire[1] + 1
        BY <2>1, <3>1, <3>2
      <4> QED
        BY <2>2, <4>1
    <3>3. CASE k # 1
      <4>1. sent'[1] = sent[1] /\ wire'[1] = wire[1]
        BY <2>1, <3>1, <3>3, UnixConstants
      <4> QED
        BY <2>2, <4>1
    <3> QED
      BY <3>2, <3>3
  <2>6. eof => noRoom \/ wire'[1] = 0
    <3>1. eof => noRoom \/ (k # 1 /\ wire[1] = 0)
      BY <2>1 DEF UnixInv, FirstInv
    <3> QED
      BY <2>1, <3>1, UnixConstants DEF UnixInv, UnixType
  <2>7. UnixType'
    BY <2>1, <2>4 DEF UnixInv, UnixType
  <2>8. FirstInv'
    BY <2>1, <2>5, <2>6 DEF UnixInv, FirstInv
  <2> QED
    BY <2>7, <2>8 DEF UnixInv
<1>3. ASSUME NEW k \in 1 .. Clients, Unix!ClientCloses(k) PROVE UnixInv'
  <2>1. /\ k <= connects /\ gone' = gone \cup {k}
        /\ UNCHANGED <<connects, sent, wire, accepted, client, eof, noRoom, got>>
    BY <1>3 DEF Unix!ClientCloses
  <2>2. gone' \subseteq 1 .. connects
    BY <2>1, UnixConstants DEF UnixInv, UnixType
  <2> QED
    BY <2>1, <2>2 DEF UnixInv, UnixType, FirstInv
<1>4. CASE Unix!WaitRead
  <2>1. /\ accepted' \in Seq(1 .. Clients)
        /\ \/ client' = 0 /\ accepted' = <<>> /\ client = 0
           \/ client' = 1 /\ accepted' = <<1>>
    BY <1>4, AcceptProperties DEF Unix!WaitRead
  <2>2. UNCHANGED <<connects, gone, sent, wire, eof, noRoom, got>>
    BY <1>4 DEF Unix!WaitRead
  <2> QED
    BY <2>1, <2>2 DEF UnixInv, UnixType, FirstInv
<1>5. ASSUME UNCHANGED <<connects, gone, sent, wire, accepted, client, eof, noRoom, got>> PROVE UnixInv'
  BY <1>5 DEF UnixInv, UnixType, FirstInv
<1>6. ASSUME NEW size \in Sizes, Unix!WriteToNobody(size) \/ Unix!Write(size) PROVE UnixInv'
  BY <1>5, <1>6 DEF Unix!WriteToNobody, Unix!Write
<1>7. CASE Unix!ClientReads
  BY <1>5, <1>7 DEF Unix!ClientReads
<1>8. CASE UNCHANGED Unix!vars
  BY <1>5, <1>8 DEF Unix!vars
<1> QED
  BY <1>1, <1>2, <1>3, <1>4, <1>6, <1>7, <1>8, UnixInvRead DEF Unix!Next, Unix!Reads

LEMMA UnixInvariant == ASSUME UnixAssumption PROVE Unix!Spec => []UnixInv
<1>1. Unix!Init => UnixInv
  BY UnixInvInit
<1>2. UnixInv /\ [Unix!Next]_(Unix!vars) => UnixInv'
  BY UnixInvNext
<1> QED
  BY <1>1, <1>2, PTL DEF Unix!Spec

\* The rest of the type invariant, which no other part depends on.
KernelType ==
  /\ toClient \in 0 .. Capacity /\ reset \in BOOLEAN /\ taken \in Nat /\ delivered \in Nat
  /\ result \in {"none", "data", "nothing", "true", "false", "unix_error"}

LEMMA KernelTypeNext ==
  ASSUME UnixAssumption, KernelType, [Unix!Next]_(Unix!vars) PROVE KernelType'
<1>1. ASSUME NEW size \in Sizes, Unix!Write(size) PROVE KernelType'
  <2> DEFINE room == Capacity - toClient
             n == IF room < size THEN room ELSE size
  <2>1. n \in Nat /\ toClient + n \in 0 .. Capacity
    BY UnixConstants DEF KernelType
  <2>2. CASE client \in gone
    BY <1>1, <2>2 DEF Unix!Write, KernelType
  <2>3. CASE client \notin gone
    <3>1. /\ toClient' = toClient + n /\ taken' = taken + n /\ delivered' = delivered + n
          /\ result' \in {"nothing", "data"} /\ reset' = reset
      BY <1>1, <2>3 DEF Unix!Write, Unix!Moved
    <3> HIDE DEF n
    <3> QED
      BY <2>1, <3>1 DEF KernelType
  <2> QED
    BY <2>2, <2>3
<1>2. ASSUME NEW size \in Sizes, Unix!WriteToNobody(size) PROVE KernelType'
  BY <1>2, UnixConstants DEF Unix!WriteToNobody, Unix!Moved, KernelType
<1>3. ASSUME NEW size \in Sizes, Unix!Read(size) PROVE KernelType'
  BY <1>3 DEF Unix!Read, Unix!Moved, KernelType
<1>4. CASE Unix!WaitRead
  BY <1>4 DEF Unix!WaitRead, KernelType
<1>5. ASSUME NEW k \in 1 .. Clients, Unix!ClientSends(k) \/ Unix!ClientCloses(k) PROVE KernelType'
  <2>1. toClient' \in {0, toClient} /\ UNCHANGED <<taken, delivered, result>>
    BY <1>5 DEF Unix!ClientSends, Unix!ClientCloses
  <2>2. reset' \in BOOLEAN
    BY <1>5, Zenon DEF Unix!ClientSends, Unix!ClientCloses, KernelType
  <2> QED
    BY <2>1, <2>2, UnixConstants DEF KernelType
<1>6. CASE Unix!Connect \/ UNCHANGED Unix!vars
  BY <1>6 DEF Unix!Connect, Unix!vars, KernelType
<1>7. CASE Unix!ClientReads
  BY <1>7, UnixConstants DEF Unix!ClientReads, KernelType
<1> QED
  BY <1>1, <1>2, <1>3, <1>4, <1>5, <1>6, <1>7 DEF Unix!Next, Unix!Reads

\* The stream's state keeps its type: no read returns more than has been sent, no write
\* overfills the socket of the client (IOStream.cpp:135-217, 483-556).
THEOREM UnixTypeCorrect ==
  ASSUME UnixAssumption
  PROVE  Unix!Spec => []Unix!TypeOK
<1>1. Unix!Init => KernelType
  <2>1. Unix!Init => /\ toClient = 0 /\ taken = 0 /\ delivered = 0 /\ result = "none"
                     /\ reset \in BOOLEAN
    BY Zenon DEF Unix!Init
  <2>2. 0 \in 0 .. Capacity
    BY UnixConstants
  <2> QED
    BY <2>1, <2>2 DEF KernelType
<1>2. KernelType /\ [Unix!Next]_(Unix!vars) => KernelType'
  BY KernelTypeNext
<1>3. UnixInv /\ KernelType => Unix!TypeOK
  <2> SUFFICES ASSUME UnixInv, KernelType PROVE Unix!TypeOK
    OBVIOUS
  <2>1. client \in 0 .. Clients
    BY UnixConstants DEF UnixInv, FirstInv
  <2>2. got \in Seq((1 .. Clients) \X (1 .. MaxBytes))
    <3>1. Len(got) \in Nat /\ Len(got) <= MaxBytes
      <4>1. Len(got) \in Nat /\ Len(got) + wire[1] = sent[1]
        BY DEF UnixInv, UnixType, FirstInv
      <4>2. sent[1] \in 0 .. MaxBytes /\ wire[1] \in 0 .. MaxBytes
        BY UnixConstants DEF UnixInv, UnixType
      <4> QED
        BY <4>1, <4>2, UnixConstants
    <3>2. \A i \in 1 .. Len(got) : got[i] \in (1 .. Clients) \X (1 .. MaxBytes)
      <4> SUFFICES ASSUME NEW i \in 1 .. Len(got)
                   PROVE  got[i] \in (1 .. Clients) \X (1 .. MaxBytes)
        OBVIOUS
      <4>1. got[i] = <<1, i>>
        BY DEF UnixInv, FirstInv
      <4>2. 1 \in 1 .. Clients /\ i \in 1 .. MaxBytes
        BY <3>1, UnixConstants
      <4> QED
        BY <4>1, <4>2
    <3>3. got \in Seq(Nat \X Nat)
      BY DEF UnixInv, UnixType
    <3>4. got = [i \in 1 .. Len(got) |-> got[i]]
      BY <3>3
    <3> QED
      BY <3>1, <3>2, <3>4
  <2> QED
    BY <2>1, <2>2 DEF UnixInv, UnixType, KernelType, Unix!TypeOK
<1> QED
  BY <1>1, <1>2, <1>3, UnixInvariant, PTL DEF Unix!Spec

\* UnixServerStream: the first client is the only one that is accepted, and read() returns
\* its bytes, each once and in order, and none of another's (IOStream.cpp:483-531).
THEOREM FirstClientOnly ==
  ASSUME UnixAssumption
  PROVE  Unix!Spec => []Unix!OnlyTheFirstClient
<1>1. UnixInv => Unix!OnlyTheFirstClient
  <2> SUFFICES ASSUME UnixInv PROVE Unix!OnlyTheFirstClient
    OBVIOUS
  <2>1. accepted = <<>> \/ accepted = <<1>>
    BY DEF UnixInv, FirstInv
  <2>2. Len(accepted) <= 1
    BY <2>1
  <2> QED
    BY <2>2 DEF UnixInv, FirstInv, Unix!OnlyTheFirstClient
<1> QED
  BY <1>1, UnixInvariant, PTL

\* eof() is true only when the client has gone and everything it had sent has been read,
\* also when it connected and left before it was accepted; or a read without room has
\* found bytes waiting (IOStream.cpp:173-189, 518-531).
THEOREM EofIsTheEnd ==
  ASSUME UnixAssumption
  PROVE  Unix!Spec => []Unix!EofAfterLastByte
<1>1. UnixInv => Unix!EofAfterLastByte
  <2> SUFFICES ASSUME UnixInv, eof, ~noRoom PROVE client \in gone /\ Len(got) = sent[client]
    BY DEF Unix!EofAfterLastByte
  <2>1. /\ client = 1 /\ 1 \in gone /\ wire[1] = 0 /\ Len(got) + wire[1] = sent[1]
        /\ Len(got) \in Nat
    BY DEF UnixInv, UnixType, FirstInv
  <2> QED
    BY <2>1
<1> QED
  BY <1>1, UnixInvariant, PTL

=============================================================================
