----------------------------- MODULE TCPServer ------------------------------
(***************************************************************************)
(* TCPDriver: a TCP server that serves one client at a time, the one that  *)
(* connected last.  Until tcp_server_init has succeeded it is destroyed or *)
(* initialized once more, and nothing else; its descriptors hold whatever  *)
(* its memory held.                                                        *)
(*                                                                         *)
(* client_fd and the stream of the Driver both hold the client's           *)
(* descriptor.  The kernel gives out the lowest descriptor that is free,   *)
(* to the server and to the rest of the process alike, so a descriptor     *)
(* that is used after its close may be anybody's.  A byte is the number of *)
(* the client that sent it; packets have PacketSize bytes of any value.    *)
(***************************************************************************)
EXTENDS Integers, Sequences, FiniteSets

CONSTANTS
  Fds,          \* descriptors of the process
  Clients,      \* bound: the clients that ever connect, in order
  PacketSize,
  MaxBytes,     \* bound: bytes a client sends
  MaxInits      \* bound: sockets of tcp_server_init that are open

ASSUME TCPAssumption ==
  /\ Fds \subseteq Nat \ {0} /\ IsFiniteSet(Fds) /\ Cardinality(Fds) >= 3
  /\ Clients \in Nat /\ PacketSize \in Nat \ {0} /\ MaxBytes \in Nat /\ MaxInits \in Nat

VARIABLES
  pc,           \* "new", "idle", "read" or "write" (a client is there), or "destroyed"
  table,        \* what each descriptor refers to: a client, or one of the below
  socked_fd, client_fd, stream,  \* the last is the descriptor of m_stream; 0 for none
  ibuf,         \* internal_buffer
  backlog,      \* clients that wait to be accepted
  connects,     \* clients that have connected so far
  wire, sent,   \* per client: bytes that wait to be read; bytes sent
  gone,         \* clients that have closed their end
  initialized,  \* observer: has tcp_server_init succeeded?
  newest,       \* observer: the client accepted last
  packet,       \* observer: the last packet returned
  foreignClose  \* observer: the server has closed a descriptor that was not its own

peerVars == <<backlog, connects, wire, sent, gone>>
fdVars == <<table, socked_fd, client_fd, stream>>
observers == <<initialized, newest, packet, foreignClose>>
vars == <<pc, fdVars, ibuf, peerVars, observers>>

Free == 0
Listening == -1
Foreign == -2

TypeOK ==
  /\ pc \in {"new", "idle", "read", "write", "destroyed"}
  /\ table \in [Fds -> {Free, Listening, Foreign} \cup 1..Clients]
  /\ {socked_fd, client_fd, stream} \subseteq Fds \cup {0} /\ initialized \in BOOLEAN
  /\ ibuf \in Seq(1..Clients) /\ Len(ibuf) < PacketSize
  /\ backlog \in Seq(1..Clients) /\ connects \in 0..Clients /\ newest \in 0..Clients
  /\ wire \in [1..Clients -> 0..MaxBytes] /\ sent \in [1..Clients -> 0..MaxBytes]
  /\ gone \subseteq 1..Clients /\ packet \in Seq(1..Clients) /\ foreignClose \in BOOLEAN

\* The constructor leaves the descriptors as they are.
Init ==
  /\ pc = "new" /\ stream = 0
  /\ socked_fd \in Fds \cup {0} /\ client_fd \in Fds \cup {0}
  /\ table = [n \in Fds |-> Free]
  /\ ibuf = <<>> /\ backlog = <<>> /\ connects = 0 /\ gone = {}
  /\ wire = [k \in 1..Clients |-> 0] /\ sent = [k \in 1..Clients |-> 0]
  /\ initialized = FALSE /\ newest = 0 /\ packet = <<>> /\ foreignClose = FALSE

-----------------------------------------------------------------------------
\* The clients.
Connect ==
  /\ connects < Clients /\ pc # "new"
  /\ connects' = connects + 1 /\ backlog' = Append(backlog, connects + 1)
  /\ UNCHANGED <<pc, fdVars, ibuf, wire, sent, gone, observers>>

ClientSends(k) ==
  /\ k <= connects /\ k \notin gone /\ sent[k] < MaxBytes
  /\ sent' = [sent EXCEPT ![k] = @ + 1] /\ wire' = [wire EXCEPT ![k] = @ + 1]
  /\ UNCHANGED <<pc, fdVars, ibuf, backlog, connects, gone, observers>>

ClientCloses(k) ==
  /\ k <= connects /\ k \notin gone
  /\ gone' = gone \cup {k}
  /\ UNCHANGED <<pc, fdVars, ibuf, backlog, connects, wire, sent, observers>>

\* The rest of the process opens and closes descriptors of its own.
NextFd(n) == table[n] = Free /\ \A m \in Fds : table[m] = Free => n <= m

ForeignOpen(n) ==
  /\ NextFd(n)
  /\ table' = [table EXCEPT ![n] = Foreign]
  /\ UNCHANGED <<pc, socked_fd, client_fd, stream, ibuf, peerVars, observers>>
ForeignCloses(n) ==
  /\ table[n] = Foreign
  /\ table' = [table EXCEPT ![n] = Free]
  /\ UNCHANGED <<pc, socked_fd, client_fd, stream, ibuf, peerVars, observers>>

-----------------------------------------------------------------------------
\* tcp_server_init, whose bind may fail: the socket then stays open.
TcpServerInit(n) ==
  /\ pc = "new" /\ NextFd(n) /\ Cardinality({m \in Fds : table[m] = Listening}) < MaxInits
  /\ socked_fd' = n /\ table' = [table EXCEPT ![n] = Listening]
  /\ \/ client_fd' = 0 /\ pc' = "idle" /\ initialized' = TRUE
     \/ UNCHANGED <<client_fd, pc, initialized>>
  /\ UNCHANGED <<stream, ibuf, peerVars, newest, packet, foreignClose>>

\* ::close of the server's descriptors ns.
Closed(ns) == [n \in Fds |-> IF n \in ns THEN Free ELSE table[n]]
Mine(n) == table[n] = Listening \/ (table[n] = newest /\ newest # 0)
NoteClose(ns) == foreignClose' = (foreignClose \/ \E n \in ns : ~Mine(n))

\* Fault: the old client's descriptor stays open.
OldClientKept == {}

OldClient == {client_fd} \ {0}

\* checkClientConnection finds a client: it takes the place of the old one.
Accept(n, call) ==
  /\ pc = "idle" /\ backlog # <<>> /\ NextFd(n)
  /\ newest' = Head(backlog) /\ backlog' = Tail(backlog)
  /\ table' = [Closed(OldClient) EXCEPT ![n] = Head(backlog)]
  /\ NoteClose(OldClient)
  /\ client_fd' = n /\ stream' = n
  /\ pc' = call
  /\ UNCHANGED <<socked_fd, ibuf, connects, wire, sent, gone, initialized, packet>>

\* It finds none, or no descriptor for it; without a client the call returns.
NoAccept(call) ==
  /\ pc = "idle" /\ (backlog = <<>> \/ \A n \in Fds : table[n] # Free)
  /\ client_fd # 0
  /\ pc' = call
  /\ UNCHANGED <<fdVars, ibuf, peerVars, observers>>

Source == IF stream = 0 THEN 0 ELSE table[stream]

NoBytes == IF Source > 0 THEN wire[Source] = 0 ELSE TRUE

EndsPacket(len) == len = PacketSize

\* Driver::readPacket: bytes of whoever is behind the stream's descriptor.
ReadBytes(n) ==
  /\ pc = "read" /\ ~NoBytes /\ n <= wire[Source] /\ Len(ibuf) + n <= PacketSize
  /\ LET new == ibuf \o [i \in 1..n |-> Source]
     IN IF EndsPacket(Len(new))
        THEN packet' = new /\ ibuf' = <<>> /\ pc' = "idle"
        ELSE ibuf' = new /\ UNCHANGED <<packet, pc>>
  /\ wire' = [wire EXCEPT ![Source] = @ - n]
  /\ UNCHANGED <<fdVars, backlog, connects, sent, gone, initialized, newest, foreignClose>>

\* A TimeoutError, or an UnixError that is thrown on (readPacket without timeouts
\* throws on EPIPE too), for want of bytes or of a stream; a write has its bytes sent.
CallEnds ==
  /\ pc = "write" \/ (pc = "read" /\ NoBytes)
  /\ pc' = "idle"
  /\ UNCHANGED <<fdVars, ibuf, peerVars, observers>>

\* Fault: client_fd keeps the descriptor that has been closed.
NoClientStale == client_fd

NoClient == 0
\* EPIPE: the client is dropped, and m_stream left as it is.
BrokenPipe ==
  /\ pc \in {"read", "write"} /\ stream # 0 /\ Source \in gone
  /\ table' = Closed({client_fd}) /\ NoteClose({client_fd})
  /\ client_fd' = NoClient
  /\ pc' = "idle"
  /\ UNCHANGED <<socked_fd, stream, ibuf, peerVars, initialized, newest, packet>>

\* Driver::close.
Close ==
  /\ pc = "idle" /\ stream' = 0
  /\ UNCHANGED <<pc, table, socked_fd, client_fd, ibuf, peerVars, observers>>

\* ~TCPDriver.
Destroy ==
  /\ pc \in {"new", "idle"}
  /\ LET ns == {socked_fd, client_fd} \ {0}
     IN table' = Closed(ns) /\ NoteClose(ns)
  /\ pc' = "destroyed"
  /\ UNCHANGED <<socked_fd, client_fd, stream, ibuf, peerVars, initialized, newest, packet>>

\* Bound: nothing is followed once the server is gone.
Next ==
  /\ pc # "destroyed"
  /\ \/ Connect \/ \E k \in 1..Clients : ClientSends(k) \/ ClientCloses(k)
     \/ \E n \in Fds : ForeignOpen(n) \/ ForeignCloses(n) \/ TcpServerInit(n)
     \/ \E call \in {"read", "write"} : NoAccept(call) \/ \E n \in Fds : Accept(n, call)
     \/ (\E n \in 1..PacketSize : ReadBytes(n)) \/ CallEnds \/ BrokenPipe \/ Close \/ Destroy

Spec == Init /\ [][Next]_vars

-----------------------------------------------------------------------------
\* A server that was initialized never closes a descriptor a second time, nor one that
\* the process has meanwhile opened for something else.
ClosesItsOwnOnly == initialized => ~foreignClose

\* While there is a client, the Driver talks to it, unless it has been closed: never
\* to an older client, nor to a descriptor that is used for something else.  Clients that
\* have been replaced, or whose end a write found (EPIPE), leave no descriptor open; the
\* one that ended otherwise keeps its own till the next is accepted.
OnlyTheNewestClient ==
  /\ pc \notin {"new", "destroyed"} /\ client_fd # 0 => stream \in {0, client_fd} /\ table[client_fd] = newest
  /\ \A n \in Fds : table[n] > 0 => n = client_fd /\ pc # "destroyed"

-----------------------------------------------------------------------------
(* What texts of the repository say and the code does not keep: TLC refutes each
   with the constants that the README gives. *)

\* TCPDriver.hpp:7-8: "This class implements an TCP Server for single Client.  If more
\* thn one client tryes to connect, the old one is disconnected".
PacketsOfOneClient ==
  \A i, j \in 1 .. Len(packet) : packet[i] = packet[j]
=============================================================================
