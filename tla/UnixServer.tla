----------------------------- MODULE UnixServer -----------------------------
(***************************************************************************)
(* UnixServerStream: the listening socket of a unixstreamserver:// driver, *)
(* and the SocketStream of the one client it accepts.                      *)
(*                                                                         *)
(* A client is accepted by waitRead or by read, the first time either      *)
(* finds one waiting.  A stream's calls do not overlap, and what lies      *)
(* between select() and accept() changes nothing for a client in the       *)
(* backlog, so each call is one step.  Clients are numbered as they        *)
(* connect; a byte is its client's number and its place.                   *)
(***************************************************************************)
EXTENDS Integers, Sequences

CONSTANTS
  Clients,      \* bound: clients that connect
  MaxBytes,     \* bound: bytes sent each way
  Capacity,     \* bytes the kernel holds for the client
  Sizes         \* sizes of the buffers of read and write; 0 for a Driver's when it is full

ASSUME UnixAssumption ==
  Clients \in Nat \ {0} /\ MaxBytes \in Nat /\ Capacity \in Nat /\ Sizes \subseteq Nat

VARIABLES
  connects,     \* clients that have connected
  gone,         \* clients that have closed their end
  accepted,     \* clients accepted, first to last
  client,       \* m_client_stream: the client it talks to, 0 for none
  eof,          \* m_eof of m_client_stream
  noRoom,       \* observer: has a read without room found bytes?
  sent, wire,   \* per client: bytes sent; those that wait to be read
  toClient,     \* bytes the kernel holds for the client
  reset,        \* does an ECONNRESET wait for a read?  (The client left bytes unread.)
  got,          \* observer: bytes read() has returned
  taken,        \* observer: bytes write() has said to be written
  delivered,    \* observer: bytes that went into a client's socket
  result        \* how the last call ended

clientVars == <<connects, gone, sent>>
eofVars == <<eof, noRoom>>
streamVars == <<accepted, client, eofVars, reset>>
observers == <<got, taken, delivered, result>>
vars == <<clientVars, streamVars, wire, toClient, observers>>

Backlog == connects > Len(accepted)

TypeOK ==
  /\ connects \in 0 .. Clients /\ gone \subseteq 1 .. connects
  /\ accepted \in Seq(1 .. Clients) /\ client \in 0 .. Clients
  /\ eof \in BOOLEAN /\ noRoom \in BOOLEAN
  /\ sent \in [1 .. Clients -> 0 .. MaxBytes] /\ wire \in [1 .. Clients -> 0 .. MaxBytes]
  /\ toClient \in 0 .. Capacity /\ reset \in BOOLEAN
  /\ got \in Seq((1 .. Clients) \X (1 .. MaxBytes))
  /\ taken \in Nat /\ delivered \in Nat
  /\ result \in {"none", "data", "nothing", "true", "false", "unix_error"}

Init ==
  /\ connects = 0 /\ gone = {} /\ accepted = <<>> /\ client = 0 /\ eof = FALSE /\ noRoom = FALSE
  /\ sent = [k \in 1 .. Clients |-> 0] /\ wire = [k \in 1 .. Clients |-> 0]
  /\ toClient = 0 /\ reset = FALSE /\ got = <<>> /\ taken = 0 /\ delivered = 0 /\ result = "none"

-----------------------------------------------------------------------------
\* The clients.
Connect ==
  /\ connects < Clients /\ connects' = connects + 1
  /\ UNCHANGED <<gone, sent, streamVars, wire, toClient, observers>>

ClientSends(k) ==
  /\ k <= connects /\ k \notin gone /\ sent[k] < MaxBytes
  /\ sent' = [sent EXCEPT ![k] = @ + 1] /\ wire' = [wire EXCEPT ![k] = @ + 1]
  /\ UNCHANGED <<connects, gone, streamVars, toClient, observers>>

ClientReads ==
  /\ toClient > 0 /\ client \notin gone /\ toClient' = toClient - 1
  /\ UNCHANGED <<clientVars, streamVars, wire, observers>>

ClientCloses(k) ==
  /\ k <= connects /\ k \notin gone /\ gone' = gone \cup {k}
  /\ toClient' = (IF k = client THEN 0 ELSE toClient)
  /\ reset' = (reset \/ (k = client /\ toClient > 0))
  /\ UNCHANGED <<connects, sent, accepted, client, eofVars, wire, observers>>

-----------------------------------------------------------------------------
\* Fault: a client that waits takes the place of the one there is.
AcceptsAlways == Backlog

Accepts == client = 0 /\ Backlog
NewClient == IF Accepts THEN Len(accepted) + 1 ELSE client
Accept == client' = NewClient /\ accepted' = IF Accepts THEN Append(accepted, NewClient) ELSE accepted

\* select() on the listening socket, or on the client's.
WaitRead ==
  LET ready == IF client = 0 THEN Backlog ELSE wire[client] > 0 \/ client \in gone
  IN /\ Accept /\ result' = (IF ready THEN "true" ELSE "false")
     /\ UNCHANGED <<clientVars, eofVars, wire, toClient, reset, got, taken, delivered>>

\* Fault: no bytes for now are taken for no bytes any more.
AtEndWhenEmpty(k) == wire[k] = 0

AtEnd(k) == wire[k] = 0 /\ k \in gone

\* Fault: only waitRead looks for a client.
AcceptInWaitReadOnly == UNCHANGED <<client, accepted>>

AcceptInRead == Accept

\* Bytes wait, and recv() returns 0 for want of room.
NoRoom(k, size) == wire[k] > 0 /\ size = 0
Moved(n) == IF n = 0 THEN "nothing" ELSE "data"

\* SocketStream::read of the client, who may have been accepted for it.
Read(size) ==
  /\ AcceptInRead
  /\ IF client' = 0 \/ wire[client'] = 0
     THEN /\ result' = (IF reset THEN "unix_error" ELSE "nothing") /\ reset' = FALSE
          /\ UNCHANGED <<wire, got>>
     ELSE LET k == client'
              n == IF wire[k] < size THEN wire[k] ELSE size
              first == sent[k] - wire[k]
          IN /\ got' = got \o [i \in 1 .. n |-> <<k, first + i>>]
             /\ wire' = [wire EXCEPT ![k] = @ - n]
             /\ result' = Moved(n) /\ UNCHANGED reset
  /\ eof' = (client' # 0 /\ (eof \/ (AtEnd(client') /\ ~reset) \/ NoRoom(client', size)))
  /\ noRoom' = (noRoom \/ (client' # 0 /\ NoRoom(client', size)))
  /\ UNCHANGED <<clientVars, toClient, taken, delivered>>

\* Without a client, write() says that everything has been written.
WriteToNobody(size) ==
  /\ client = 0 /\ taken + size <= MaxBytes
  /\ taken' = taken + size /\ result' = Moved(size)
  /\ UNCHANGED <<clientVars, streamVars, wire, toClient, got, delivered>>

\* MSG_NOSIGNAL makes EPIPE of what would be a SIGPIPE.
Write(size) ==
  /\ client # 0 /\ taken + size <= MaxBytes
  /\ LET room == Capacity - toClient
         n == IF room < size THEN room ELSE size
     IN IF client \in gone
        THEN result' = "unix_error" /\ UNCHANGED <<toClient, taken, delivered>>
        ELSE /\ toClient' = toClient + n /\ taken' = taken + n /\ delivered' = delivered + n
             /\ result' = Moved(n)
  /\ UNCHANGED <<clientVars, streamVars, wire, got>>

Reads == \E size \in Sizes : Read(size)

Next ==
  \/ Connect \/ ClientReads \/ \E k \in 1 .. Clients : ClientSends(k) \/ ClientCloses(k)
  \/ WaitRead \/ Reads
  \/ \E size \in Sizes : WriteToNobody(size) \/ Write(size)

Spec == Init /\ [][Next]_vars

\* A program that reads over and over (MainCat.cpp:71-72), and mostly with room for what it
\* reads; nothing is asked of clients.
ReadsWithRoom == \E size \in Sizes \ {0} : Read(size)
LiveSpec == Spec /\ WF_vars(ReadsWithRoom)

-----------------------------------------------------------------------------
\* Driver.hpp:265: "The server will only accept the very first client".  read() returns
\* that client's bytes, each once and in order, and those of no other.
OnlyTheFirstClient ==
  /\ \A i \in 1 .. Len(got) : got[i] = <<1, i>>
  /\ Len(accepted) <= 1

\* eof() (Driver.hpp:575, "end-of-file or disconnected"): only once the client is gone
\* and all it had sent has been read; or after a read without room for a byte while bytes
\* waited, which recv() answers as it does an end (IOStream.cpp:177, Driver.cpp:1019).
EofAfterLastByte == eof => noRoom \/ (client \in gone /\ Len(got) = sent[client])

\* What the first client sends is read, whether it stays or not, and its end is noticed,
\* by a program that only calls read(), and goes on after an error and after eof().
FirstClientIsServed ==
  /\ \A n \in 1 .. MaxBytes : (sent[1] >= n) ~> (Len(got) >= n)
  /\ (1 \in gone) ~> eof

-----------------------------------------------------------------------------
(* What texts of the repository say and the code does not keep: TLC refutes each
   with the constants that the README gives. *)

\* Driver.hpp:575: "Whether the current stream is finished (e.g. end-of-file or
\* disconnected)", without exception.
EofMeansFinished == eof => client \in gone /\ Len(got) = sent[client]

\* Driver.hpp:508-511: writePacket "Tries to write a packet to the file descriptor",
\* and throws a timeout_error or unix_error otherwise.  What write() claims to have
\* written went into a socket.
TakenIsDelivered == taken = delivered
=============================================================================
