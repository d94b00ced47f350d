------------------------------ MODULE Opening -------------------------------
(***************************************************************************)
(* How a Driver comes by its main stream: openURI and the functions behind *)
(* it, setFileDescriptor, setMainStream, close and the destructor.         *)
(*                                                                         *)
(* An opening is a list of steps, each of which may throw.  The descriptor *)
(* it is at work on is a plain number, which a FileGuard watches in some   *)
(* of the functions, until a stream owns it.  Descriptors are given out    *)
(* lowest first, to the driver and to the rest of the process alike.       *)
(***************************************************************************)
EXTENDS SerialPort

CONSTANTS
  Fds,
  Texts,         \* what openURI is called with
  Descriptions,  \* of a serial configuration: what parseSerialConfiguration is
  Rates,         \* what setSerialBaudrate is called with
  StreamFails,   \* may setting the O_NONBLOCK flag fail?
  HandsTwice,    \* may the user hand over a descriptor the driver has already?
  MaxTries       \* bound: addresses tried by one opening

ASSUME OpeningAssumption ==
  /\ Fds \subseteq Nat \ {0} /\ IsFiniteSet(Fds) /\ Rates \subseteq Nat \ {0}
  /\ {StreamFails, HandsTwice} \subseteq BOOLEAN /\ MaxTries \in Nat

VARIABLES
  table,        \* who has each descriptor open: "nobody", "driver" or "user"
  stream, auto, \* m_stream: its descriptor, 0 for none, or Test; its auto_close
  tty,          \* is it a serial line?
  kind, todo,   \* what is being opened, and the steps left
  sfd, sauto,   \* the descriptor at work, and its auto_close
  sconf,        \* the rate and the configuration to give to a serial line
  tries,        \* addresses tried
  result        \* how the last call ended

localVars == <<kind, todo, sfd, sauto, sconf, tries>>
streamVars == <<stream, auto, tty>>
vars == <<table, streamVars, localVars, result, lineVars>>

knownSchemes == {"serial", "tcp", "udp", "udpserver", "file", "test", "fd",
                 "unixstreamserver", "unixstream", "unixdgramserver", "unixdgram"}
Kinds == knownSchemes \cup {"udpclient"}
GuardedKinds == {"serial", "unixstreamserver", "unixstream", "unixdgramserver", "unixdgram"}

Test == -1
Idle == todo = <<>>
NoConf == [rate |-> Unknown, configuration |-> DefaultConfiguration]

TypeOK ==
  /\ table \in [Fds -> {"nobody", "driver", "user"}]
  /\ stream \in Fds \cup {0, Test} /\ auto \in BOOLEAN /\ tty \in BOOLEAN
  /\ kind \in Kinds \cup {"none"}
  /\ todo \in Seq({"open", "address", "peer", "raw", "baudrate", "check", "stream",
                   "nodelay", "configure"})
  /\ sfd \in Fds \cup {0} /\ sauto \in BOOLEAN /\ tries \in 0 .. MaxTries
  /\ sconf \in [rate : Nat, configuration : Configurations]
  /\ result \in {"none", "returns", "throws"}
  /\ LineTypeOK

Init ==
  /\ table = [n \in Fds |-> "nobody"] /\ stream = 0 /\ auto = TRUE /\ tty = FALSE
  /\ kind = "none" /\ todo = <<>> /\ sfd = 0 /\ sauto = TRUE /\ sconf = NoConf /\ tries = 0
  /\ result = "none" /\ LineInit

-----------------------------------------------------------------------------
NextFd(n) == table[n] = "nobody" /\ \A m \in Fds : table[m] = "nobody" => n <= m
NoFd == \A n \in Fds : table[n] # "nobody"

\* The rest of the process.
UserOpens(n) ==
  /\ NextFd(n) /\ table' = [table EXCEPT ![n] = "user"]
  /\ UNCHANGED <<streamVars, localVars, result, lineVars>>

UserCloses(n) ==
  /\ table[n] = "user" /\ n \notin {stream, sfd} /\ table' = [table EXCEPT ![n] = "nobody"]
  /\ UNCHANGED <<streamVars, localVars, result, lineVars>>

-----------------------------------------------------------------------------
\* openURI_UDP: is the socket to be connected, and which errors will be ignored?
Local(u) == GetOption(u, "local_port") # <<>>
Connected(u) ==
  IF GetOption(u, "connected") = <<>> THEN ~Local(u) ELSE GetOption(u, "connected") = <<"1">>
Ignored(u, option, default) ==
  GetOption(u, option) = <<"1">> \/ (GetOption(u, option) = <<>> /\ default)
UDPOptions(u) ==
  [connected |-> Connected(u),
   connrefused |-> Ignored(u, "ignore_connrefused", ~Connected(u) \/ Local(u)),
   hostunreach |-> Ignored(u, "ignore_hostunreach", FALSE),
   netunreach |-> Ignored(u, "ignore_netunreach", FALSE)]
UDPRefused(u) ==
  \/ u.port = 0 \/ (Local(u) /\ ~IsNumber(GetOption(u, "local_port")))
  \/ GetOption(u, "ignore_connrefused") = <<"0">> /\ ~Connected(u)

\* openURI finds the text malformed, or asking for what cannot be had.
Refused(u) ==
  \/ ~u.ok
  \/ u.scheme \notin {<<s>> : s \in knownSchemes}
  \/ u.scheme \in {<<"serial">>, <<"tcp">>} /\ u.port = 0
  \/ u.scheme = <<"serial">> /\ ~FromURI(u).ok
  \/ u.scheme = <<"udp">> /\ UDPRefused(u)
  \/ u.scheme \in {<<"udpserver">>, <<"fd">>} /\ ~IsNumber(u.host)

\* What each opening does: get a descriptor ("open": one attempt; "address": one for
\* each address found), set it up ("check": bind, listen or connect; "peer": find the
\* peer's address with a socket that is closed again), make it a stream.
Steps(k, connected) ==
  CASE k \in {"file", "unixdgram"} -> <<"open", "stream">>
    [] k \in {"unixstreamserver", "unixstream", "unixdgramserver"} -> <<"open", "check", "stream">>
    [] k = "serial" -> <<"open", "raw", "baudrate", "stream", "configure">>
    [] k = "tcp" -> <<"address", "stream", "nodelay">>
    [] k \in {"udpclient", "udpserver"} -> <<"address", "stream">>
    [] k = "udp" -> <<"address", IF connected THEN "check" ELSE "peer", "stream">>
    [] OTHER -> <<"stream">>

Begin(k, conf) ==
  /\ Idle /\ kind' = k /\ tries' = 0 /\ sconf' = conf
  /\ result' = "none" /\ UNCHANGED <<table, streamVars, lineVars>>

\* setFileDescriptor: with auto_close the descriptor is the driver's from now on.
SetFileDescriptor(n, auto_close) ==
  /\ sfd' = n /\ sauto' = auto_close
  /\ table[n] = "user" \/ (HandsTwice /\ stream = n)
  /\ todo' = Steps("fd", TRUE) /\ Begin("fd", NoConf)

\* What is asked for by a text: to throw, or an opening.
Request(t) ==
  LET u == ParseForOpening(t) IN
  IF Refused(u) THEN [kind |-> "none"]
  ELSE [kind |-> u.scheme[1],
        fd |-> IF u.scheme = <<"fd">> THEN Number(u.host) ELSE 0,
        auto |-> GetOptionOr(u, "auto_close", <<"1">>) = <<"1">>,
        udp |-> UDPOptions(u),
        conf |-> IF u.scheme = <<"serial">>
                 THEN [rate |-> u.port, configuration |-> FromURI(u)] ELSE NoConf]
Requests == [t \in Texts |-> Request(t)]

\* openURI; a TestStream that is there is kept.
OpenURI(t) ==
  LET r == Requests[t] IN
  /\ Idle
  /\ CASE r.kind = "none" \/ (r.kind = "test" /\ stream = Test) ->
            /\ result' = IF r.kind = "none" THEN "throws" ELSE "returns"
            /\ UNCHANGED <<table, streamVars, localVars, lineVars>>
       [] r.kind = "fd" -> r.fd \in Fds /\ SetFileDescriptor(r.fd, r.auto)
       [] OTHER -> /\ todo' = Steps(r.kind, r.udp.connected) /\ Begin(r.kind, r.conf)
                   /\ sfd' = 0 /\ sauto' = TRUE

\* openUDP with the name of a host.
OpenUDP ==
  /\ todo' = Steps("udpclient", TRUE) /\ Begin("udpclient", NoConf)
  /\ sfd' = 0 /\ sauto' = TRUE

Start ==
  \/ \E t \in Texts : OpenURI(t)
  \/ OpenUDP
  \/ \E n \in Fds, a \in BOOLEAN : SetFileDescriptor(n, a)

-----------------------------------------------------------------------------
At(s) == ~Idle /\ Head(todo) = s
End(r) ==
  /\ todo' = <<>> /\ kind' = "none" /\ sfd' = 0 /\ sauto' = TRUE /\ sconf' = NoConf
  /\ tries' = 0 /\ result' = r

\* The step is done, for the descriptor n: after the last one, openURI returns.
StepDone(n) ==
  IF Len(todo) = 1 THEN End("returns")
  ELSE todo' = Tail(todo) /\ sfd' = n /\ UNCHANGED <<kind, sauto, sconf, tries, result>>

\* The FileGuard is released before the stream is made.
Guarded == kind \in GuardedKinds /\ ~At("stream")

Closed(n, tab) == IF n \in Fds THEN [tab EXCEPT ![n] = "nobody"] ELSE tab

Throw ==
  /\ table' = IF Guarded THEN Closed(sfd, table) ELSE table
  /\ End("throws") /\ UNCHANGED streamVars

GetDescriptor(n) ==
  /\ At("open") \/ At("address")
  /\ NextFd(n) /\ table' = [table EXCEPT ![n] = "driver"]
  /\ StepDone(n) /\ UNCHANGED <<streamVars, lineVars>>

\* Fault: the socket that could not be bound or connected stays open.
FailedAddressKept(n) == [table EXCEPT ![n] = "driver"]

FailedAddress(n) == table
\* createIPServerSocket, createIPClientSocket: try the next address.
NextAddress(n) ==
  /\ At("address") /\ tries < MaxTries /\ NextFd(n)
  /\ table' = FailedAddress(n) /\ tries' = tries + 1
  /\ UNCHANGED <<streamVars, kind, todo, sfd, sauto, sconf, result, lineVars>>

SetUp ==
  /\ \/ (At("check") \/ (At("peer") /\ ~NoFd)) /\ UNCHANGED lineVars
     \/ At("raw") /\ Raw
     \/ At("baudrate") /\ BaudrateSet(sconf.rate)
  /\ StepDone(sfd) /\ UNCHANGED <<table, streamVars>>

StepFails ==
  /\ \/ (\E s \in {"open", "address", "check", "peer", "raw"} : At(s)) /\ UNCHANGED lineVars
     \/ At("baudrate") /\ BaudrateNotSet(sconf.rate)
  /\ Throw

StreamThrows == At("stream") /\ sfd # 0 /\ StreamFails /\ Throw /\ UNCHANGED lineVars

\* Fault: the old stream closes what is not its own.
OldStreamClosedAlways(tab) == Closed(stream, tab)

OldStreamDeleted(tab) == IF auto THEN Closed(stream, tab) ELSE tab

\* setMainStream, once the new stream has been made.
SetMainStream ==
  /\ At("stream")
  /\ stream' = (IF kind = "test" THEN Test ELSE sfd) /\ auto' = sauto
  /\ tty' = (kind = "serial")
  /\ LET handed == IF sfd # 0 /\ sauto THEN [table EXCEPT ![sfd] = "driver"] ELSE table
     IN table' = OldStreamDeleted(handed)
  /\ StepDone(0) /\ UNCHANGED lineVars

\* setSerialConfiguration; setsockopt(TCP_NODELAY).
Configure ==
  /\ \/ At("configure") /\ ConfigurationSet(sconf.configuration)
     \/ At("nodelay") /\ UNCHANGED lineVars
  /\ StepDone(sfd) /\ UNCHANGED <<table, streamVars>>

\* Fault: close() leaves the stream in place.
NoStreamStale == stream

NoStream == 0
Closing ==
  /\ table' = OldStreamDeleted(table) /\ stream' = NoStream /\ tty' = FALSE
  /\ UNCHANGED auto

ConfigureFails ==
  /\ \/ At("configure") /\ UNCHANGED <<table, streamVars>>
     \/ At("nodelay") /\ Closing
  /\ End("throws") /\ UNCHANGED lineVars

\* close, or the end of the Driver and a new one in its place.
Close ==
  /\ Idle /\ stream # 0 /\ Closing /\ result' = "returns"
  /\ UNCHANGED <<localVars, lineVars>>

\* What is not a serial line has no termios to read or write: false, or an exception.
SetSerialBaudrate(rate) ==
  /\ Idle
  /\ \/ tty /\ BaudrateSet(rate) /\ result' = "returns"
     \/ tty /\ BaudrateNotSet(rate) /\ result' = "throws"
     \/ ~tty /\ result' = "throws" /\ UNCHANGED lineVars
  /\ UNCHANGED <<table, streamVars, localVars>>

SetSerialConfiguration(d) ==
  LET c == ParseSerialConfiguration(d) IN
  /\ Idle
  /\ \/ tty /\ c.ok /\ ConfigurationSet(c) /\ result' = "returns"
     \/ result' = "throws" /\ UNCHANGED lineVars
  /\ UNCHANGED <<table, streamVars, localVars>>

Next ==
  \/ \E n \in Fds : UserOpens(n) \/ UserCloses(n)
  \/ Start
  \/ \E n \in Fds : GetDescriptor(n) \/ NextAddress(n)
  \/ SetUp \/ StepFails \/ StreamThrows \/ SetMainStream
  \/ Configure \/ ConfigureFails \/ Close
  \/ (\E r \in Rates : SetSerialBaudrate(r))
  \/ (\E d \in Descriptions : SetSerialConfiguration(d))

Spec == Init /\ [][Next]_vars

-----------------------------------------------------------------------------
\* Driver.hpp:368 on setFileDescriptor: "Initializes the file descriptor with the given
\* value".  Between calls, the stream's descriptor is open, and is still what the
\* stream was made for; whichever openings have failed in between.
StreamIsOpen ==
  Idle /\ stream \in Fds => table[stream] = IF auto THEN "driver" ELSE "user"

\* Descriptors the driver has open and knows nothing of.
Lost == {n \in Fds : table[n] = "driver" /\ n # sfd /\ (n = stream => ~auto)}

\* Driver.hpp:368-370: with auto_close, "the file descriptor will be automatically
\* closed on exit".  No descriptor is lost when an opening fails at any of its steps,
\* or when a stream is replaced or closed, the ones without a FileGuard excepted:
\* a udp:// opening, and setting the O_NONBLOCK flag.
NoDescriptorLost ==
  [][StreamThrows \/ (kind = "udp" /\ StepFails) \/ Lost' \subseteq Lost]_vars

\* The driver never closes a descriptor that is the user's: not one handed over without
\* auto_close, nor one that the process has opened since (setMainStream, close).
UsersStayOpen ==
  [][\A n \in Fds : table[n] = "user" /\ table'[n] = "nobody" => UserCloses(n)]_vars

-----------------------------------------------------------------------------
(* What texts of the repository say and the code does not keep: TLC refutes each
   with the constants that the README gives. *)

\* Driver.hpp:405-408, of setSerialBaudrate: "Sets the baud rate value for the serial
\* connection [...] true on success".
TrueMeansTheRate ==
  [][\A r \in Rates : SetSerialBaudrate(r) /\ result' = "returns"
        => 98 * r <= 100 * Rate(line') /\ 100 * Rate(line') <= 102 * r]_vars

\* Driver.hpp:408: "true on success, false on failure".
FalseLeavesTheRate ==
  [][\A r \in Rates : SetSerialBaudrate(r) /\ result' = "throws"
        => Rate(line') = Rate(line)]_vars

\* Driver.hpp:407: "the baud rate. It can be one of the values in SERIAL_RATES".
KnownRatesCanBeSet ==
  tty /\ Idle => \A r \in Rates \cap SERIAL_RATES :
                   ENABLED (SetSerialBaudrate(r) /\ result' = "returns")

\* SerialConfiguration.hpp:38-41, of fromURI: "The following parameters are recognized:
\* [...] stop: 1 or 2".
StopIsRecognized ==
  \A t \in Texts :
    LET u == Parse(t)
    IN u.ok /\ <<"stop">> \in DOMAIN u.options
         => FromURI(u).ok /\ FromURI(u).stop = Number(GetOption(u, "stop"))

\* The same without exception.
NoneIsEverLost == Lost = {}
=============================================================================
