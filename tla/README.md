# Verification of iodrivers_base

TLA+ models of `iodrivers_base`, the C++ library under the Rock device drivers
(`src/`). The models are translated from the code, checked with TLC on small
instances and, wherever the provers reach, proved with TLAPS for every value of the
constants. `PROJECT.json` lists components, runs, mutants, theorems and hazards, and
maps each definition to the source lines it stands for.

Source files are named as they are under `src/src/`; `Driver.cpp:1017` is line 1017 of
`src/src/Driver.cpp`.

## 1. The system

| Part | State it keeps | Operations | Talks to |
|---|---|---|---|
| **Driver** (`Driver.cpp`) | `internal_buffer`/`internal_buffer_size`, `m_stream`, `m_extract_last`, `m_stats`, the three timeouts, listeners | `readPacket`, `hasPacket`, `readRaw`, `writePacket`, `clear`, `close`, `openURI` and the `open*` functions, `setFileDescriptor`, `setMainStream`, `resetStatus` | its stream, the subclass' `extractPacket`, listeners |
| **FDStream** (`IOStream.cpp:1-134`) | `m_fd`, `m_auto_close`, `m_has_eof`, `m_eof` | `waitRead`, `waitWrite`, `read`, `write`, `clear`, destructor | the kernel |
| **UDPServerStream** (`IOStream.cpp:219-382`) | the peer (`m_si_other`, `m_has_other`), the ignore options, `m_wait_read_error`, `m_eof` | the same | a datagram socket and its error queue |
| **UnixServerStream, SocketStream** (`IOStream.cpp:135-217, 469-572`) | the listening socket, `m_client_stream` | the same; `accept` | a listening socket and one client |
| **UnixDatagramStream** (`IOStream.cpp:384-467`) | the peer, `m_eof` | the same | a datagram socket |
| **Timeout** (`Timeout.cpp`) | start time, timeout | `elapsed`, `timeLeft` | the clock |
| **forward()** (`Forward.cpp`) | two cached descriptors, one buffer | one loop | two Drivers, `select()` |
| **Bus** (`Bus.cpp`) | recursive `mutex`, `parser` list, `caller` | `readPacket` for a parser or for all, `writePacket`, `addParser`, `removeParser` | parsers, threads |
| **TCPDriver** (`TCPDriver.cpp`) | `socked_fd`, `client_fd` | `tcp_server_init`, `checkClientConnection`, `readPacket`, `writePacket` | a listening socket, the Driver's stream |
| **TestStream, fixtures** (`TestStream.cpp`, `Fixture*.hpp`) | `to_driver`, `from_driver`, `expectations`, `replies`, `m_mock_mode` | `read`, `write`, `EXPECT_REPLY`, mock contexts | a Driver under test |
| **URI** (`URI.cpp`) | scheme, host, port, options | `parse`, `getOption` | `Driver::openURI` |
| **Serial lines** (`Driver.cpp:324-330, 624-835`, `SerialConfiguration.cpp`) | none; the line's termios and serial_struct are the kernel's | `openSerial`, `setSerialBaudrate`, `setSerialConfiguration`, `SerialConfiguration::fromURI` | `tcsetattr`, `ioctl` |
| **IOListener** (`IOListener.cpp`) | `m_writeBuffer`, `m_readBuffer` | `writeData`, `readData`, `flushWrite`, `flushRead` | Driver |
| **Status, exceptions** | counters | counting | Driver |
| **`iodrivers_base_forwarder`** (`MainForwarder.cpp`) | two drivers | opens both URIs and forwards, for ever | `forward()` |
| **`iodrivers_base_cat`** (`MainCat.cpp`) | none | formats what `readRaw` returns | Driver |

A driver runs in its caller's thread: a call reads from or waits for its stream, moves
bytes into the internal buffer, asks the subclass where a packet is, and returns it or
throws. Only the Bus is made for several threads. Everything else that is concurrent
is on the far side of a descriptor: devices, clients, the network, other owners of
descriptors in the process, the clock.

What is hard here, and what would make each part correct:

* **Read path.** Packets must not depend on how the bytes were cut into reads. Bytes may
  not be lost, reordered or counted wrongly when a call fails half-way, when packets are
  skipped (`m_extract_last`), or when the buffer is full. A timeout may be reported only
  once it has elapsed, and must be reported eventually although a closed peer keeps
  `select()` returning at once.
* **readRaw, writePacket.** Three deadlines that move with the bytes; short writes that
  must go on where they stopped for the descriptor, the listeners and the counters alike.
* **forward().** What one side sends reaches the other once and in order, on readiness
  information that ages while the first descriptor is served; the end of one side ends
  the loop after its last bytes have been passed on.
* **Datagrams.** An asynchronous error is reported by the kernel once, to whichever call
  comes first, and has to travel from `waitRead` to `read`.
* **Bus.** One buffer, one `caller`, many threads; each gets its own packets.
* **Descriptors.** Numbers that are closed come back as somebody else's. Openings have
  many steps and fail at each of them.
* **Texts and lines.** A URI says in one line what a dozen calls do; its options depend on one
  another. A serial line keeps its rate in two places, which are written one after the other.
* **Servers.** The client that is to be talked to may not be there yet, may be replaced,
  may be gone.
* **Mock tests.** A message is accepted, and answered, if and only if it is the one expected.

`PROJECT.json` lists such hazards under `hazards`, each at the line where it bites, with the
properties that watch it or the reason why none does.

## 2. Modules

| Module | Models |
|---|---|
| `PacketStream` | the abstract promise of the read path: packets in order, disjoint, contiguous, accepted by `extractPacket` |
| `DriverRead` | `readPacket` and every helper, `hasPacket`, `clear`, `close`, `setMainStream`, `setExtractLastPacket`, `resetStatus` over an FDStream |
| `FindPacketRef` | `findPacket` as the recursion it is, parsing of a whole stream in one go, and the properties that compare `DriverRead` with the two |
| `MCDriverRead` | extractors scaled down from the tests', and what the repository's texts say of the driver |
| `RawRead` | `readRaw` |
| `DriverWrite` | `writePacket`, `Timeout`, `FDStream::write`/`waitWrite`, a `BufferListener` that is plugged in, emptied and taken out |
| `Channels` | the abstract promise of forwarding: two channels, first in, first out, that may be started again |
| `Forward` | `forward()` between two drivers, and the loop of `iodrivers_base_forwarder` around it |
| `UDPStream` | `UDPServerStream` and `UnixDatagramStream` |
| `Bus`, `MCBus` | `Bus`, with three devices for TLC |
| `TCPServer` | `TCPDriver`, from its constructor on |
| `URI` | `URI::parse` and the older form of `udp://`, on sequences of tokens |
| `SerialPort` | serial configurations and baud rates, and what they write to a line |
| `Opening` | `openURI` from a text, all `open*` functions, `setFileDescriptor`, `setMainStream`, `setSerialBaudrate`, `setSerialConfiguration`, `close`, destructors: who owns which descriptor, and what a serial line is set to |
| `MCOpening` | the texts TLC opens; the format and the options as `README.md` of the repository documents them |
| `UnixServer` | `UnixServerStream` and its `SocketStream` |
| `MockDevice`, `MCMockDevice` | `TestStream`, the fixture, mock contexts of both frameworks |
| `DriverRead_proofs` | the theorems about `DriverRead` and `FindPacketRef` |
| `RawRead_proofs`, `DriverWrite_proofs`, `Forward_proofs`, `UDPStream_proofs` | the theorems about the module each is named after |
| `Bus_proofs` | the theorems about `Bus` and `MockDevice` |
| `Opening_proofs` | the theorems about `Opening` and `SerialPort` |
| `Servers_proofs` | the theorems about `TCPServer` and `UnixServer` |

How they fit together: `DriverRead`, `RawRead` and `DriverWrite` are the three ways through
a Driver and contain the FDStream they use. `Forward`, `Bus` and `TCPServer` are built on
top of a Driver; they have its calls as their callers see them (bytes or packets out of a
buffer in order, timeouts, end of file), which is what the read and write modules
establish. `UDPStream` and `UnixServer` are streams that may stand in for the FDStream.
`Opening` is about ownership, whichever the stream; it extends `SerialPort`, which extends
`URI`. Two abstract specifications are implemented: `PacketStream` by `DriverRead` and
`Channels` by `Forward`, both checked and proved.

### Correspondence of state and actions

**DriverRead.** `ibuf` is `internal_buffer[0 .. internal_buffer_size)`; `extractLast`,
`good`, `bad` are `m_extract_last` and the Status counters; `pc` is the place in a call:
a level of `findPacket` (`FindTooLong`, `FindIncomplete`, `FindGarbage`, `FindComplete`), pulling
bytes (`PullBytes`, reached through `ExtractOnEntry` and `ExtractAfterRead`), a read
(`ReadBytes`, `ReadNothing`, `ReadFails`), the deadline test (`Decide`) and the wait
(`WaitReadTrue`, `WaitReadFalse`, `WaitInterrupted`). `find` is what the recursion has established so far: each
level is one step, and `FindMatchesRecursion` compares the result with the recursion
written as such. Time (`elapsed`) starts with each call, as the code only ever compares
differences. `readLog` is what an attached listener has been given. The device sends
(`DeviceSend`) and closes (`DeviceClose`) at any time; any prefix of what waits may be read.

**RawRead.** `out`, `now`, `lastChar`, `global`, `received` are the locals of `readRaw`; bytes
are numbered by the device, so order and loss show. `elapsed` is real time, `now` the code's
copy of it, updated where the code updates it. `LeaveInBuffer` is an earlier `readPacket`.

**DriverWrite.** `written` is the local of `writePacket`; `elapsed`/`now` as above, in microseconds.
`start` is where in a second `start_time` lies, which is any place: `Millis` is the difference of two
readings of the clock as `Timeout.cpp` computes it, from their seconds and their microseconds, each
cut off to milliseconds. `timeout` is what `toMilliseconds` leaves of the timeout asked for. `pc` is
"left" between the test of `elapsed()` and the second reading of the clock in `timeLeft()`. `waited` is
the value handed to `select()`, computed in an int of the values `-IntLimit .. IntLimit - 1`. `Thousand`
stands for the 1000 of these units. `valid` says whether there is a stream. `listening` and `buffered` are the listener's membership in
`m_listeners` and its `m_writeBuffer`; `flushed` is what `flushWrite` has returned so far.

**Forward.** One `Select` (or `SelectInterrupted`), then `Serve` for each descriptor reported, a read (`RawRead` until
`RawReturn`, or `PacketFromBuffer`/`PacketFromStream`/`PacketTimeout`; `ReadEnd` and `ReadInterrupted` in
both), then `Write`. `seen` is `now` of `readRaw`: a call goes on while it has not seen its deadline pass,
so that the read of a first byte is followed by another look at the stream. `hasEof` are the
drivers whose stream has `m_has_eof`, which a serial line and by default `fd://` have not. `left` is the
internal buffer of each driver, `Servers` the drivers whose descriptor changes when a
client is accepted. `Reopen` is one turn of the loop in `MainForwarder.cpp`: new drivers, whose
buffers are empty, on descriptors that keep what waits in them (a device) or not (a
connection). Under the refinement mapping the channel of a side is `Under`: what is being
written, what is in `internal_buffer`, what the kernel holds.

**UDPStream.** `soError` and `queue` are the kernel's side, `waitError` is `m_wait_read_error`.
`SelectTrue`, `Peek`, `PeekIgnored`, `AfterIgnored` are the steps of `waitRead`. With `unix`, the stream is a `UnixDatagramStream`, whose `waitRead`
ends with `SelectTrue`. `ignored` starts as `openURI_UDP` leaves it.

**Bus.** `owner` is who holds `mutex`; `Call` is a thread arriving, `ReadStarts`/`WriteStarts` the
acquisition, `Find` and `ReadBytes` the read in progress, `Leave`/`ReadThrows`/`WriteEnds` the ways out.
`Extracted` is `Bus::extractPacket`, `Calls` the calls of `packedReady` it makes.

**TCPServer.** `table` is the process' descriptor table; `client_fd` and `stream` hold numbers
in it, as in the code. `Accept`/`NoAccept` are `checkClientConnection`. `pc = "new"` lasts until `tcp_server_init` has
succeeded; the constructor gives the descriptors no value, so `Init` gives them any.

**URI, SerialPort.** A text is a sequence of tokens: delimiters, words, numerals. `Parse` is
`URI::parse` with its `find_first_of` and `substr`, a malformed text being one it throws for.
`line` is what the kernel keeps of a serial line: `speed`, `size`, `parenb`, `parodd`,
`cstopb` of its termios, `custom` and `divisor` of its serial_struct; `want` the configuration and
the rate that were last set with success, and the rate the serial_struct was last written for, be it by a
call that failed afterwards. The rate of a line is that of its divisor only if `custom` is set and the speed is
38400, as in the kernel's `uart_get_divisor`.

**Opening.** `Request` is what `openURI` makes of a text. An opening is the list `todo` of steps of its kind of stream, `sfd` the descriptor
it works on, `Guarded` whether a `FileGuard` watches it. Every step may throw (`StepFails`,
`StreamThrows`, `ConfigureFails`). `table` says who has each number open.

**UnixServer.** One action per call (`WaitRead`, `Read`, `Write` and their outcomes): calls of a
stream do not overlap and nothing between `select()` and `accept()` matters to a client in
the backlog. `Sizes` has 0, the size a Driver asks for when its internal buffer is full; `noRoom` notes
that such a read has met bytes.

**MockDevice.** `to_driver`, `from_driver`, `expectations`, `replies`, `mock` are the members of
`TestStream`; `BeginContext`, `EndBoostContext`, `EndGTestContext` the constructors and
destructors of the mock contexts, which may be nested (`depth`); `MockModeOn`, `MockModeOff` are
`Fixture::setMockMode` called by the test itself.

## 3. Runs

### Runs that pass

One run per module, two for `DriverRead`.

| Run | What it shows |
|---|---|
| `DriverReadFirst` | First-packet mode, every way of chunking six bytes, read errors, end of file, `hasPacket`, `resetStatus`. The internal buffer is the unconsumed tail of what was read (`BufferIsUnconsumedTail`); each consumed byte is counted once (`EveryByteCountedOnce`); timeouts are not early and name the right deadline (`TimeoutsAreLate`); a TimeoutError leaves no complete packet behind (`NoPacketLeftBehind`); packets are cut where one pass over the whole stream cuts them (`CutsDoNotDependOnChunks`). |
| `DriverReadLast` | First and last mode in turns, with an extractor that may say anything: garbage, a packet, one never complete, one longer than the buffer. `findPacket` computes its recursion; the packet returned in last mode is the last; nothing leaves the buffer uncounted (`NoByteUncounted`); `PacketStream` is implemented (`DeliversPacketStream`); once the device has stopped sending, every call returns although the buffer is full, the peer gone or `select()` interrupted (`CallsReturn`). Streams are closed and replaced between calls. |
| `RawRead` | `readRaw` gives out buffered bytes before new ones, in order (`BytesInOrder`); comes back short only when a timeout has elapsed (`ShortMeansLate`); stays within its deadlines (`ReturnsInTime`); returns. |
| `DriverWrite` | `true` means the whole packet was taken (`TrueMeansSent`); `tx` counts whole packets; a listener holds exactly what went out while it was plugged in, also over retries and flushes (`ListenersSeeTheWire`); a write gives up in its loop only when its timeout is over, and in `waitWrite` less than a millisecond before at most (`WriteTimeoutsAreLate`); calls return even on endless `ENOBUFS`. |
| `Forward` | `forward()` and the forwarder around it implement `Channels` (`ImplementsChannels`): nothing is lost, doubled or reordered, a return means that a closed side is drained, and what is dropped between two rounds is the rest of a channel. The close of a side whose stream knows an end of file ends the loop (`CloseEndsForward`); both sides are served, even if one has closed and its stream does not know. |
| `UDPStream` | Errors that are not ignored are not lost between wait and read, though the kernel tells of each only once (`ErrorsAreNotLost`); datagrams keep their order through the peek; replies go to the last sender, on UDP and Unix sockets; waits are not short and end. |
| `Bus` | A read for a parser returns that parser's packet, whatever other threads read for while it waited for the mutex. |
| `TCPServer` | Once initialized, be it at the second attempt, and through replaced and broken clients, the driver closes only its own descriptors (`ClosesItsOwnOnly`), talks to the newest client and leaves no other one's descriptor open (`OnlyTheNewestClient`). |
| `MockDevice` | In mock mode the messages accepted are the first of those expected, in order and byte for byte, and the device has answered these and no others, over contexts of either framework, in one another too. |
| `Opening` | Through all openings, failures and replacements the stream's descriptor is open, the driver never closes one of the user's, and loses none, unless a `udp://` opening or setting `O_NONBLOCK` fails. A serial line has the configuration last set with success, and the rate, as long as no call has failed half-way and no ioctl been refused; after those it may have lost a custom rate or 38400, to the one the serial_struct was last written for and to no other (`LineIsAsAsked`). Texts mean what their documentation says (`OpensAsWritten`). |
| `UnixServer` | Only the first client is ever served; its end comes after its last byte, unless a read had no room for one (`EofAfterLastByte`); a program that keeps reading gets everything. |

Every property of these runs has a mutant in `PROJECT.json`: a plausible slip in a
modelled definition that makes TLC report just that property as violated. The mutated
forms stand in the modules, before what they would replace, marked "Fault".

The type invariant `TypeOK` is in the run of the core module. Every module has one; that
of `Bus` holds under the constants of its run, the others are proved.

### Statements the code does not keep

Modelling met texts of the repository which the code contradicts. Each is a property
at the end of its module (under "What texts of the repository say"), with the text quoted.

`ForwardServer` is a run of its own: a `unixstreamserver://` side gives `forward()` the
descriptor of its listening socket, which is taken once (`Forward.cpp:44`); after the
client is accepted, `select()` still watches the listening socket. The `readRaw` that accepts the client
still reads what comes in till its deadline; a client that closes after it has returned is not
noticed any more, and "blocks until one of the connections is closed"
(`Forward.hpp:11-12`) does not hold: `CloseEndsForward` fails, for a stream that knows an end of file.

The others are refuted by TLC when the property is put in place of those of the module's
run, with the constants changed as given:

| Property | Constants | Where | What happens |
|---|---|---|---|
| `EofMeansFinished` (`MCDriverRead`) | of `DriverReadLast`; `UserOps = {}` | `Driver.cpp:1019` | With the internal buffer full, a read of size 0 returns 0 and the stream is marked as ended. |
| `CountersCountReceivedBytes` | of `DriverReadLast`; `Modes = {TRUE}`, `UserOps = {}` | `Driver.cpp:864` | In last mode bytes passed over are counted again by the next scan. |
| `TimeoutErrorMeansTimeout` | of `DriverReadFirst`; `Signals = TRUE` | `IOStream.cpp:54` | A signal during `select()` ends `readPacket` with a TimeoutError. |
| `TimeoutEndsReading` (`MCDriverRead`) | of `DriverReadLast` | `Driver.cpp:1017` | While reads bring bytes that make no packet the deadline is not looked at, and bytes that come after it are read, against `Driver.hpp:477`. |
| `ClearEmptiesDescriptor` | of `DriverReadLast` | `Driver.cpp:135` | `clear()` leaves what the descriptor holds (`FDStream::clear` is empty), against `Driver.hpp:204`. |
| `PacketTimeoutIsOverall` (`RawRead`) | as in the run | `Driver.cpp:988` | The overall timeout starts again at the first byte, against `Driver.hpp:442-443`. |
| `NeverThrows` (`RawRead`) | `ReadErrors = FALSE`, `MayClose = FALSE` | `Driver.cpp:978` | After an end of file the inter-byte deadline is in the past; `select()` refuses the negative time and `readRaw` throws, against `Driver.hpp:449`. |
| `UnixErrorMeansIoError` (`DriverWrite`) | `WriteErrors = FALSE` | `Driver.cpp:1192` | `remaining_timeout * 1000` overflows an int. |
| `TimeoutErrorMeansTimeout` (`DriverWrite`) | as in the run | `Timeout.cpp:41` | When a second has begun since the start, cutting off makes the time that has passed a millisecond too long, and `waitWrite` gives up that much before its timeout. |
| `WriteTimeoutsAreLate` (`DriverWrite`) | `Timeouts = {9}` | `Driver.cpp:1192` | The same product wraps around to a small positive number for a timeout of 2^32 microseconds (71 minutes) or more, and `writePacket` gives up early. |
| `EveryCloseEndsForward` (`Forward`) | `Errors = FALSE` | `IOStream.cpp:79` | A serial line (`Driver.cpp:327`), or `fd://` by default (`Driver.cpp:250`), that hangs up never sets `m_eof`; its descriptor stays readable and `forward()` spins. |
| `EachSideHasItsTimeout` (`Forward`) | `Timeout1 = 3`, `Timeout2 = 0` | `Forward.cpp:74` | `timeout2` is never used. |
| `ReceivedIsSent` (`Forward`) | as in the run; `Errors = FALSE` for a shorter trace | `Forward.cpp:69` | A second packet that came with the first waits in the internal buffer for more input. |
| `EofMeansFinished` (`UDPStream`) | as in the run | `IOStream.cpp:329` | An empty datagram is an end of file. |
| `NoDataIsNoError` (`UDPStream`) | `FullBuffers = FALSE` | `IOStream.cpp:285` | EAGAIN met by the peek is kept and thrown as an error. |
| `BusyIsNoError` (`UDPStream`) | `BadChecksums = FALSE` | `IOStream.cpp:366` | `err == EAGAIN && err == ENOBUFS` never holds, so a full send buffer throws. |
| `FalseMeansNoData` (`UDPStream`) | as in the run | `IOStream.cpp:257` | With an error kept, `waitRead` returns false at once; `readRaw`, which reads after `true` only, never reads again. |
| `AnswersReachTheLastSender` (`UDPStream`) | as in the run | `IOStream.cpp:325` | An IPv6 address does not fit the `sockaddr` it is kept in, and the answer goes elsewhere. |
| `UnixClientsAreAnswered` (`UDPStream`) | as in the run | `IOStream.cpp:447` | `unixdgram://` does not bind its socket, so a server has no address to answer to. |
| `PacketsAreSomeones` (`Bus`) | as in the run | `Bus.cpp:93` | Bytes nobody wants are returned as a packet. |
| `ReadyOncePerPacket` (`Bus`) | as in the run | `Bus.cpp:87` | `packedReady` is called again for one packet while another parser waits for bytes. |
| `PacketsOfOneClient` (`TCPServer`) | as in the run | `TCPDriver.cpp:60` | The first packet of a new client may start with bytes of the old one. |
| `UnmetIsReported` (`MockDevice`) | `Frameworks = {"gtest"}` | `FixtureGTest.hpp:42` | The GTest context clears its expectations before it looks at them. It holds with `{"boost"}`. |
| `ExpectedIsAccepted` (`MockDevice`) | as in the run | `TestStream.cpp:93` | After an unexpected message the expected one is refused. |
| `AcceptedIsExpected` (`MockDevice`) | as in the run | `TestStream.cpp:72` | What is compared is everything since the last accepted message, so one message may be the rest of another. |
| `ContextTakesExpectations` (`MockDevice`) | as in the run | `FixtureGTest.hpp:41` | The end of an inner context turns the mock mode off for the outer one. |
| `NoneIsEverLost` (`Opening`) | `Texts` without those of other schemes than `udp`, `StreamFails = FALSE` | `Driver.cpp:602` | A `udp://` opening that fails late leaks its bound socket. |
| `NoneIsEverLost` (`Opening`) | `Texts` without those of other schemes than `file` | `Driver.cpp:152` | So does any opening whose stream cannot be made non-blocking. |
| `StreamIsOpen` (`Opening`) | `HandsTwice = TRUE` | `Driver.cpp:152` | `setFileDescriptor` with the descriptor the driver has already closes it. |
| `TrueMeansTheRate` (`Opening`) | `Rates = {100000}`, `IoctlFails = FALSE` | `Driver.cpp:789` | The nearest divisor gives 115200, and `setSerialBaudrate` returns true. |
| `TrueMeansTheRate` (`Opening`) | as in the run | `Driver.cpp:811` | `TIOCSSERIAL` is refused, its result not looked at, and `SPD_CUST` stays set: 38400 is answered with true, and the line has the custom rate. |
| `FalseLeavesTheRate` (`Opening`) | `IoctlFails = FALSE` | `Driver.cpp:811` | `tcgetattr` or `tcsetattr` fails after `TIOCSSERIAL`: the answer is false, and the rate the line had is gone, against `Driver.hpp:408`. |
| `KnownRatesCanBeSet` (`Opening`) | `Rates = {1152000}`, `IoctlFails = FALSE` | `Driver.hpp:402` | A rate of `SERIAL_RATES` that no divisor of 115200 gives is refused. |
| `StopIsRecognized` (`Opening`) | as in the run | `SerialConfiguration.cpp:42` | The option that is looked up is `stop_bits`, not the documented `stop`. |
| `EofMeansFinished` (`UnixServer`) | as in the run | `IOStream.cpp:178` | A read of size 0 returns 0 while bytes wait, and marks the client as ended. |
| `TakenIsDelivered` (`UnixServer`) | as in the run | `IOStream.cpp:536` | Writes succeed while a client waits to be accepted, and go nowhere. |

### Bounds

Every bound is a constant, named and declared as a bound in its module.

* *Reading*: `DriverReadFirst` has packets of three bytes and a buffer of six; six input bytes
  hold two packets, a packet between garbage, or a false start in every position, in
  every chunking. `DriverReadLast` has packets of two bytes and a buffer of four, which two
  packets fill, as does one that is never complete; a fifth byte makes it overflow, or
  put garbage before them. Two byte values are what the extractors tell apart.
  `MaxCounted` caps the counters, which last mode can raise without new input; 5 lets
  garbage be counted again.
* *Timeouts* of 0 (already over), a short and a longer one give every order of the deadlines.
* *Writing*: a packet of three bytes into a kernel buffer of two forces a short write, one of one byte
  does not; two packets and two calls give a retry or a successor. `Thousand = 2` makes a second of two
  milliseconds of two microseconds, the least in which both cut-offs occur. Timeouts of 0, 3 and 5
  microseconds are 0, 1 and 2 milliseconds with a rest cut off; `IntLimit = 3` puts the overflow at
  2 of them. `Tick` stops when the timeout has been over for a millisecond.
* *Forward*: three items each way and a buffer of two: a read that takes several, one left,
  one to come. `EofSets`: both streams know an end of file, or one of them. `MaxReopens = 1`: an earlier and a later pair of drivers.
* *UDP*: two hosts, one of them with an IPv6 address or a Unix socket without a name, two datagrams (one may be empty), one pending error at a time (the
  kernel keeps one).
* *Bus*: two threads and three parsers, two of which share a first byte; three bytes are the
  longest packet. `MaxDispatches` caps an observer only.
* *TCP, Unix*: three and two clients: a first, a replacement, one more. Reads and writes of 0, 1 and 2
  bytes: without room, of a part, of all. `Fds` has one number
  more than the server ever needs, so that the process can take what was closed. `MaxInits` allows a failed `tcp_server_init`, whose
  socket stays open, and one more.
* *Opening*: three descriptors: the old stream's, the new one's, the user's. Two addresses
  to try. The texts have every scheme, and each way to be refused; the rates are a standard
  one, one with a divisor, and one without (1152000). `MaxText = 6` tokens after the scheme
  hold a host, a port and an option, or two options, whole and cut off anywhere.
* *Mock*: queues of three: sets of expectations that are met in part. `MaxDepth = 2`: a
  context in another.

`CHECK_DEADLOCK FALSE` stands where the modelled system may really come to rest: `forward()` returned (`Forward`, `ForwardServer`), the last datagram
read (`UDPStream`), threads that wait for a silent bus (`Bus`), the server destroyed
(`TCPServer`). All other runs check for deadlock.

### Fairness

Peers, devices, clients, signals and the rest of the process are never fair: they may
stop for ever. An interrupted `select()` is therefore an action of its own outside the fair
ones (`WaitInterrupted`, `SelectInterrupted`, `ReadInterrupted`, `SelectSpurious`): a call must end, and a close be
noticed, without a signal to help. What is assumed is that a thread in a call is scheduled, and that
time passes.

* `DriverRead`: `WF(Driver)` and `WF(Tick)`. `RawRead`, `DriverWrite`: `WF(Driver)` and
  `SF(Tick)`; time may advance while the thread sleeps in `select()` and between passes
  of the loop, so `Tick` is enabled again and again but not continuously, and each pass
  takes some time.
* `Forward`: `WF(Step)`, `WF(Tick)`; failing calls (`Failures`) and another round of the
  forwarder (`Reopen`) are not among the fair steps. `UDPStream`: `WF(Wait)`, `SF(Tick)`, for the same reason.
* `UnixServer`: `WF(ReadsWithRoom)`, a program that reads in a loop, as `MainCat.cpp:71-72` does, with
  room for a byte at least; reads without room may come between them.

`CallsReturn` of `DriverRead` has `DeviceStops` for its premise: `readPacketInternal` has no deadline
while bytes come, and a device that sends garbage without pause keeps `readPacket` busy
(`TimeoutEndsReading` above, and a hazard at `Driver.cpp:1017`). In the run `MaxInput` stops every device.

## 4. Proofs

The theorems hold for every value of the constants: any sizes, timeouts, extractors, inputs,
numbers of threads, clients and descriptors, and every interleaving. Each invariant was
run by TLC before it was proved.

| Component | Theorem | States |
|---|---|---|
| `DriverRead` | `TypeCorrect` | the internal buffer never exceeds `MAX_PACKET_SIZE` (`TypeOK`) |
| | `NoByteLost` | the internal buffer is always the unconsumed tail of what was read (`BufferIsUnconsumedTail`) |
| | `NoneUncounted` | in either mode and across switches no byte leaves the buffer uncounted (`NoByteUncounted`) |
| | `AllCountedOnce` | in first-packet mode every consumed byte is counted exactly once (`EveryByteCountedOnce`) |
| | `TimeoutsInTime` | a TimeoutError comes after the deadline it names (`TimeoutsAreLate`) |
| | `Refinement` | `Spec => PacketStream!Spec` (`DeliversPacketStream`) |
| | `LevelsAreTheRecursion` | `findPacket`, a level at a time, finds what its recursion finds, in both modes (`FindMatchesRecursion`) |
| | `NoPacketOverlooked` | `hasPacket` tells the truth, and a TimeoutError leaves no complete packet behind (`NoPacketLeftBehind`) |
| | `LastIsLatest` | in last mode the packet returned is the last in the buffer (`LastMeansLatest`) |
| | `ChunksDoNotMatter` | the stream is cut where parsing it in one go cuts it (`CutsDoNotDependOnChunks`) |
| `RawRead` | `TypeCorrect`, `InOrder` | `TypeOK`; returned, buffered and waiting bytes are one gapless run (`BytesInOrder`) |
| | `ShortIsLate`, `InTime` | short only when a timeout is over (`ShortMeansLate`), never longer than the deadlines allow (`ReturnsInTime`) |
| `DriverWrite` | `TypeCorrect`, `TrueIsSent` | `TypeOK`; `true` means the packet went out whole and in order (`TrueMeansSent`) |
| | `TxIsWholePackets`, `WireIsHeard` | `Status.tx` and the listeners follow the wire (`TxCountsWholePackets`, `ListenersSeeTheWire`) |
| | `GivesUpLate` | a write gives up in its loop only after its timeout in whole milliseconds, and in `waitWrite` less than a millisecond before, if no timeout is of 2^32 microseconds or more (`WriteTimeoutsAreLate`) |
| `Forward` | `TypeCorrect`, `Refinement` | `TypeOK`; `Spec => Channels!Spec` under the mapping of section 2 (`ImplementsChannels`) |
| `UDPStream` | `TypeCorrect`, `FalseIsLate` | `TypeOK`; `waitRead` does not come back too early (`WaitFalseIsLate`) |
| | `ErrorsReachTheCaller` | no error that is not ignored is lost (`ErrorsAreNotLost`, an action property) |
| | `InOrder`, `AnswersTheLastSender` | datagrams in order (`DatagramsInOrder`), answers to whom they are due (`AnswersGoToTheLastSender`) |
| `Bus` | `ReaderGetsItsPackets` | a reader for a parser gets that parser's packets (`PacketsForReader`) |
| `MockDevice` | `MockTypeCorrect`, `DeviceAnswersWhatItExpects` | `TypeOK`; what is accepted is the front of what was expected, and is answered once (`RepliesAreEarned`) |
| `Opening` | `TypeCorrect`, `StaysOpen` | `TypeOK`; the stream's descriptor is open and what it was (`StreamIsOpen`) |
| | `NothingIsLost`, `UsersAreSafe` | no descriptor is lost, none of the user's closed (`NoDescriptorLost`, `UsersStayOpen`, action properties) |
| | `LineKeepsWhatWasAsked` | configuration of a serial line, its rate, and what the rate may become when a call fails half-way or an ioctl is refused (`LineIsAsAsked`) |
| `TCPServer` | `TypeCorrect`, `ClosesItsOwn`, `TalksToTheNewest` | `TypeOK`, `ClosesItsOwnOnly`, `OnlyTheNewestClient` |
| `UnixServer` | `UnixTypeCorrect`, `FirstClientOnly`, `EofIsTheEnd` | `TypeOK`, `OnlyTheFirstClient`, `EofAfterLastByte` |

### Assumptions

The named assumptions on constants stand in the modules and are evaluated by TLC in every run.
Most give their types. These say more, or are hypotheses of theorems:

* `ExtractAssumption` (`DriverRead`) and `ParserAssumption` (`Bus`): the contract of `extractPacket`
  (`Driver.hpp:517-535`). On n bytes it returns an integer and drops at most n. In `DriverRead` it
  may announce more than n, the overflow the code guards against; in `Bus` it may not, and a
  packet that it sees at the front of the buffer is one by itself too.
* `StableExtract` and `"clear" \notin UserOps` (`ChunksDoNotMatter`): an answer of `extractPacket` other
  than 0 is not changed by more bytes behind those it was given for, and `clear()` is not called. Both are
  needed. An extractor that takes two bytes for a packet when it sees two, and three when it sees
  three, cuts the stream as the reads happen to bring it, and `clear()` drops what `ibuf` holds, wherever in
  a packet that ends. The
  extractors of the repository's tests are stable, which TLC checks on short streams
  (`TestsAreStable` in `MCDriverRead`). The other three theorems about `FindPacketRef` do without.
* `TimeoutsFit` (`GivesUpLate`): timeouts below `2 * IntLimit`, that is 2^32, microseconds. Without it the property is false,
  as section 3 shows; with it, the product may still be negative, which the proof includes.
* `~HandsTwice` (the three theorems about descriptors in `Opening`): the user does not hand over a
  descriptor the driver has already. Without it they are false, as section 3 shows.
  `TypeCorrect` and `LineKeepsWhatWasAsked` do without.
* `UnixAssumption` (`UnixServer`'s theorems) and `MockAssumption` (`MockDevice`'s) are the assumptions of
  those modules, restated because `Servers_proofs` and `Bus_proofs` have them by INSTANCE.

### Arguments

`DriverRead`, in layers:

1. `TypeInv == TypeOK /\ FindInv`. `TypeOK` is not inductive: pulling bytes preserves the size of
   the buffer only if the place and size `findPacket` has established fit into it. `FindInv` says
   so, level by level.
2. `StepCases` uses `TypeInv` to reduce the many actions to the ways a step can touch
   the buffer, the counters and the log: quiet, a read, a pull, a level of
   `findPacket` that drops or accepts, `clear`, `resetStatus`, `setExtractLastPacket`. The
   invariants after it are proved by these cases, not by the actions.
3. `TailInv == TypeInv /\ BufferIsUnconsumedTail`, from lemmas on prefixes of
   concatenations (`DropDrop`, `DropConcat`).
4. `CountInv` adds what holds in the middle of a scan: the counters are ahead of the buffer
   by what has been examined (`ScanAhead`), exactly so while only first-packet mode is used (`CountsExact`).
5. `AcceptInv`: between `findPacket` and the pull, the size found is still what `extractPacket`
   says of the buffer at that place. It carries the refinement, under
   `log <- readLog, cut <- Consumed, packet <- out`.
6. `LateInv == CallInv /\ TimeoutsAreLate`: a read that brings a byte changes the deadline in force, and
   `CallInv` ties the local `received` to the bytes read in this call.
7. `LookInv`: what the buffer still holds of packets, in the middle of a call. `Find` is a recursive
   function on buffers. That it obeys its equation (`FindEquation`) follows from
   `RecursionIsDefined`: a function whose value at a place depends on a smaller one exists, since
   the places it fails for would have a least one (`MeasureInduction`). While
   a scan is on, `ScanInv` says that what the recursion returns on the whole buffer is what it returns
   on the levels to come, put after those passed (`Whole`), or, at the last level, what has been
   established (`LevelEquation`). Afterwards
   `PullInv` says that it is the packet about to be pulled; and wherever a call waits or answers,
   that there is none (`NoneLeft`, `AnswerInv`).
8. `CutInv`: the driver is at a cut of the log, and while a scan is on, so is the level it looks at.
   A cut stays a cut when the log grows (`CutsKept`): the answers that lead to it are of bytes already there.
   `CutsEquation` and `CutsClosed` unfold `Cuts`, by the same argument as for `Find`.

`RawRead`. `BufferInv`: while a call runs the internal buffer is empty and the caller's not
full, and `out \o ibuf \o wire` numbers the last bytes sent (`OrderInv`); what one part loses
the next gains at the other end. `TimeInv` says what the three deadlines of the code are in terms of
when bytes came (`DeadlineInv`), how far the clock can have run at each place (`ClockInv`) and
why a call came back short (`ShortInv`).

`DriverWrite`. `SentInv`: the last bytes the kernel took are the `written` first of the packet;
`CountInv`: what it took is `tx`, the rest of packets given up, and `written`; `LateInv`: the time
given to `select()`, if not negative, ends less than a millisecond before the timeout. `MillisProperties` says how far the
cut-off difference of two readings is from the time between them, a millisecond at most either way
(`QuotientProperties` is C++'s division); `ElapsedIsLate` and `WaitForTimeLeft` apply it to the two uses
of it. `WrapsToNegative` is the arithmetic of the overflow.

`Forward`. `PlaceInv`: where in the loop the buffer is empty, that raw mode leaves nothing in
the internal buffers, and that an end of file follows the last byte. The refinement is proved step by
step. `MoveOnChannel` is the heart: bytes written are the first of `Under`. Reads, selects and
time are stutters of the channels, because they only move bytes within `Under`; peers send, close and receive;
`Reopen` starts the channels again.

`UDPStream`. `WaitInv`: an error is kept only between calls. `SenderInv`: the address kept is that of
the last datagram, once there has been one. `DatagramInv` puts them together.

`Bus`. `CallerInv`: while a thread holds the mutex and reads, `caller` is the parser it reads for.
It is what the mutex is for, and what the proof of `PacketsForReader` uses. `ExtractedProperties` follows the answers
of all parsers to what `findPacket` makes of them: a skip to where none has said anything, which is never
beyond a packet of the caller's. The least such place is found by well-foundedness
(`LeastElement`), as induction over an operator is out of reach.

`MockDevice`. `MockInv` adds to `RepliesAreEarned` only that no more has been accepted than there are
answers to. The proof is about two queues that are taken from at the front and added to at the end while
the whole of them is known (`TakeOne`, `FrontOf`), and about `FlattenSeq`, whose recursive function is
unfolded once for a message more (`FlattenAppend`). Everything else that happens to the
device is a `QuietStep`: it leaves the queues alone, or leaves mock mode, or empties them.

`Opening`. The lists of steps are finitely many, so `TodoProperties` sorts them by what they have done:
`Waiting` for a descriptor, `Working` on it, `Making` a stream of it, `Made`. `DescriptorInv` says in each
whose the descriptor at work is, and that a kind without a `FileGuard` has no step in `Working`, `udp://`
excepted: so nothing can be lost there. One lemma per action keeps it and both action properties.
`LineInv` is inductive with `ConfInv` (a serial opening has a rate that is not 0). Its `FormatInv` is about the
configuration; its `RateInv` says of each of the two places a rate is kept in what it was last written for, also
by a call that failed, which `LineIsAsAsked` no longer tells; `LineInvMeans` derives the latter.
`DivisorProperties` bounds the rounding for every rate.

`TCPServer`. `OwnInv`: between calls `socked_fd` is the listening socket, `client_fd` the newest
client's or 0, no other descriptor is a client's; reading and writing have a client. `UnixServer`.
`FirstInv`: the client is the first or none, the bytes returned and those on the wire are those sent,
and an end of file needs an empty wire of a client that has gone, or a read without room (`noRoom`).

### What stays with TLC

* Liveness (`CallsReturn`, `WaitReturns`, `CloseEndsForward`, `BothSidesServed`,
  `FirstClientIsServed`) and statements with ENABLED: the prover has no rules for fairness.
* `OpensAsWritten` compares the parser with a grammar on all texts up to a length: a statement about
  `Parse` for every sequence of tokens, by cases that the prover would have to find by induction.
* `TypeOK` of `Bus`, whose `Calls` is a `SelectSeq`, an operator the prover knows nothing of.
* That `RawRead` gives `Forward` its bytes as `Forward` takes them, and `DriverRead` a parser of the
  `Bus` its packets, follows from the theorems about each by reading; no theorem connects them.

## 5. What is not modelled

* *`iodrivers_base_cat`* is formatting around `readRaw`, in a loop without end.
* *Calls that `packedReady` makes back into the bus*, under its recursive mutex. A `readPacket`
  in there moves the buffer that the outer `findPacket` is looking at, a `removeParser`
  destroys the list node the outer loop is on: there is no outcome to state. A `writePacket`
  changes nothing the model has.
* *A `TCPDriver` before a successful `tcp_server_init`*, beyond being destroyed or initialized:
  reads and writes use descriptors without a value. Its destructor then closes whatever
  number they hold, which `ClosesItsOwnOnly` excepts. Calls through a `Driver&` reach the functions
  of Driver, as nothing there is virtual.
* *Parts of modelled components*: `setAutoClose` (nothing in the library calls it); a parser that
  is added to a bus twice, and is then asked twice; signals in
  `UDPStream` (its `select()` is `FDStream`'s, whose interruption the read and write modules have);
  texts and numbers of errors; a clock that is set back; socket addresses as bytes, whose length
  alone is modelled; numerals as digits (a token is a whole number); the kernel behind `tcsetattr`
  and `ioctl`, of which the model has what the driver asks for; two serial lines at once, and a line that
  another process changes.

## 6. State of the project

The model is complete but for what section 5 lists. It was written in this order: the read path;
raw reads and writes; forward; streams; bus and TCP; mock; opening; then the abstract `Channels` and the
forwarder, Unix datagrams, listeners, texts of URIs, serial lines, nested mock contexts and the beginning
of a TCP server. Every safety invariant and action property that a run checks is proved, but
for `OpensAsWritten`.

What could still be proved is the connection of the modules: a promise of `RawRead` and of
`DriverRead` to one caller, stated as a specification of its own, that `Forward` and `Bus`
rest on.
