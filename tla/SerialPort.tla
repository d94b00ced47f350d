----------------------------- MODULE SerialPort -----------------------------
(***************************************************************************)
(* A serial line and what the Driver does to it: openSerialIO,             *)
(* setSerialBaudrate, setSerialConfiguration, and the two ways to write a  *)
(* configuration down.                                                     *)
(*                                                                         *)
(* The settings are in two places.  termios has the speed and the format,  *)
(* which two functions read, change in part and write back; the            *)
(* serial_struct has a divisor, which counts, if its flag is set, in place *)
(* of a speed of 38400.                                                    *)
(***************************************************************************)
EXTENDS URI

CONSTANTS
  BaudBase,     \* baud_base of the serial_struct
  IoctlFails    \* may the device have no serial_struct, or refuse to change it?

ASSUME SerialAssumption == BaudBase \in Nat \ {0} /\ IoctlFails \in BOOLEAN

\* The cases of setSerialBaudrate, and the values of SERIAL_RATES.
StandardRates == {1200, 2400, 4800, 9600, 19200, 38400, 57600, 115200, 230400, 460800,
                  576000, 921600, 1000000}
SERIAL_RATES == StandardRates \cup {1152000}

Configurations == [ok : {TRUE}, size : 5..8, parity : {"none", "even", "odd"}, stop : 1..2]
DefaultConfiguration == [ok |-> TRUE, size |-> 8, parity |-> "none", stop |-> 1]
Unknown == 0

VARIABLES
  line,   \* the settings of the line
  want    \* observer: the rate last set with success, since the line was opened, and the
          \* configuration; the rate the serial_struct was last written for

lineVars == <<line, want>>

LineTypeOK ==
  /\ line \in [size : 5..8, parenb : BOOLEAN, parodd : BOOLEAN, cstopb : BOOLEAN,
               speed : {0} \cup StandardRates, custom : BOOLEAN, divisor : Nat]
  /\ want \in [rate : Nat, struct : Nat, configuration : Configurations]

LineInit ==
  /\ line = [size |-> 8, parenb |-> FALSE, parodd |-> FALSE, cstopb |-> FALSE,
             speed |-> 0, custom |-> FALSE, divisor |-> 0]
  /\ want = [rate |-> Unknown, struct |-> Unknown, configuration |-> DefaultConfiguration]

-----------------------------------------------------------------------------
\* SerialConfiguration::fromURI.
FromURI(u) ==
  LET byte_size == GetOption(u, "byte_size")
      parity == GetOption(u, "parity")
      stop == GetOption(u, "stop_bits")
  IN IF \/ byte_size # <<>> /\ ~(IsNumber(byte_size) /\ Number(byte_size) \in 5..8)
        \/ parity \notin {<<>>, <<"none">>, <<"even">>, <<"odd">>}
        \/ stop \notin {<<>>, <<"1">>, <<"2">>}
     THEN Malformed
     ELSE [ok |-> TRUE, size |-> IF byte_size = <<>> THEN 8 ELSE Number(byte_size),
           parity |-> IF parity = <<>> THEN "none" ELSE Head(parity),
           stop |-> IF stop = <<"2">> THEN 2 ELSE 1]

\* parseSerialConfiguration, of a description like 8N1.
Letter ==
  [c \in {"n", "N", "e", "E", "o", "O"} |->
     CASE c \in {"n", "N"} -> "none" [] c \in {"e", "E"} -> "even" [] OTHER -> "odd"]
ParseSerialConfiguration(d) ==
  IF /\ Len(d) = 3 /\ d[2] \in DOMAIN Letter
     /\ {d[1], d[3]} \subseteq DOMAIN Numerals
     /\ Numerals[d[1]] \in 5..8 /\ Numerals[d[3]] \in 1..2
  THEN [ok |-> TRUE, size |-> Numerals[d[1]], parity |-> Letter[d[2]], stop |-> Numerals[d[3]]]
  ELSE Malformed

-----------------------------------------------------------------------------
\* openSerialIO writes a termios of its own, whose speed is B0; the serial_struct is what
\* it was.
Raw ==
  /\ line' = [line EXCEPT !.size = 8, !.parenb = FALSE, !.parodd = FALSE, !.cstopb = FALSE,
                          !.speed = 0]
  /\ want' = [want EXCEPT !.rate = Unknown, !.configuration = DefaultConfiguration]

Divisor(rate) == (BaudBase + rate \div 2) \div rate

\* Fault: a standard rate leaves the flag of a custom one.
WithSerialStructKept(rate) ==
  IF rate \in StandardRates THEN line
  ELSE [line EXCEPT !.custom = TRUE, !.divisor = Divisor(rate)]

WithSerialStruct(rate) ==
  IF rate \in StandardRates THEN [line EXCEPT !.custom = FALSE]
  ELSE [line EXCEPT !.custom = TRUE, !.divisor = Divisor(rate)]
WithSpeed(l, rate) == [l EXCEPT !.speed = IF rate \in StandardRates THEN rate ELSE 38400]

\* setSerialBaudrate returns true.  The results of the ioctls are not looked at; without
\* a serial_struct the divisor is computed from an indeterminate one.
BaudrateSet(rate) ==
  \/ /\ rate \in StandardRates \/ Divisor(rate) # 0
     /\ line' = WithSpeed(WithSerialStruct(rate), rate)
     /\ want' = [want EXCEPT !.rate = rate, !.struct = rate]
  \/ /\ IoctlFails
     /\ line' = WithSpeed(line, rate) /\ want' = [want EXCEPT !.rate = rate]

\* It returns false: the rate cannot be had, or termios cannot be read or written,
\* when the serial_struct has been already.
BaudrateNotSet(rate) ==
  \/ /\ IoctlFails \/ (rate \notin StandardRates /\ Divisor(rate) = 0)
     /\ UNCHANGED lineVars
  \/ /\ rate \in StandardRates \/ Divisor(rate) # 0
     /\ line' = WithSerialStruct(rate) /\ want' = [want EXCEPT !.struct = rate]

\* setSerialConfiguration: PARODD stays as it is without parity.
ConfigurationSet(c) ==
  /\ line' = [line EXCEPT !.size = c.size, !.parenb = c.parity # "none",
                          !.parodd = IF c.parity = "none" THEN @ ELSE c.parity = "odd",
                          !.cstopb = c.stop = 2]
  /\ want' = [want EXCEPT !.configuration = c]

-----------------------------------------------------------------------------
Rate(l) == IF l.custom /\ l.speed = 38400 THEN BaudBase \div l.divisor ELSE l.speed

Abs(n) == IF n < 0 THEN -n ELSE n
\* A custom rate is had as closely as a divisor comes.
HasRate(l, r) ==
  IF r \in StandardRates THEN Rate(l) = r
  ELSE l.custom /\ l.speed = 38400 /\ 2 * Abs(BaudBase - l.divisor * r) <= r

\* What a speed of 38400 stands for.
StructRate == IF want.struct \in StandardRates \cup {Unknown} THEN 38400 ELSE want.struct

\* Driver.hpp:332-334, 408 and 579, README.md:108-115.  The line has the configuration last
\* set, whatever was set before and by which function.  It has the rate last set with
\* success as long as the serial_struct is the one written for it; a standard rate other
\* than 38400 in any case.  A call that fails after TIOCSSERIAL, or a TIOCSSERIAL that is
\* refused unnoticed, may cost the line a custom rate, or 38400.  What it has then is 38400
\* or the custom rate that the serial_struct was last written for, and nothing else.
LineIsAsAsked ==
  LET c == want.configuration
      kept == want.rate \in {want.struct} \cup (StandardRates \ {38400})
  IN /\ line.size = c.size /\ (line.cstopb <=> c.stop = 2)
     /\ line.parenb <=> c.parity # "none"
     /\ line.parenb => (line.parodd <=> c.parity = "odd")
     /\ want.rate # Unknown => HasRate(line, IF kept THEN want.rate ELSE StructRate)
=============================================================================
