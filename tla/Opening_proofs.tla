--------------------------- MODULE Opening_proofs ---------------------------
(***************************************************************************)
(* Theorems about Opening and SerialPort, for any texts, descriptors and   *)
(* rates.                                                                  *)
(***************************************************************************)
EXTENDS Opening, TLAPS, SequenceTheorems

USE DEF localVars, streamVars, lineVars

-----------------------------------------------------------------------------
(* What the texts ask for.                                                 *)

\* What stoi reads is a number, and a missing port is 0.
LEMMA PortType == ASSUME NEW t PROVE Parse(t).port \in Nat
BY URIAssumption DEF Parse, Malformed, Number, IsNumber

\* The configurations of a serial:// URI and of a description like 8N1.
LEMMA ConfigurationType ==
  /\ \A u : FromURI(u).ok => FromURI(u) \in Configurations
  /\ \A d : ParseSerialConfiguration(d).ok => ParseSerialConfiguration(d) \in Configurations
<1>1. ASSUME NEW u, FromURI(u).ok PROVE FromURI(u) \in Configurations
  <2> DEFINE size == GetOption(u, "byte_size")
             parity == GetOption(u, "parity")
             stop == GetOption(u, "stop_bits")
             s == IF size = <<>> THEN 8 ELSE Number(size)
             p == IF parity = <<>> THEN "none" ELSE Head(parity)
             b == IF stop = <<"2">> THEN 2 ELSE 1
  <2>1. /\ size # <<>> => Number(size) \in 5 .. 8
        /\ parity \in {<<>>, <<"none">>, <<"even">>, <<"odd">>}
        /\ FromURI(u) = [ok |-> TRUE, size |-> s, parity |-> p, stop |-> b]
    BY <1>1 DEF FromURI, Malformed
  <2>2. s \in 5 .. 8 /\ b \in 1 .. 2
    BY <2>1
  <2>3. p \in {"none", "even", "odd"}
    BY <2>1
  <2> HIDE DEF s, p, b
  <2> QED
    BY <2>1, <2>2, <2>3 DEF Configurations
<1>2. ASSUME NEW d, ParseSerialConfiguration(d).ok
      PROVE  ParseSerialConfiguration(d) \in Configurations
  <2>1. /\ d[2] \in DOMAIN Letter /\ Numerals[d[1]] \in 5 .. 8 /\ Numerals[d[3]] \in 1 .. 2
        /\ ParseSerialConfiguration(d) =
             [ok |-> TRUE, size |-> Numerals[d[1]], parity |-> Letter[d[2]],
              stop |-> Numerals[d[3]]]
    BY <1>2 DEF ParseSerialConfiguration, Malformed
  <2>2. Letter[d[2]] \in {"none", "even", "odd"}
    BY <2>1 DEF Letter
  <2> QED
    BY <2>1, <2>2 DEF Configurations
<1> QED
  BY <1>1, <1>2

-----------------------------------------------------------------------------
(* The serial line.                                                        *)

\* The format and the two places of the rate, each as it was last written: the speed for
\* the rate last set with success, the serial_struct for its own.
FormatInv ==
  LET c == want.configuration IN
  /\ line.size = c.size /\ (line.cstopb <=> c.stop = 2)
  /\ line.parenb <=> c.parity # "none"
  /\ line.parenb => (line.parodd <=> c.parity = "odd")
Standard(r) == r \in StandardRates \cup {Unknown}
RateInv ==
  /\ want.rate # Unknown =>
       line.speed = (IF want.rate \in StandardRates THEN want.rate ELSE 38400)
  /\ line.custom <=> ~Standard(want.struct)
  /\ line.custom => 2 * Abs(BaudBase - line.divisor * want.struct) <= want.struct

LineInv == LineTypeOK /\ FormatInv /\ RateInv

Wants == [rate : Nat, struct : Nat, configuration : Configurations]
Lines == [size : 5..8, parenb : BOOLEAN, parodd : BOOLEAN, cstopb : BOOLEAN,
          speed : {0} \cup StandardRates, custom : BOOLEAN, divisor : Nat]

\* A divisor rounded to the nearest makes the rate that comes closest.
LEMMA DivisorProperties ==
  ASSUME NEW rate \in Nat \ {0}
  PROVE  /\ Divisor(rate) \in Nat
         /\ 2 * Abs(BaudBase - Divisor(rate) * rate) <= rate
<1> DEFINE h == rate \div 2
           d == (BaudBase + h) \div rate
<1>1. h \in Nat /\ 2 * h <= rate /\ rate <= 2 * h + 1
  OBVIOUS
<1>2. BaudBase \in Nat
  BY SerialAssumption
<1> HIDE DEF h
<1>3. d \in Nat /\ d * rate <= BaudBase + h /\ BaudBase + h < d * rate + rate
  BY <1>1, <1>2
<1> HIDE DEF d
<1> DEFINE m == d * rate
<1>4. m \in Nat
  BY <1>3
<1> HIDE DEF m
<1>5. 2 * (BaudBase - m) <= rate /\ 2 * (m - BaudBase) <= rate
  BY <1>1, <1>2, <1>3, <1>4 DEF m
<1>6. 2 * Abs(BaudBase - m) <= rate
  BY <1>2, <1>4, <1>5 DEF Abs
<1>7. Divisor(rate) = d
  BY DEF Divisor, d, h
<1> QED
  BY <1>3, <1>6, <1>7 DEF m

LEMMA LineInvInit == LineInit => LineInv
BY DEF LineInit, LineInv, LineTypeOK, FormatInv, RateInv, Standard, DefaultConfiguration,
       Configurations, Unknown

\* openSerialIO.
LEMMA LineInvRaw == LineInv /\ Raw => LineInv'
<1> SUFFICES ASSUME LineInv, Raw PROVE LineInv'
  OBVIOUS
<1>1. /\ line' = [line EXCEPT !.size = 8, !.parenb = FALSE, !.parodd = FALSE, !.cstopb = FALSE,
                          !.speed = 0]
      /\ want' = [want EXCEPT !.rate = 0, !.configuration = DefaultConfiguration]
  BY DEF Raw, Unknown
<1>2. LineTypeOK'
  <2>1. DefaultConfiguration \in Configurations
    BY DEF DefaultConfiguration, Configurations
  <2>2. line \in Lines
    BY DEF LineInv, LineTypeOK, Lines
  <2>3. line' \in Lines
    <3> DEFINE a == [line EXCEPT !.size = 8]
               b == [a EXCEPT !.parenb = FALSE, !.parodd = FALSE, !.cstopb = FALSE]
    <3>1. a \in Lines
      BY <2>2 DEF Lines
    <3>2. b \in Lines
      <4> HIDE DEF a
      <4> QED
        BY <3>1 DEF Lines
    <3>3. line' = [b EXCEPT !.speed = 0]
      BY <1>1
    <3> HIDE DEF b
    <3> QED
      BY <3>2, <3>3 DEF Lines
  <2>4. want' \in Wants
    BY <1>1, <2>1 DEF LineInv, LineTypeOK, Wants
  <2> QED
    BY <2>3, <2>4 DEF LineTypeOK, Lines, Wants
<1>3. /\ line'.size = 8 /\ line'.cstopb = FALSE /\ line'.parenb = FALSE
      /\ line'.custom = line.custom /\ line'.divisor = line.divisor
      /\ want'.rate = 0 /\ want'.configuration = DefaultConfiguration
      /\ want'.struct = want.struct
  BY <1>1 DEF LineInv, LineTypeOK
<1>4. FormatInv'
  BY <1>3 DEF FormatInv, DefaultConfiguration
<1>5. RateInv'
  BY <1>3 DEF LineInv, RateInv, Standard, Unknown
<1> QED
  BY <1>2, <1>4, <1>5 DEF LineInv

\* setSerialConfiguration.
LEMMA LineInvConfiguration ==
  ASSUME LineInv, NEW c \in Configurations, ConfigurationSet(c)
  PROVE  LineInv'
<1>1. /\ c.size \in 5 .. 8 /\ c.parity \in {"none", "even", "odd"} /\ c.stop \in 1 .. 2
  BY DEF Configurations
<1>2. /\ line' = [line EXCEPT !.size = c.size, !.parenb = c.parity # "none",
                          !.parodd = IF c.parity = "none" THEN @ ELSE c.parity = "odd",
                          !.cstopb = c.stop = 2]
      /\ want' = [want EXCEPT !.configuration = c]
  BY DEF ConfigurationSet
<1>3. LineTypeOK'
  BY <1>1, <1>2 DEF LineInv, LineTypeOK
<1>4. /\ line'.size = c.size /\ (line'.cstopb <=> c.stop = 2)
      /\ line'.parenb <=> c.parity # "none"
      /\ line'.parenb => (line'.parodd <=> c.parity = "odd")
      /\ line'.speed = line.speed /\ line'.custom = line.custom /\ line'.divisor = line.divisor
      /\ want'.configuration = c /\ want'.rate = want.rate /\ want'.struct = want.struct
  BY <1>1, <1>2 DEF LineInv, LineTypeOK
<1>5. FormatInv'
  BY <1>4 DEF FormatInv
<1>6. RateInv'
  BY <1>4 DEF LineInv, RateInv, Standard
<1> QED
  BY <1>3, <1>5, <1>6 DEF LineInv

\* setSerialBaudrate, with success or without: it writes the serial_struct, the speed, or
\* first one and then the other.
LEMMA LineInvStruct ==
  ASSUME LineInv, NEW rate \in Nat \ {0}
  PROVE  LET l == WithSerialStruct(rate) IN
         /\ l \in Lines
         /\ l = [line EXCEPT !.custom = l.custom, !.divisor = l.divisor]
         /\ l.custom <=> ~Standard(rate)
         /\ l.custom => 2 * Abs(BaudBase - l.divisor * rate) <= rate
<1> DEFINE d == Divisor(rate)
<1>1. d \in Nat /\ 2 * Abs(BaudBase - d * rate) <= rate
  BY DivisorProperties
<1>2. line \in Lines
  BY DEF LineInv, LineTypeOK, Lines
<1> HIDE DEF d
<1>3. CASE rate \in StandardRates
  <2>1. WithSerialStruct(rate) = [line EXCEPT !.custom = FALSE]
    BY <1>3 DEF WithSerialStruct
  <2> QED
    BY <1>2, <1>3, <2>1 DEF Lines, Standard
<1>4. CASE rate \notin StandardRates
  <2>1. WithSerialStruct(rate) = [line EXCEPT !.custom = TRUE, !.divisor = d]
    BY <1>4 DEF WithSerialStruct, d
  <2> DEFINE l == [line EXCEPT !.custom = TRUE, !.divisor = d]
             a == [line EXCEPT !.custom = TRUE]
  <2>2. a \in Lines
    BY <1>2 DEF Lines
  <2>3. l = [a EXCEPT !.divisor = d]
    OBVIOUS
  <2>4. l \in Lines
    <3> HIDE DEF a, l
    <3> QED
      BY <1>1, <2>2, <2>3 DEF Lines
  <2>5. l.custom = TRUE /\ l.divisor = d
    BY <1>2 DEF Lines
  <2>6. l = [line EXCEPT !.custom = l.custom, !.divisor = l.divisor]
    BY <2>5
  <2>7. ~Standard(rate)
    BY <1>4 DEF Standard, Unknown
  <2> HIDE DEF a, l
  <2>8. l.custom => 2 * Abs(BaudBase - l.divisor * rate) <= rate
    BY <1>1, <2>5
  <2> QED
    BY <2>1, <2>4, <2>5, <2>6, <2>7, <2>8 DEF l
<1> QED
  BY <1>3, <1>4

LEMMA LineInvRate ==
  ASSUME LineInv, NEW rate \in Nat \ {0}, BaudrateSet(rate) \/ BaudrateNotSet(rate)
  PROVE  LineInv'
<1> DEFINE l == WithSerialStruct(rate)
           s == IF rate \in StandardRates THEN rate ELSE 38400
<1>1. /\ l \in Lines /\ l = [line EXCEPT !.custom = l.custom, !.divisor = l.divisor]
      /\ l.custom <=> ~Standard(rate)
      /\ l.custom => 2 * Abs(BaudBase - l.divisor * rate) <= rate
  BY LineInvStruct
<1>2. line \in Lines /\ want \in Wants /\ s \in StandardRates
  BY DEF LineInv, LineTypeOK, Lines, Wants, StandardRates
<1>3. /\ line' \in {[l EXCEPT !.speed = s], [line EXCEPT !.speed = s], l, line}
      /\ \/ line' = [l EXCEPT !.speed = s]
            /\ want' = [want EXCEPT !.rate = rate, !.struct = rate]
         \/ line' = [line EXCEPT !.speed = s] /\ want' = [want EXCEPT !.rate = rate]
         \/ line' = l /\ want' = [want EXCEPT !.struct = rate]
         \/ line' = line /\ want' = want
  BY DEF BaudrateSet, BaudrateNotSet, WithSpeed, lineVars
<1> HIDE DEF l, s
<1>4. /\ l.size = line.size /\ l.cstopb = line.cstopb /\ l.parenb = line.parenb
      /\ l.parodd = line.parodd /\ l.speed = line.speed
  <2> DEFINE c == l.custom
             d == l.divisor
  <2>1. l = [line EXCEPT !.custom = c, !.divisor = d]
    BY <1>1
  <2> HIDE DEF c, d
  <2> QED
    BY <1>2, <2>1 DEF Lines
\* What changes: the speed and the rate, the serial_struct and its rate, or both.
<1> DEFINE SpeedSet == line'.speed = s /\ want'.rate = rate
           SpeedKept == line'.speed = line.speed /\ want'.rate = want.rate
           StructSet == /\ line'.custom = l.custom /\ line'.divisor = l.divisor
                        /\ want'.struct = rate
           StructKept == /\ line'.custom = line.custom /\ line'.divisor = line.divisor
                         /\ want'.struct = want.struct
           Others == /\ line'.size = line.size /\ line'.cstopb = line.cstopb
                     /\ line'.parenb = line.parenb /\ line'.parodd = line.parodd
                     /\ want'.configuration = want.configuration
<1>5. /\ line' \in Lines /\ want' \in Wants /\ Others
      /\ SpeedSet \/ SpeedKept
      /\ StructSet \/ StructKept
  <2>1. ASSUME NEW k \in Lines
        PROVE  LET m == [k EXCEPT !.speed = s]
               IN /\ m \in Lines /\ m.speed = s
                  /\ m.size = k.size /\ m.cstopb = k.cstopb /\ m.parenb = k.parenb
                  /\ m.parodd = k.parodd /\ m.custom = k.custom /\ m.divisor = k.divisor
    BY <1>2 DEF Lines
  <2>2. ASSUME NEW w \in Wants
        PROVE  /\ LET v == [w EXCEPT !.rate = rate]
                  IN /\ v \in Wants /\ v.rate = rate /\ v.struct = w.struct
                     /\ v.configuration = w.configuration
               /\ LET v == [w EXCEPT !.struct = rate]
                  IN /\ v \in Wants /\ v.rate = w.rate /\ v.struct = rate
                     /\ v.configuration = w.configuration
    BY DEF Wants
  <2>3. CASE /\ line' = [l EXCEPT !.speed = s]
             /\ want' = [want EXCEPT !.rate = rate, !.struct = rate]
    <3> DEFINE v == [want EXCEPT !.rate = rate]
    <3>1. want' = [v EXCEPT !.struct = rate]
      BY <2>3
    <3>2. /\ v \in Wants /\ v.rate = rate /\ v.configuration = want.configuration
      BY <1>2, <2>2
    <3> HIDE DEF v
    <3>3. /\ want' \in Wants /\ want'.rate = rate /\ want'.struct = rate
          /\ want'.configuration = want.configuration
      BY <2>2, <3>1, <3>2
    <3>4. line' \in Lines /\ StructSet /\ SpeedSet
      BY <1>1, <2>1, <2>3, <3>3
    <3> QED
      BY <1>1, <1>4, <2>1, <2>3, <3>3, <3>4
  <2>4. CASE line' = [line EXCEPT !.speed = s] /\ want' = [want EXCEPT !.rate = rate]
    BY <1>2, <2>1, <2>2, <2>4
  <2>5. CASE line' = l /\ want' = [want EXCEPT !.struct = rate]
    BY <1>1, <1>2, <1>4, <2>2, <2>5
  <2>6. CASE line' = line /\ want' = want
    BY <1>2, <2>6
  <2> QED
    BY <1>3, <2>3, <2>4, <2>5, <2>6
<1>6. LineTypeOK'
  BY <1>5 DEF LineTypeOK, Lines, Wants
<1>7. FormatInv'
  BY <1>5 DEF LineInv, FormatInv
<1>8. RateInv'
  <2>1. want'.rate # Unknown =>
          line'.speed = (IF want'.rate \in StandardRates THEN want'.rate ELSE 38400)
    BY <1>5 DEF LineInv, RateInv, s
  <2>2. /\ line'.custom <=> ~Standard(want'.struct)
        /\ line'.custom => 2 * Abs(BaudBase - line'.divisor * want'.struct) <= want'.struct
    BY <1>1, <1>5 DEF LineInv, RateInv
  <2> QED
    BY <2>1, <2>2 DEF RateInv, Standard
<1> QED
  BY <1>6, <1>7, <1>8 DEF LineInv

\* The two places make the rate.
LEMMA LineInvMeans == LineInv => LineIsAsAsked
<1> SUFFICES ASSUME LineInv PROVE LineIsAsAsked
  OBVIOUS
<1> DEFINE kept == want.rate \in {want.struct} \cup (StandardRates \ {38400})
           r == IF kept THEN want.rate ELSE StructRate
<1>1. ASSUME want.rate # Unknown PROVE HasRate(line, r)
  <2>1. 38400 \in StandardRates
    BY DEF StandardRates
  <2>2. CASE line.speed # 38400
    <3>1. want.rate \in StandardRates /\ line.speed = want.rate
      BY <1>1, <2>2 DEF LineInv, RateInv
    <3>2. r = want.rate
      BY <2>2, <3>1
    <3> QED
      BY <2>2, <3>1, <3>2 DEF HasRate, Rate
  <2>3. CASE line.speed = 38400 /\ line.custom
    <3>1. want.struct \notin StandardRates /\ StructRate = want.struct
      BY <2>3 DEF LineInv, RateInv, Standard, StructRate
    <3>2. ~(want.rate \in StandardRates \ {38400})
      BY <1>1, <2>3 DEF LineInv, RateInv
    <3>3. r = want.struct
      BY <3>1, <3>2
    <3> QED
      BY <2>3, <3>1, <3>3 DEF HasRate, LineInv, RateInv
  <2>4. CASE line.speed = 38400 /\ ~line.custom
    <3>1. Standard(want.struct) /\ StructRate = 38400
      BY <2>4 DEF LineInv, RateInv, Standard, StructRate
    <3>2. want.rate = 38400 \/ want.rate \notin StandardRates
      BY <1>1, <2>4 DEF LineInv, RateInv
    <3>3. r = 38400
      BY <1>1, <3>1, <3>2 DEF Standard
    <3>4. Rate(line) = 38400
      BY <2>4 DEF Rate
    <3> QED
      BY <2>1, <3>3, <3>4 DEF HasRate
  <2> QED
    BY <2>2, <2>3, <2>4 DEF LineInv, LineTypeOK
<1> HIDE DEF kept, r
<1>2. FormatInv
  BY DEF LineInv
<1> QED
  BY <1>1, <1>2 DEF FormatInv, LineIsAsAsked, r, kept

-----------------------------------------------------------------------------
(* What an opening does: its lists of steps.                               *)

Confs == [rate : Nat, configuration : Configurations]

LEMMA RequestProperties ==
  ASSUME NEW t \in Texts
  PROVE  /\ Requests[t].kind \in {"none"} \cup knownSchemes
         /\ Requests[t].kind # "none" =>
              /\ Requests[t].auto \in BOOLEAN /\ Requests[t].conf \in Confs
              /\ Requests[t].kind = "serial" => Requests[t].conf.rate # 0
<1> DEFINE u == ParseForOpening(t)
           r == Request(t)
           c == IF u.scheme = <<"serial">> THEN [rate |-> u.port, configuration |-> FromURI(u)]
                ELSE NoConf
           f == IF u.scheme = <<"fd">> THEN Number(u.host) ELSE 0
           a == GetOptionOr(u, "auto_close", <<"1">>) = <<"1">>
           o == UDPOptions(u)
<1>1. Requests[t] = r
  BY DEF Requests
<1>2. u.port \in Nat
  BY PortType DEF ParseForOpening, BackwardParse
<1> HIDE DEF u
<1>3. CASE Refused(u)
  <2>1. r = [kind |-> "none"]
    BY <1>3 DEF Request, u
  <2>2. r.kind = "none"
    BY <2>1
  <2> HIDE DEF r
  <2> QED
    BY <1>1, <2>2
<1>4. CASE ~Refused(u)
  <2>1. /\ u.scheme \in {<<s>> : s \in knownSchemes}
        /\ u.scheme = <<"serial">> => u.port # 0 /\ FromURI(u).ok
    BY <1>4 DEF Refused
  <2>2. PICK s \in knownSchemes : u.scheme = <<s>>
    BY <2>1
  <2>3. u.scheme[1] = s /\ s # "none" /\ (u.scheme = <<"serial">> <=> s = "serial")
    BY <2>2 DEF knownSchemes
  <2>4. r = [kind |-> u.scheme[1], fd |-> f, auto |-> a, udp |-> o, conf |-> c]
    BY <1>4 DEF Request, u
  <2>5. c \in Confs /\ (s = "serial" => c.rate # 0)
    <3>1. DefaultConfiguration \in Configurations
      BY DEF DefaultConfiguration, Configurations
    <3>2. NoConf \in Confs
      BY <3>1 DEF NoConf, Confs, Unknown
    <3> QED
      BY <1>2, <2>1, <2>3, <3>2, ConfigurationType DEF Confs
  <2>6. a \in BOOLEAN
    OBVIOUS
  <2> HIDE DEF a, c, f, o
  <2>7. r.kind = s /\ r.auto = a /\ r.conf = c
    BY <2>3, <2>4
  <2> HIDE DEF r
  <2> QED
    BY <1>1, <2>3, <2>5, <2>6, <2>7
<1> QED
  BY <1>3, <1>4

\* The steps that are left while the opening has no descriptor as yet, sets one up, makes
\* a stream of it, and has made it.
Waiting == {<<"open", "stream">>, <<"open", "check", "stream">>,
            <<"open", "raw", "baudrate", "stream", "configure">>,
            <<"address", "stream", "nodelay">>, <<"address", "stream">>,
            <<"address", "check", "stream">>, <<"address", "peer", "stream">>}
Working == {<<"check", "stream">>, <<"peer", "stream">>,
            <<"raw", "baudrate", "stream", "configure">>,
            <<"baudrate", "stream", "configure">>}
Making == {<<"stream">>, <<"stream", "configure">>, <<"stream", "nodelay">>}
Made == {<<"configure">>, <<"nodelay">>}

\* Those with a step ahead that may fail with the descriptor at hand, and those with a
\* rate to set.
Checked == {<<"open", "check", "stream">>, <<"open", "raw", "baudrate", "stream", "configure">>,
            <<"address", "check", "stream">>, <<"address", "peer", "stream">>}
Rated == {<<"open", "raw", "baudrate", "stream", "configure">>,
          <<"raw", "baudrate", "stream", "configure">>,
          <<"baudrate", "stream", "configure">>}

LEMMA TodoProperties ==
  /\ \A s \in Waiting : /\ Head(s) \in {"open", "address"} /\ Len(s) # 1
                        /\ Tail(s) \in Working \cup Making
                        /\ Tail(s) \in Working => s \in Checked
  /\ \A s \in Working : /\ Head(s) \in {"check", "peer", "raw", "baudrate"} /\ Len(s) # 1
                        /\ Tail(s) \in Working \cup Making
  /\ \A s \in Making : /\ Head(s) = "stream"
                       /\ Len(s) # 1 => Tail(s) \in Made
  /\ \A s \in Made : Head(s) \in {"configure", "nodelay"} /\ Len(s) = 1
  /\ \A s \in Waiting \cup Working \cup Making \cup Made :
       s # <<>> /\ (Head(s) = "baudrate" => s \in Rated)
  /\ \A s \in Waiting \cup Working : Tail(s) \in Rated => s \in Rated
<1>1. ASSUME NEW s \in Waiting
      PROVE  /\ Head(s) \in {"open", "address"} /\ Len(s) # 1
             /\ Tail(s) \in Working \cup Making
             /\ Tail(s) \in Working => s \in Checked
             /\ s # <<>> /\ (Tail(s) \in Rated => s \in Rated)
  <2>1. CASE s = <<"open", "stream">>
    <3>1. Head(s) = "open" /\ Len(s) = 2 /\ Tail(s) = <<"stream">> /\ s # <<>>
      BY <2>1
    <3> QED
      BY <2>1, <3>1 DEF Working, Making, Checked, Rated
  <2>2. CASE s = <<"open", "check", "stream">>
    <3>1. Head(s) = "open" /\ Len(s) = 3 /\ Tail(s) = <<"check", "stream">> /\ s # <<>>
      BY <2>2
    <3> QED
      BY <2>2, <3>1 DEF Working, Making, Checked, Rated
  <2>3. CASE s = <<"open", "raw", "baudrate", "stream", "configure">>
    <3>1. Head(s) = "open" /\ Len(s) = 5 /\ Tail(s) = <<"raw", "baudrate", "stream", "configure">> /\ s # <<>>
      BY <2>3
    <3> QED
      BY <2>3, <3>1 DEF Working, Making, Checked, Rated
  <2>4. CASE s = <<"address", "stream", "nodelay">>
    <3>1. Head(s) = "address" /\ Len(s) = 3 /\ Tail(s) = <<"stream", "nodelay">> /\ s # <<>>
      BY <2>4
    <3> QED
      BY <2>4, <3>1 DEF Working, Making, Checked, Rated
  <2>5. CASE s = <<"address", "stream">>
    <3>1. Head(s) = "address" /\ Len(s) = 2 /\ Tail(s) = <<"stream">> /\ s # <<>>
      BY <2>5
    <3> QED
      BY <2>5, <3>1 DEF Working, Making, Checked, Rated
  <2>6. CASE s = <<"address", "check", "stream">>
    <3>1. Head(s) = "address" /\ Len(s) = 3 /\ Tail(s) = <<"check", "stream">> /\ s # <<>>
      BY <2>6
    <3> QED
      BY <2>6, <3>1 DEF Working, Making, Checked, Rated
  <2>7. CASE s = <<"address", "peer", "stream">>
    <3>1. Head(s) = "address" /\ Len(s) = 3 /\ Tail(s) = <<"peer", "stream">> /\ s # <<>>
      BY <2>7
    <3> QED
      BY <2>7, <3>1 DEF Working, Making, Checked, Rated
  <2> QED
    BY <2>1, <2>2, <2>3, <2>4, <2>5, <2>6, <2>7 DEF Waiting
<1>2. ASSUME NEW s \in Working
      PROVE  /\ Head(s) \in {"check", "peer", "raw", "baudrate"} /\ Len(s) # 1
             /\ Tail(s) \in Working \cup Making
             /\ s # <<>> /\ (Head(s) = "baudrate" => s \in Rated)
             /\ Tail(s) \in Rated => s \in Rated
  <2>1. CASE s = <<"check", "stream">>
    <3>1. Head(s) = "check" /\ Len(s) = 2 /\ Tail(s) = <<"stream">> /\ s # <<>>
      BY <2>1
    <3> QED
      BY <2>1, <3>1 DEF Working, Making, Rated
  <2>2. CASE s = <<"peer", "stream">>
    <3>1. Head(s) = "peer" /\ Len(s) = 2 /\ Tail(s) = <<"stream">> /\ s # <<>>
      BY <2>2
    <3> QED
      BY <2>2, <3>1 DEF Working, Making, Rated
  <2>3. CASE s = <<"raw", "baudrate", "stream", "configure">>
    <3>1. Head(s) = "raw" /\ Len(s) = 4 /\ Tail(s) = <<"baudrate", "stream", "configure">> /\ s # <<>>
      BY <2>3
    <3> QED
      BY <2>3, <3>1 DEF Working, Making, Rated
  <2>4. CASE s = <<"baudrate", "stream", "configure">>
    <3>1. Head(s) = "baudrate" /\ Len(s) = 3 /\ Tail(s) = <<"stream", "configure">> /\ s # <<>>
      BY <2>4
    <3> QED
      BY <2>4, <3>1 DEF Working, Making, Rated
  <2> QED
    BY <2>1, <2>2, <2>3, <2>4 DEF Working
<1>3. ASSUME NEW s \in Making
      PROVE  /\ Head(s) = "stream" /\ s # <<>>
             /\ Len(s) # 1 => Tail(s) \in Made
  <2>1. CASE s = <<"stream">>
    <3>1. Head(s) = "stream" /\ Len(s) = 1 /\ Tail(s) = <<>> /\ s # <<>>
      BY <2>1
    <3> QED
      BY <2>1, <3>1 DEF Made
  <2>2. CASE s = <<"stream", "configure">>
    <3>1. Head(s) = "stream" /\ Len(s) = 2 /\ Tail(s) = <<"configure">> /\ s # <<>>
      BY <2>2
    <3> QED
      BY <2>2, <3>1 DEF Made
  <2>3. CASE s = <<"stream", "nodelay">>
    <3>1. Head(s) = "stream" /\ Len(s) = 2 /\ Tail(s) = <<"nodelay">> /\ s # <<>>
      BY <2>3
    <3> QED
      BY <2>3, <3>1 DEF Made
  <2> QED
    BY <2>1, <2>2, <2>3 DEF Making
<1>4. ASSUME NEW s \in Made
      PROVE  Head(s) \in {"configure", "nodelay"} /\ Len(s) = 1 /\ s # <<>>
  BY DEF Made
<1> QED
  BY <1>1, <1>2, <1>3, <1>4

LEMMA StepsProperties ==
  ASSUME NEW k \in Kinds, NEW c
  PROVE  /\ k \in {"test", "fd"} => Steps(k, c) = <<"stream">>
         /\ k \notin {"test", "fd"} => Steps(k, c) \in Waiting
         /\ Steps(k, c) \in Checked => k \in GuardedKinds \cup {"udp"}
         /\ Steps(k, c) \in Rated => k = "serial"
<1>1. CASE k \in {"file", "unixdgram"}
  <2>1. Steps(k, c) = <<"open", "stream">>
    BY <1>1 DEF Steps
  <2> QED
    BY <1>1, <2>1 DEF Waiting, Checked, Rated
<1>2. CASE k \in {"unixstreamserver", "unixstream", "unixdgramserver"}
  <2>1. Steps(k, c) = <<"open", "check", "stream">>
    BY <1>2 DEF Steps
  <2> QED
    BY <1>2, <2>1 DEF Waiting, Checked, Rated, GuardedKinds
<1>3. CASE k = "serial"
  <2>1. Steps(k, c) = <<"open", "raw", "baudrate", "stream", "configure">>
    BY <1>3 DEF Steps
  <2> QED
    BY <1>3, <2>1 DEF Waiting, Checked, Rated, GuardedKinds
<1>4. CASE k = "tcp"
  <2>1. Steps(k, c) = <<"address", "stream", "nodelay">>
    BY <1>4 DEF Steps
  <2> QED
    BY <1>4, <2>1 DEF Waiting, Checked, Rated
<1>5. CASE k \in {"udpclient", "udpserver"}
  <2>1. Steps(k, c) = <<"address", "stream">>
    BY <1>5 DEF Steps
  <2> QED
    BY <1>5, <2>1 DEF Waiting, Checked, Rated
<1>6. CASE k = "udp"
  <2>1. Steps(k, c) \in {<<"address", "check", "stream">>, <<"address", "peer", "stream">>}
    BY <1>6 DEF Steps
  <2> QED
    BY <1>6, <2>1 DEF Waiting, Checked, Rated
<1>7. CASE k \in {"test", "fd"}
  <2>1. Steps(k, c) = <<"stream">>
    BY <1>7 DEF Steps
  <2> QED
    BY <1>7, <2>1 DEF Checked, Rated
<1> QED
  BY <1>1, <1>2, <1>3, <1>4, <1>5, <1>6, <1>7 DEF Kinds, knownSchemes

-----------------------------------------------------------------------------
(* Descriptors.                                                            *)

Owners == {"nobody", "driver", "user"}

\* The descriptor at work is the driver's own, and none that it has in use, unless it is
\* one that was handed over; where an opening without a FileGuard has one to lose, it is
\* that of udp://; and the stream's descriptor is open and whose it was.
DescriptorInv ==
  /\ table \in [Fds -> Owners] /\ stream \in Fds \cup {0, Test}
  /\ todo \in {<<>>} \cup Waiting \cup Working \cup Making \cup Made
  /\ todo \in Working => sfd \in Fds
  /\ todo \in Making => sfd \in Fds \/ (kind = "test" /\ sfd = 0)
  /\ todo \notin Working \cup Making => sfd = 0
  /\ todo \in Checked \cup Working => kind \in GuardedKinds \cup {"udp"}
  /\ kind \in {"fd", "test"} => todo = <<"stream">>
  /\ kind = "test" => sfd = 0
  /\ kind # "fd" => sauto
  /\ Idle => kind = "none"
  /\ sfd # 0 => IF kind = "fd" THEN table[sfd] = "user"
                ELSE table[sfd] = "driver" /\ sfd # stream
  /\ stream \in Fds => table[stream] = IF auto THEN "driver" ELSE "user"

UsersKept == \A n \in Fds : table[n] = "user" /\ table'[n] = "nobody" => UserCloses(n)
NoneLost == StreamThrows \/ (kind = "udp" /\ StepFails) \/ Lost' \subseteq Lost
Keeps == DescriptorInv' /\ UsersKept /\ NoneLost

\* No list is of two kinds, and the next step tells which it is of.
LEMMA ListsDisjoint ==
  ASSUME NEW s \in {<<>>} \cup Waiting \cup Working \cup Making \cup Made
  PROVE  /\ s \in Waiting <=> s # <<>> /\ Head(s) \in {"open", "address"}
         /\ s \in Working <=> s # <<>> /\ Head(s) \in {"check", "peer", "raw", "baudrate"}
         /\ s \in Making <=> s # <<>> /\ Head(s) = "stream"
         /\ s \in Made <=> s # <<>> /\ Head(s) \in {"configure", "nodelay"}
         /\ s \in Checked => s \in Waiting
<1>1. s \in Checked => s \in Waiting
  BY DEF Checked, Waiting
<1>2. s \in Waiting => Head(s) \in {"open", "address"} /\ s # <<>>
  BY TodoProperties
<1>3. s \in Working => Head(s) \in {"check", "peer", "raw", "baudrate"} /\ s # <<>>
  BY TodoProperties
<1>4. s \in Making => Head(s) = "stream" /\ s # <<>>
  BY TodoProperties
<1>5. s \in Made => Head(s) \in {"configure", "nodelay"} /\ s # <<>>
  BY TodoProperties
<1> QED
  BY <1>1, <1>2, <1>3, <1>4, <1>5

LEMMA TodoDisjoint ==
  ASSUME todo \in {<<>>} \cup Waiting \cup Working \cup Making \cup Made
  PROVE  /\ todo \in Waiting => todo \notin Working \cup Making
         /\ todo \in Working => todo \notin Waiting \cup Making
         /\ todo \in Making => todo \notin Working \cup Waiting \cup Made
         /\ todo \in Made => todo \notin Working \cup Making
         /\ Idle => todo \notin Waiting \cup Working \cup Making \cup Made
         /\ todo \in Checked => todo \in Waiting
         /\ At("open") \/ At("address") <=> todo \in Waiting
         /\ At("check") \/ At("peer") \/ At("raw") \/ At("baudrate") <=> todo \in Working
         /\ At("stream") <=> todo \in Making
         /\ At("configure") \/ At("nodelay") <=> todo \in Made
BY ListsDisjoint DEF At, Idle

LEMMA DescriptorInit == Init => DescriptorInv
<1> SUFFICES ASSUME Init PROVE DescriptorInv
  OBVIOUS
<1>1. todo = <<>> /\ sfd = 0 /\ kind = "none" /\ sauto = TRUE /\ stream = 0
  BY DEF Init
<1>2. stream \notin Fds
  BY <1>1, OpeningAssumption
<1>3. table \in [Fds -> Owners]
  BY DEF Init, Owners
<1>4. todo \notin Waiting \cup Working \cup Making \cup Made \cup Checked
  BY <1>1, TodoDisjoint DEF Idle
<1> QED
  BY <1>1, <1>2, <1>3, <1>4 DEF DescriptorInv

\* What the driver does not do with descriptors.
LEMMA KeepsQuiet ==
  ASSUME DescriptorInv, UNCHANGED <<table, stream, auto, kind, todo, sfd, sauto>>
  PROVE  Keeps
<1>1. DescriptorInv'
  BY DEF DescriptorInv, Idle
<1>2. UsersKept
  BY DEF UsersKept, DescriptorInv
<1>3. NoneLost
  BY DEF NoneLost, Lost
<1> QED
  BY <1>1, <1>2, <1>3 DEF Keeps

\* What the rest of the process does.
LEMMA KeepsUser ==
  ASSUME DescriptorInv, NEW n \in Fds, UserOpens(n) \/ UserCloses(n)
  PROVE  Keeps
<1>1. /\ UNCHANGED <<stream, auto, kind, todo, sfd, sauto>>
      /\ table \in [Fds -> Owners]
      /\ \/ table[n] = "nobody" /\ table' = [table EXCEPT ![n] = "user"]
         \/ n # stream /\ n # sfd /\ table' = [table EXCEPT ![n] = "nobody"]
  BY DEF UserOpens, UserCloses, NextFd, DescriptorInv
<1>2. \A m \in Fds : m # n => table'[m] = table[m]
  BY <1>1
<1>3. n # stream /\ n # sfd
  BY <1>1, OpeningAssumption DEF DescriptorInv
<1>4. table' \in [Fds -> Owners] /\ table'[n] # "driver"
  BY <1>1 DEF Owners
<1>5. sfd \in Fds \cup {0}
  BY DEF DescriptorInv
<1>6. DescriptorInv'
  BY <1>1, <1>2, <1>3, <1>4, <1>5 DEF DescriptorInv, Idle
<1>7. UsersKept
  <2>1. ASSUME NEW m \in Fds, table[m] = "user", table'[m] = "nobody" PROVE UserCloses(m)
    <3>1. m = n
      BY <1>2, <2>1
    <3>2. ~UserOpens(n)
      BY <1>1, <2>1, <3>1 DEF UserOpens, NextFd
    <3> QED
      BY <3>1, <3>2
  <2> QED
    BY <2>1 DEF UsersKept
<1>8. NoneLost
  BY <1>1, <1>2, <1>4 DEF NoneLost, Lost
<1> QED
  BY <1>6, <1>7, <1>8 DEF Keeps

\* A call of openURI, openUDP or setFileDescriptor begins.
LEMMA KeepsBegin ==
  ASSUME DescriptorInv, Idle, UNCHANGED <<table, stream, auto>>, NEW c,
         kind' \in Kinds, todo' = Steps(kind', c), sauto' \in BOOLEAN,
         IF kind' = "fd" THEN sfd' \in Fds /\ table[sfd'] = "user" ELSE sfd' = 0 /\ sauto'
  PROVE  Keeps
<1>0. /\ kind' \in {"test", "fd"} => todo' = <<"stream">>
      /\ kind' \notin {"test", "fd"} => todo' \in Waiting
      /\ todo' \in Checked => kind' \in GuardedKinds \cup {"udp"}
  BY StepsProperties
<1>1. <<"stream">> \in Making
  BY DEF Making
<1>2. todo' \in Waiting \cup Making
  BY <1>0, <1>1
<1>3. /\ todo' \in Waiting => todo' \notin Working \cup Making
      /\ todo' \in Making => todo' \notin Working \cup Waiting \cup Checked
  <2>1. \A s \in Waiting \cup Making : s \in Checked => s \in Waiting
    BY DEF Checked, Waiting
  <2>2. \A s \in Waiting : Head(s) \in {"open", "address"}
    BY TodoProperties
  <2>3. \A s \in Working : Head(s) \in {"check", "peer", "raw", "baudrate"}
    BY TodoProperties
  <2>4. \A s \in Making : Head(s) = "stream"
    BY TodoProperties
  <2> QED
    BY <1>2, <2>1, <2>2, <2>3, <2>4
<1>4. DescriptorInv'
  <2>1. sfd' \in Fds => sfd' # 0
    BY OpeningAssumption
  <2>2. todo' \notin Working
    BY <1>2, <1>3
  <2>3. /\ kind' \in {"fd", "test"} <=> todo' \in Making
        /\ kind' \in {"fd", "test"} => todo' = <<"stream">>
    BY <1>0, <1>1, <1>3
  <2> QED
    BY <1>0, <1>2, <2>1, <2>2, <2>3, ListsDisjoint DEF DescriptorInv, Idle
<1>5. UsersKept
  BY DEF UsersKept, DescriptorInv
<1>6. NoneLost
  <2>1. sfd = 0
    BY TodoDisjoint DEF DescriptorInv
  <2> QED
    BY <2>1, OpeningAssumption DEF NoneLost, Lost
<1> QED
  BY <1>4, <1>5, <1>6 DEF Keeps

\* The call ends, or an exception leaves it, with the streams and descriptors as they were.
LEMMA KeepsEnd ==
  ASSUME DescriptorInv, NEW r, End(r), UNCHANGED <<table, stream, auto>>, sfd = 0
  PROVE  Keeps
<1>1. todo' = <<>> /\ kind' = "none" /\ sfd' = 0 /\ sauto' = TRUE
  BY DEF End
<1>2. <<>> \notin Waiting \cup Working \cup Making \cup Made \cup Checked
  BY ListsDisjoint
<1>3. DescriptorInv'
  BY <1>1, <1>2 DEF DescriptorInv
<1>4. UsersKept
  BY DEF UsersKept, DescriptorInv
<1>5. NoneLost
  BY <1>1 DEF NoneLost, Lost
<1> QED
  BY <1>3, <1>4, <1>5 DEF Keeps

LEMMA KeepsStart == ASSUME ~HandsTwice, DescriptorInv, Start PROVE Keeps
<1>1. ASSUME NEW n \in Fds, NEW a \in BOOLEAN, SetFileDescriptor(n, a) PROVE Keeps
  <2>1. /\ Idle /\ UNCHANGED <<table, stream, auto>> /\ kind' = "fd" /\ sauto' = a
        /\ todo' = Steps("fd", TRUE) /\ sfd' = n /\ table[n] = "user"
    BY <1>1 DEF SetFileDescriptor, Begin, streamVars
  <2>2. kind' \in Kinds
    BY <2>1 DEF Kinds, knownSchemes
  <2> QED
    BY <2>1, <2>2, KeepsBegin
<1>2. CASE OpenUDP
  <2>1. /\ Idle /\ UNCHANGED <<table, stream, auto>> /\ kind' = "udpclient" /\ sauto' = TRUE
        /\ todo' = Steps("udpclient", TRUE) /\ sfd' = 0
    BY <1>2 DEF OpenUDP, Begin, streamVars
  <2>2. kind' \in Kinds
    BY <2>1 DEF Kinds
  <2> QED
    BY <2>1, <2>2, KeepsBegin
<1>3. ASSUME NEW t \in Texts, OpenURI(t) PROVE Keeps
  <2> DEFINE r == Requests[t]
  <2>1. /\ r.kind \in {"none"} \cup knownSchemes
        /\ r.kind # "none" => r.auto \in BOOLEAN
    BY RequestProperties
  <2> HIDE DEF r
  <2>2. Idle
    BY <1>3 DEF OpenURI
  <2>3. CASE r.kind = "none" \/ (r.kind = "test" /\ stream = Test)
    BY <1>3, <2>3, KeepsQuiet DEF OpenURI, r
  <2>4. CASE r.kind = "fd"
    <3>1. r.fd \in Fds /\ SetFileDescriptor(r.fd, r.auto)
      BY <1>3, <2>4 DEF OpenURI, r
    <3> QED
      BY <1>1, <2>1, <2>4, <3>1
  <2>5. CASE r.kind \notin {"none", "fd"} /\ ~(r.kind = "test" /\ stream = Test)
    <3>1. /\ todo' = Steps(r.kind, r.udp.connected) /\ Begin(r.kind, r.conf)
          /\ sfd' = 0 /\ sauto' = TRUE
      BY <1>3, <2>5 DEF OpenURI, r
    <3>2. kind' = r.kind /\ UNCHANGED <<table, stream, auto>>
      BY <3>1 DEF Begin, streamVars
    <3>3. kind' \in Kinds /\ kind' # "fd" /\ todo' = Steps(kind', r.udp.connected)
      BY <2>1, <2>5, <3>1, <3>2 DEF Kinds
    <3> QED
      BY <2>2, <3>1, <3>2, <3>3, KeepsBegin
  <2> QED
    BY <2>3, <2>4, <2>5
<1> QED
  BY <1>1, <1>2, <1>3 DEF Start

\* open, socket: a new descriptor, which nobody had.
LEMMA KeepsGet == ASSUME DescriptorInv, NEW n \in Fds, GetDescriptor(n) PROVE Keeps
<1>1. todo \in Waiting /\ todo \notin Working \cup Making
  BY TodoDisjoint DEF GetDescriptor, DescriptorInv
<1>2. /\ Len(todo) # 1 /\ Tail(todo) \in Working \cup Making
      /\ Tail(todo) \in Working => todo \in Checked
  BY <1>1, TodoProperties
<1>3. /\ todo' = Tail(todo) /\ sfd' = n /\ UNCHANGED <<stream, auto, kind, sauto>>
      /\ table' = [table EXCEPT ![n] = "driver"] /\ table[n] = "nobody"
  BY <1>2 DEF GetDescriptor, StepDone, NextFd, streamVars
<1>4. <<"stream">> \in Making
  BY DEF Making
<1>5. kind \notin {"fd", "test"} /\ sfd = 0 /\ n # 0 /\ n # stream
  BY <1>1, <1>3, <1>4, OpeningAssumption DEF DescriptorInv
<1>6. /\ table \in [Fds -> Owners] /\ table' \in [Fds -> Owners] /\ table'[n] = "driver"
      /\ \A m \in Fds : m # n => table'[m] = table[m]
  BY <1>3 DEF DescriptorInv, Owners
<1>7. todo' \notin Checked
  BY <1>2, <1>3, ListsDisjoint
<1>8. DescriptorInv'
  BY <1>2, <1>3, <1>5, <1>6, <1>7, ListsDisjoint DEF DescriptorInv, Idle
<1>9. UsersKept
  BY <1>6 DEF UsersKept
<1>10. NoneLost
  BY <1>3, <1>5, <1>6, OpeningAssumption DEF NoneLost, Lost
<1> QED
  BY <1>8, <1>9, <1>10 DEF Keeps

\* bind, listen, connect, tcsetattr on the descriptor at work.
LEMMA KeepsSetUp == ASSUME DescriptorInv, SetUp PROVE Keeps
<1>1. todo \in Working /\ todo \notin Waiting \cup Making
  BY TodoDisjoint DEF SetUp, DescriptorInv
<1>2. Len(todo) # 1 /\ Tail(todo) \in Working \cup Making
  BY <1>1, TodoProperties
<1>3. todo' = Tail(todo) /\ UNCHANGED <<table, stream, auto, kind, sfd, sauto>>
  BY <1>2 DEF SetUp, StepDone, streamVars
<1>4. <<"stream">> \in Making
  BY DEF Making
<1>5. kind \notin {"fd", "test"} /\ sfd \in Fds /\ kind \in GuardedKinds \cup {"udp"}
  BY <1>1, <1>4 DEF DescriptorInv
<1>6. DescriptorInv'
  BY <1>2, <1>3, <1>5, ListsDisjoint DEF DescriptorInv, Idle
<1>7. UsersKept
  BY <1>3 DEF UsersKept, DescriptorInv
<1>8. NoneLost
  BY <1>3 DEF NoneLost, Lost
<1> QED
  BY <1>6, <1>7, <1>8 DEF Keeps

\* An exception leaves the opening: the FileGuard closes its descriptor, where there is one.
LEMMA KeepsThrow ==
  ASSUME DescriptorInv, StepFails \/ StreamThrows PROVE Keeps
<1>1. /\ table' = (IF Guarded THEN Closed(sfd, table) ELSE table) /\ End("throws")
      /\ UNCHANGED <<stream, auto>>
  BY DEF StepFails, StreamThrows, Throw, streamVars
<1>2. todo' = <<>> /\ kind' = "none" /\ sfd' = 0 /\ sauto' = TRUE
  BY <1>1 DEF End
<1>3. <<>> \notin Waiting \cup Working \cup Making \cup Made \cup Checked
  BY ListsDisjoint
<1>4. Guarded /\ sfd \in Fds => table[sfd] = "driver" /\ sfd # stream
  BY OpeningAssumption DEF Guarded, GuardedKinds, DescriptorInv
<1>5. table \in [Fds -> Owners]
  BY DEF DescriptorInv
<1>6. /\ table' \in [Fds -> Owners]
      /\ \A m \in Fds : IF Guarded /\ m = sfd THEN table'[m] = "nobody" ELSE table'[m] = table[m]
  <2>1. CASE Guarded /\ sfd \in Fds
    BY <1>1, <1>5, <2>1 DEF Closed, Owners
  <2>2. CASE ~(Guarded /\ sfd \in Fds)
    BY <1>1, <1>5, <2>2 DEF Closed
  <2> QED
    BY <2>1, <2>2
<1>7. DescriptorInv'
  <2>1. stream \in Fds => table'[stream] = table[stream]
    BY <1>4, <1>6
  <2> QED
    BY <1>1, <1>2, <1>3, <1>6, <2>1 DEF DescriptorInv
<1>8. UsersKept
  BY <1>4, <1>6 DEF UsersKept
<1>9. NoneLost
  <2>1. CASE StepFails /\ kind # "udp"
    <3>1. todo \in Waiting \cup Working
      BY <2>1, TodoDisjoint DEF StepFails, DescriptorInv
    <3>2. ~At("stream")
      BY <3>1, TodoDisjoint DEF DescriptorInv
    <3>3. sfd \in Fds => Guarded
      BY <2>1, <3>1, <3>2, TodoDisjoint, OpeningAssumption DEF DescriptorInv, Guarded
    <3> QED
      BY <1>1, <1>2, <1>6, <3>3 DEF NoneLost, Lost
  <2> QED
    BY <2>1 DEF NoneLost
<1> QED
  BY <1>7, <1>8, <1>9 DEF Keeps

\* setMainStream: the old stream goes, with its descriptor if that is the driver's.
LEMMA KeepsSetMainStream == ASSUME DescriptorInv, SetMainStream PROVE Keeps
<1>1. todo \in Making /\ todo # <<>>
  BY TodoDisjoint DEF SetMainStream, DescriptorInv, At, Idle
<1> DEFINE handed == IF sfd # 0 /\ sauto THEN [table EXCEPT ![sfd] = "driver"] ELSE table
<1>2. /\ stream' = (IF kind = "test" THEN Test ELSE sfd) /\ auto' = sauto
      /\ table' = OldStreamDeleted(handed) /\ StepDone(0)
  BY DEF SetMainStream
<1>3. /\ table \in [Fds -> Owners] /\ Test \notin Fds /\ 0 \notin Fds /\ Test # 0
      /\ kind # "test" => sfd \in Fds
      /\ kind = "test" => sfd = 0
      /\ sfd # 0 => IF kind = "fd" THEN table[sfd] = "user"
                    ELSE table[sfd] = "driver" /\ sfd # stream
      /\ stream \in Fds => table[stream] = IF auto THEN "driver" ELSE "user"
      /\ kind # "fd" => sauto
  BY <1>1, OpeningAssumption DEF DescriptorInv, Test
<1>4. /\ handed \in [Fds -> Owners]
      /\ sfd \in Fds /\ sauto => handed[sfd] = "driver"
      /\ sfd \in Fds /\ ~sauto => handed[sfd] = "user"
      /\ \A m \in Fds : m # sfd => handed[m] = table[m]
  BY <1>3 DEF Owners
<1> HIDE DEF handed
<1>5. /\ table' \in [Fds -> Owners]
      /\ \A m \in Fds : table'[m] = IF auto /\ m = stream THEN "nobody" ELSE handed[m]
  <2>1. CASE auto /\ stream \in Fds
    BY <1>2, <1>4, <2>1 DEF OldStreamDeleted, Closed, Owners
  <2>2. CASE ~(auto /\ stream \in Fds)
    BY <1>2, <1>4, <2>2 DEF OldStreamDeleted, Closed
  <2> QED
    BY <2>1, <2>2
<1>6. sfd \in Fds => ~(auto /\ sfd = stream)
  BY <1>3
<1>7. /\ todo' \in {<<>>} \cup Made /\ sfd' = 0 /\ kind' \notin {"fd", "test"}
      /\ kind' # "fd" => sauto'
      /\ todo' = <<>> => kind' = "none"
  <2>1. CASE Len(todo) = 1
    BY <1>2, <2>1 DEF StepDone, End
  <2>2. CASE Len(todo) # 1
    <3>1. Tail(todo) \in Made
      BY <1>1, <2>2, TodoProperties
    <3>2. todo' = Tail(todo) /\ sfd' = 0 /\ UNCHANGED <<kind, sauto>>
      BY <1>2, <2>2 DEF StepDone
    <3>3. todo # <<"stream">>
      BY <2>2
    <3>4. Tail(todo) # <<>>
      BY <3>1, TodoProperties
    <3> QED
      BY <3>1, <3>2, <3>3, <3>4 DEF DescriptorInv
  <2> QED
    BY <2>1, <2>2
<1>8. todo' \notin Waiting \cup Working \cup Making \cup Checked
  BY <1>7, ListsDisjoint
<1>9. stream' \in Fds => table'[stream'] = IF auto' THEN "driver" ELSE "user"
  BY <1>2, <1>3, <1>4, <1>5, <1>6
<1>10. stream' \in Fds \cup {0, Test}
  BY <1>2, <1>3
<1>11. DescriptorInv'
  BY <1>5, <1>7, <1>8, <1>9, <1>10 DEF DescriptorInv, Idle
<1>12. UsersKept
  <2>1. ASSUME NEW m \in Fds, table[m] = "user" PROVE table'[m] # "nobody"
    BY <1>3, <1>4, <1>5, <2>1
  <2> QED
    BY <2>1 DEF UsersKept
<1>13. NoneLost
  <2>1. ASSUME NEW m \in Fds, table'[m] = "driver", m = stream' => ~auto'
        PROVE  table[m] = "driver" /\ m # sfd /\ (m = stream => ~auto)
    <3>1. m # sfd
      <4>1. SUFFICES ASSUME m = sfd PROVE FALSE
        OBVIOUS
      <4>2. kind # "test" /\ m = stream' /\ ~sauto
        BY <1>2, <1>3, <2>1, <4>1
      <4> QED
        BY <1>4, <1>5, <2>1, <4>1, <4>2
    <3> QED
      BY <1>4, <1>5, <2>1, <3>1
  <2> QED
    BY <2>1 DEF NoneLost, Lost
<1> QED
  BY <1>11, <1>12, <1>13 DEF Keeps

\* close() and the destructor, between calls or when the last step of an opening fails.
LEMMA KeepsClosing ==
  ASSUME DescriptorInv, Closing, sfd = 0, sfd' = 0, todo' = <<>>, kind' = "none", sauto'
  PROVE  Keeps
<1>1. table' = OldStreamDeleted(table) /\ stream' = 0 /\ auto' = auto
  BY DEF Closing, NoStream
<1>2. /\ table \in [Fds -> Owners] /\ 0 \notin Fds
      /\ stream \in Fds => table[stream] = IF auto THEN "driver" ELSE "user"
  BY OpeningAssumption DEF DescriptorInv
<1>3. /\ table' \in [Fds -> Owners]
      /\ \A m \in Fds : table'[m] = IF auto /\ m = stream THEN "nobody" ELSE table[m]
  <2>1. CASE auto /\ stream \in Fds
    BY <1>1, <1>2, <2>1 DEF OldStreamDeleted, Closed, Owners
  <2>2. CASE ~(auto /\ stream \in Fds)
    BY <1>1, <1>2, <2>2 DEF OldStreamDeleted, Closed
  <2> QED
    BY <2>1, <2>2
<1>4. todo' \notin Waiting \cup Working \cup Making \cup Made \cup Checked
  BY ListsDisjoint
<1>5. DescriptorInv'
  BY <1>1, <1>2, <1>3, <1>4 DEF DescriptorInv
<1>6. UsersKept
  BY <1>2, <1>3 DEF UsersKept
<1>7. NoneLost
  BY <1>2, <1>3 DEF NoneLost, Lost
<1> QED
  BY <1>5, <1>6, <1>7 DEF Keeps

LEMMA KeepsNext == ASSUME ~HandsTwice, DescriptorInv, [Next]_vars PROVE Keeps
<1>1. CASE UNCHANGED vars
  BY <1>1, KeepsQuiet DEF vars, streamVars
<1>2. CASE Configure \/ ConfigureFails
  <2>1. todo \in Made /\ todo \notin Working \cup Making
    BY <1>2, TodoDisjoint DEF Configure, ConfigureFails, DescriptorInv
  <2>2. Len(todo) = 1 /\ sfd = 0
    BY <2>1, TodoProperties DEF DescriptorInv
  <2>3. CASE Configure
    <3>1. End("returns") /\ UNCHANGED <<table, stream, auto>>
      BY <2>2, <2>3 DEF Configure, StepDone, streamVars
    <3> QED
      BY <2>2, <3>1, KeepsEnd
  <2>4. CASE ConfigureFails
    <3>1. End("throws") /\ (Closing \/ UNCHANGED <<table, stream, auto>>)
      BY <2>4 DEF ConfigureFails, streamVars
    <3>2. sfd' = 0 /\ todo' = <<>> /\ kind' = "none" /\ sauto'
      BY <3>1 DEF End
    <3> QED
      BY <2>2, <3>1, <3>2, KeepsEnd, KeepsClosing
  <2> QED
    BY <1>2, <2>3, <2>4
<1>3. CASE Close
  <2>1. Idle /\ Closing /\ UNCHANGED <<kind, todo, sfd, sauto>>
    BY <1>3 DEF Close
  <2>2. kind = "none" /\ sfd = 0 /\ todo = <<>> /\ sauto
    BY <2>1, TodoDisjoint DEF DescriptorInv, Idle
  <2> QED
    BY <2>1, <2>2, KeepsClosing
<1>4. ASSUME NEW n \in Fds, NextAddress(n) PROVE Keeps
  BY <1>4, KeepsQuiet DEF NextAddress, FailedAddress, streamVars
<1>5. CASE \/ \E r \in Rates : SetSerialBaudrate(r)
           \/ \E d \in Descriptions : SetSerialConfiguration(d)
  BY <1>5, KeepsQuiet DEF SetSerialBaudrate, SetSerialConfiguration, streamVars
<1> QED
  BY <1>1, <1>2, <1>3, <1>4, <1>5, KeepsUser, KeepsStart, KeepsGet, KeepsSetUp, KeepsThrow,
     KeepsSetMainStream
  DEF Next

LEMMA DescriptorsKept ==
  ASSUME ~HandsTwice
  PROVE  Spec => []DescriptorInv /\ [][UsersKept /\ NoneLost]_vars
<1>1. DescriptorInv /\ [Next]_vars => DescriptorInv' /\ [UsersKept /\ NoneLost]_vars
  BY KeepsNext DEF Keeps
<1> QED
  BY <1>1, DescriptorInit, PTL DEF Spec

\* Between calls the stream's descriptor is open and is the one that the stream was made
\* for, whichever openings have failed (Driver.cpp:111-115, 837-841, IOStream.cpp:37-41); when no
\* descriptor is handed over that the driver has already.
THEOREM StaysOpen ==
  ASSUME ~HandsTwice
  PROVE  Spec => []StreamIsOpen
<1>1. DescriptorInv => StreamIsOpen
  BY DEF DescriptorInv, StreamIsOpen
<1> QED
  BY <1>1, DescriptorsKept, PTL

\* No step of an opening, no failure of one and no replacement of a stream loses a
\* descriptor, udp:// and O_NONBLOCK excepted (Driver.hpp:22-43, Driver.cpp:428-619).
THEOREM NothingIsLost ==
  ASSUME ~HandsTwice
  PROVE  Spec => NoDescriptorLost
<1>1. NoneLost => StreamThrows \/ (kind = "udp" /\ StepFails) \/ Lost' \subseteq Lost
  BY DEF NoneLost
<1> QED
  BY <1>1, DescriptorsKept, PTL DEF NoDescriptorLost

\* The driver closes no descriptor of the user's (Driver.cpp:111-115, 837-841, IOStream.cpp:37-41).
THEOREM UsersAreSafe ==
  ASSUME ~HandsTwice
  PROVE  Spec => UsersStayOpen
<1>1. UsersKept => \A n \in Fds : table[n] = "user" /\ table'[n] = "nobody" => UserCloses(n)
  BY DEF UsersKept
<1> QED
  BY <1>1, DescriptorsKept, PTL DEF UsersStayOpen

-----------------------------------------------------------------------------
(* Types, and the serial line again.  These hold whatever is handed over.  *)

Lists == {<<>>} \cup Waiting \cup Working \cup Making \cup Made

\* A line is given the rate of a serial:// URI, which is not 0.
ConfInv == sconf \in Confs /\ todo \in Lists /\ (todo \in Rated => sconf.rate # 0)

TypeInv ==
  /\ table \in [Fds -> Owners] /\ stream \in Fds \cup {0, Test}
  /\ auto \in BOOLEAN /\ tty \in BOOLEAN
  /\ kind \in Kinds \cup {"none"} /\ sfd \in Fds \cup {0} /\ sauto \in BOOLEAN
  /\ tries \in 0 .. MaxTries /\ result \in {"none", "returns", "throws"}

LEMMA EndProperties ==
  ASSUME NEW r \in {"none", "returns", "throws"}, End(r)
  PROVE  /\ ConfInv' /\ kind' = "none" /\ sfd' = 0 /\ sauto' \in BOOLEAN
         /\ tries' \in 0 .. MaxTries /\ result' \in {"none", "returns", "throws"}
<1>1. DefaultConfiguration \in Configurations
  BY DEF DefaultConfiguration, Configurations
<1>2. NoConf \in Confs
  BY <1>1 DEF NoConf, Confs, Unknown
<1>3. <<>> \notin Rated
  BY DEF Rated
<1>4. /\ todo' = <<>> /\ sconf' = NoConf /\ kind' = "none" /\ sfd' = 0 /\ sauto' = TRUE
      /\ tries' = 0 /\ result' = r
  BY DEF End
<1> QED
  BY <1>2, <1>3, <1>4, OpeningAssumption DEF ConfInv, Lists

LEMMA RatedLists ==
  /\ \A s \in Made : s \notin Rated
  /\ \A s \in Making : s \notin Rated
<1>1. \A s \in Rated : s # <<>> /\ Head(s) \in {"open", "raw", "baudrate"}
  BY DEF Rated
<1> QED
  BY <1>1, TodoProperties

LEMMA StepDoneProperties ==
  ASSUME ConfInv, TypeInv, NEW n \in Fds \cup {0}, todo # <<>>, StepDone(n)
  PROVE  /\ ConfInv' /\ kind' \in Kinds \cup {"none"} /\ sfd' \in Fds \cup {0}
         /\ sauto' \in BOOLEAN /\ tries' \in 0 .. MaxTries
         /\ result' \in {"none", "returns", "throws"}
<1>1. CASE Len(todo) = 1
  BY <1>1, EndProperties DEF StepDone
<1>2. CASE Len(todo) # 1
  <2>1. todo' = Tail(todo) /\ sfd' = n /\ UNCHANGED <<kind, sauto, sconf, tries, result>>
    BY <1>2 DEF StepDone
  <2>2. todo \in Waiting \cup Working \cup Making
    BY <1>2, TodoProperties DEF ConfInv, Lists
  <2>3. Tail(todo) \in Lists /\ (Tail(todo) \in Rated => todo \in Rated)
    BY <1>2, <2>2, TodoProperties, RatedLists DEF Lists
  <2> QED
    BY <2>1, <2>3 DEF ConfInv, TypeInv
<1> QED
  BY <1>1, <1>2

LEMMA StartProperties ==
  ASSUME ConfInv, TypeInv, Start PROVE ConfInv' /\ TypeInv' /\ UNCHANGED lineVars
<1> DEFINE Goal == ConfInv' /\ TypeInv' /\ UNCHANGED lineVars
<1>0. NoConf \in Confs
  <2>1. DefaultConfiguration \in Configurations
    BY DEF DefaultConfiguration, Configurations
  <2> QED
    BY <2>1 DEF NoConf, Confs, Unknown
<1>1. ASSUME NEW k \in Kinds, NEW c, NEW conf \in Confs, k = "serial" => conf.rate # 0,
             Begin(k, conf), todo' = Steps(k, c), sfd' \in Fds \cup {0}, sauto' \in BOOLEAN
      PROVE  Goal
  <2>1. /\ kind' = k /\ tries' = 0 /\ sconf' = conf /\ result' = "none"
        /\ UNCHANGED <<table, stream, auto, tty>> /\ UNCHANGED lineVars
    BY <1>1 DEF Begin, streamVars
  <2>2. todo' \in Lists /\ (todo' \in Rated => k = "serial")
    BY <1>1, StepsProperties DEF Lists, Making
  <2> QED
    BY <1>1, <2>1, <2>2, OpeningAssumption DEF ConfInv, TypeInv
<1>2. ASSUME NEW n \in Fds, NEW a \in BOOLEAN, SetFileDescriptor(n, a) PROVE Goal
  <2>1. /\ sfd' = n /\ sauto' = a /\ todo' = Steps("fd", TRUE) /\ Begin("fd", NoConf)
    BY <1>2 DEF SetFileDescriptor
  <2>2. "fd" \in Kinds
    BY DEF Kinds, knownSchemes
  <2> QED
    BY <1>0, <1>1, <2>1, <2>2
<1>3. CASE OpenUDP
  <2>1. "udpclient" \in Kinds
    BY DEF Kinds
  <2> QED
    BY <1>0, <1>1, <1>3, <2>1 DEF OpenUDP
<1>4. ASSUME NEW t \in Texts, OpenURI(t) PROVE Goal
  <2> DEFINE r == Requests[t]
  <2>1. /\ r.kind \in {"none"} \cup knownSchemes
        /\ r.kind # "none" => /\ r.auto \in BOOLEAN /\ r.conf \in Confs
                              /\ r.kind = "serial" => r.conf.rate # 0
    BY RequestProperties
  <2> HIDE DEF r
  <2>3. CASE r.kind = "none" \/ (r.kind = "test" /\ stream = Test)
    <3>1. /\ result' \in {"returns", "throws"}
          /\ UNCHANGED <<table, streamVars, localVars, lineVars>>
      BY <1>4, <2>3 DEF OpenURI, r
    <3> QED
      BY <3>1 DEF ConfInv, TypeInv, streamVars
  <2>4. CASE r.kind = "fd"
    <3>1. r.fd \in Fds /\ SetFileDescriptor(r.fd, r.auto)
      BY <1>4, <2>4 DEF OpenURI, r
    <3> QED
      BY <1>2, <2>1, <2>4, <3>1
  <2>5. CASE r.kind \notin {"none", "fd"} /\ ~(r.kind = "test" /\ stream = Test)
    <3>1. /\ todo' = Steps(r.kind, r.udp.connected) /\ Begin(r.kind, r.conf)
          /\ sfd' = 0 /\ sauto' = TRUE
      BY <1>4, <2>5 DEF OpenURI, r
    <3>2. r.kind \in Kinds
      BY <2>1, <2>5 DEF Kinds
    <3> QED
      BY <1>1, <2>1, <2>5, <3>1, <3>2
  <2> QED
    BY <2>3, <2>4, <2>5
<1> QED
  BY <1>2, <1>3, <1>4 DEF Start

\* Taking a descriptor out of the table, or giving it to the driver, leaves a table.
LEMMA TableType ==
  ASSUME NEW tab \in [Fds -> Owners]
  PROVE  /\ \A n : Closed(n, tab) \in [Fds -> Owners]
         /\ OldStreamDeleted(tab) \in [Fds -> Owners]
         /\ \A n : [tab EXCEPT ![n] = "driver"] \in [Fds -> Owners]
<1>1. \A n : Closed(n, tab) \in [Fds -> Owners]
  BY DEF Closed, Owners
<1> QED
  BY <1>1 DEF OldStreamDeleted, Owners

LEMMA TypeConfNext ==
  ASSUME ConfInv, TypeInv, [Next]_vars PROVE ConfInv' /\ TypeInv'
<1> DEFINE Goal == ConfInv' /\ TypeInv'
<1>0. table \in [Fds -> Owners] /\ sfd \in Fds \cup {0} /\ 0 \in Fds \cup {0}
  BY DEF TypeInv
<1>1. ASSUME NEW n \in Fds, UserOpens(n) \/ UserCloses(n) PROVE Goal
  <2>1. table' \in [Fds -> Owners]
    BY <1>0, <1>1 DEF UserOpens, UserCloses, Owners
  <2> QED
    BY <1>1, <2>1 DEF UserOpens, UserCloses, ConfInv, TypeInv, streamVars
<1>2. ASSUME NEW n \in Fds, GetDescriptor(n) PROVE Goal
  <2>1. todo # <<>> /\ StepDone(n) /\ UNCHANGED streamVars
        /\ table' = [table EXCEPT ![n] = "driver"]
    BY <1>2 DEF GetDescriptor, At, Idle
  <2>2. table' \in [Fds -> Owners]
    BY <1>0, <2>1, TableType
  <2> QED
    BY <2>1, <2>2, StepDoneProperties DEF TypeInv, streamVars
<1>3. ASSUME NEW n \in Fds, NextAddress(n) PROVE Goal
  <2>1. tries \in 0 .. MaxTries /\ tries < MaxTries => tries + 1 \in 0 .. MaxTries
    BY OpeningAssumption
  <2> QED
    BY <1>3, <2>1 DEF NextAddress, FailedAddress, ConfInv, TypeInv, streamVars
<1>4. CASE SetUp
  <2>1. todo # <<>> /\ StepDone(sfd) /\ UNCHANGED <<table, streamVars>>
    BY <1>4 DEF SetUp, At, Idle
  <2> QED
    BY <1>0, <2>1, StepDoneProperties DEF TypeInv, streamVars
<1>5. CASE StepFails \/ StreamThrows
  <2>1. Throw
    BY <1>5 DEF StepFails, StreamThrows
  <2>2. table' \in [Fds -> Owners]
    BY <1>0, <2>1, TableType DEF Throw
  <2> QED
    BY <2>1, <2>2, EndProperties DEF Throw, TypeInv, streamVars
<1>6. CASE SetMainStream
  <2> DEFINE handed == IF sfd # 0 /\ sauto THEN [table EXCEPT ![sfd] = "driver"] ELSE table
  <2>1. /\ stream' = (IF kind = "test" THEN Test ELSE sfd) /\ auto' = sauto
        /\ tty' = (kind = "serial") /\ table' = OldStreamDeleted(handed) /\ StepDone(0)
        /\ todo # <<>>
    BY <1>6 DEF SetMainStream, At, Idle
  <2>2. handed \in [Fds -> Owners]
    BY <1>0, TableType
  <2> HIDE DEF handed
  <2>3. table' \in [Fds -> Owners]
    BY <2>1, <2>2, TableType
  <2>4. stream' \in Fds \cup {0, Test}
    BY <1>0, <2>1
  <2>5. auto' \in BOOLEAN /\ tty' \in BOOLEAN
    BY <2>1 DEF TypeInv
  <2> QED
    BY <1>0, <2>1, <2>3, <2>4, <2>5, StepDoneProperties DEF TypeInv
<1>7. ASSUME Closing
      PROVE  table' \in [Fds -> Owners] /\ stream' \in Fds \cup {0, Test} /\ auto' \in BOOLEAN
             /\ tty' \in BOOLEAN
  BY <1>0, <1>7, TableType DEF Closing, NoStream, TypeInv
<1>8. CASE Configure
  <2>1. todo # <<>> /\ StepDone(sfd) /\ UNCHANGED <<table, streamVars>>
    BY <1>8 DEF Configure, At, Idle
  <2> QED
    BY <1>0, <2>1, StepDoneProperties DEF TypeInv, streamVars
<1>9. CASE ConfigureFails
  <2>1. End("throws") /\ (Closing \/ UNCHANGED <<table, streamVars>>)
    BY <1>9 DEF ConfigureFails
  <2> QED
    BY <1>7, <2>1, EndProperties DEF TypeInv, streamVars
<1>10. CASE Close
  <2>1. Closing /\ result' = "returns" /\ UNCHANGED localVars
    BY <1>10 DEF Close
  <2> QED
    BY <1>7, <2>1 DEF ConfInv, TypeInv
<1>11. CASE \/ \E r \in Rates : SetSerialBaudrate(r)
            \/ \E d \in Descriptions : SetSerialConfiguration(d)
  <2>1. result' \in {"returns", "throws"} /\ UNCHANGED <<table, streamVars, localVars>>
    BY <1>11 DEF SetSerialBaudrate, SetSerialConfiguration
  <2> QED
    BY <2>1 DEF ConfInv, TypeInv, streamVars
<1>12. CASE UNCHANGED vars
  BY <1>12 DEF vars, ConfInv, TypeInv, streamVars
<1> QED
  BY <1>1, <1>2, <1>3, <1>4, <1>5, <1>6, <1>8, <1>9, <1>10, <1>11, <1>12, StartProperties DEF Next

LEMMA LineInvNext ==
  ASSUME ConfInv, TypeInv, LineInv, [Next]_vars PROVE LineInv'
<1>1. CASE UNCHANGED lineVars
  BY <1>1 DEF LineInv, LineTypeOK, lineVars, FormatInv, RateInv, Standard
<1>2. CASE SetUp \/ StepFails
  <2>1. ASSUME At("baudrate"), BaudrateSet(sconf.rate) \/ BaudrateNotSet(sconf.rate)
        PROVE  LineInv'
    <3>1. todo \in Rated
      BY <2>1, TodoProperties DEF ConfInv, Lists, At, Idle
    <3>2. sconf.rate \in Nat \ {0}
      BY <3>1 DEF ConfInv, Confs
    <3> QED
      BY <2>1, <3>2, LineInvRate
  <2> QED
    BY <1>1, <1>2, <2>1, LineInvRaw DEF SetUp, StepFails
<1>3. CASE Configure
  <2>1. ConfigurationSet(sconf.configuration) \/ UNCHANGED lineVars
    BY <1>3 DEF Configure
  <2>2. sconf.configuration \in Configurations
    BY DEF ConfInv, Confs
  <2> QED
    BY <1>1, <2>1, <2>2, LineInvConfiguration
<1>4. ASSUME NEW r \in Rates, SetSerialBaudrate(r) PROVE LineInv'
  <2>1. r \in Nat \ {0}
    BY OpeningAssumption
  <2> QED
    BY <1>1, <1>4, <2>1, LineInvRate DEF SetSerialBaudrate
<1>5. ASSUME NEW d \in Descriptions, SetSerialConfiguration(d) PROVE LineInv'
  BY <1>1, <1>5, ConfigurationType, LineInvConfiguration DEF SetSerialConfiguration
<1>6. ASSUME NEW n \in Fds, UserOpens(n) \/ UserCloses(n) \/ GetDescriptor(n) \/ NextAddress(n)
      PROVE  LineInv'
  BY <1>1, <1>6 DEF UserOpens, UserCloses, GetDescriptor, NextAddress
<1>7. CASE StreamThrows \/ SetMainStream \/ ConfigureFails \/ Close
  BY <1>1, <1>7 DEF StreamThrows, SetMainStream, ConfigureFails, Close
<1>8. CASE UNCHANGED vars
  BY <1>1, <1>8 DEF vars
<1> QED
  BY <1>1, <1>2, <1>3, <1>4, <1>5, <1>6, <1>7, <1>8, StartProperties DEF Next

LEMMA TypeInvariant == Spec => [](ConfInv /\ TypeInv /\ LineInv)
<1>1. Init => ConfInv /\ TypeInv /\ LineInv
  <2> SUFFICES ASSUME Init PROVE ConfInv /\ TypeInv /\ LineInv
    OBVIOUS
  <2>1. DefaultConfiguration \in Configurations
    BY DEF DefaultConfiguration, Configurations
  <2>2. NoConf \in Confs
    BY <2>1 DEF NoConf, Confs, Unknown
  <2>3. <<>> \notin Rated
    BY DEF Rated
  <2>4. LineInv
    BY LineInvInit DEF Init
  <2>5. ConfInv
    BY <2>2, <2>3 DEF Init, ConfInv, Lists
  <2>6. auto \in BOOLEAN /\ tty \in BOOLEAN /\ sauto \in BOOLEAN
    BY DEF Init
  <2>7. table \in [Fds -> Owners] /\ tries \in 0 .. MaxTries
    BY OpeningAssumption DEF Init, Owners
  <2>8. TypeInv
    BY <2>6, <2>7 DEF Init, TypeInv
  <2> QED
    BY <2>4, <2>5, <2>8
<1>2. ConfInv /\ TypeInv /\ LineInv /\ [Next]_vars => (ConfInv /\ TypeInv /\ LineInv)'
  BY TypeConfNext, LineInvNext
<1> QED
  BY <1>1, <1>2, PTL DEF Spec

\* Driver, SerialPort: the variables keep their types, through every opening.
THEOREM TypeCorrect == Spec => []TypeOK
<1> DEFINE Names == {"open", "address", "peer", "raw", "baudrate", "check", "stream",
                     "nodelay", "configure"}
<1>1. Lists \subseteq Seq(Names)
  BY DEF Lists, Waiting, Working, Making, Made
<1>2. ConfInv /\ TypeInv /\ LineInv => TypeOK
  BY <1>1 DEF ConfInv, TypeInv, LineInv, TypeOK, Confs, Owners
<1> QED
  BY <1>2, TypeInvariant, PTL

\* Whichever of openURI, setSerialBaudrate and setSerialConfiguration set it
\* (Driver.cpp:324-330, 644-835), the line has the configuration that was last set, and the
\* rate last set with success, a custom one as nearly as a divisor can, if its
\* serial_struct was the last one written or it is a standard rate other than 38400.
\* After a call that failed half-way, or an ioctl that was refused unnoticed, it has
\* otherwise 38400 or the custom rate the serial_struct is for: that other rates are lost
\* then is part of the statement.
THEOREM LineKeepsWhatWasAsked == Spec => []LineIsAsAsked
BY LineInvMeans, TypeInvariant, PTL

=============================================================================
