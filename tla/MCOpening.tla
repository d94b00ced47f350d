----------------------------- MODULE MCOpening ------------------------------
(***************************************************************************)
(* The texts that TLC opens, and what README.md says of texts: their       *)
(* grammar and the options of udp://, against which URI::parse and         *)
(* openURI_UDP are compared.                                               *)
(***************************************************************************)
EXTENDS Opening, SequencesExt

CONSTANT MaxText  \* bound: length of the texts parsed, after their scheme

ASSUME MCOpeningAssumption == MaxText \in Nat

MCNumerals ==
  ("0" :> 0) @@ ("1" :> 1) @@ ("2" :> 2) @@ ("3" :> 3) @@ ("4" :> 4) @@ ("7" :> 7)
  @@ ("8" :> 8) @@ ("80" :> 80) @@ ("14400" :> 14400) @@ ("38400" :> 38400)
  @@ ("1152000" :> 1152000)

\* The writing of a text, by the general format of README.md:102.
WrittenOption(o) == o.key \o <<"=">> \o o.value
Written(scheme, host, port, options) ==
  <<scheme, ":", "/", "/">> \o host \o (IF port = "" THEN <<>> ELSE <<":", port>>)
  \o FlattenSeq([i \in 1..Len(options) |->
       <<IF i = 1 THEN "?" ELSE "&">> \o WrittenOption(options[i])])

Opt(k, v) == [key |-> <<k>>, value |-> <<v>>]
Plain(scheme, host) == Written(scheme, <<host>>, "", <<>>)

MCTexts ==
  { Plain("tcp", "h"), Written("tcp", <<"h">>, "80", <<>>), Plain("gopher", "h"),
    Plain("file", "h"), Plain("test", "h"), Plain("udp", "h"), Plain("udpserver", "80"),
    Plain("unixstreamserver", "h"), Plain("unixstream", "h"), Plain("unixdgramserver", "h"),
    Plain("unixdgram", "h"), Plain("fd", "3"), Plain("fd", "h"),
    Written("fd", <<"4">>, "", <<Opt("auto_close", "0")>>),
    Written("udp", <<"h">>, "80", <<>>), Written("udp", <<"h">>, "80", <<>>) \o <<":", "7">>,
    Written("udp", <<"h">>, "80", <<Opt("connected", "0"), Opt("ignore_connrefused", "0")>>),
    Written("serial", <<"h">>, "", <<>>), Written("serial", <<"h">>, "38400", <<>>),
    Written("serial", <<"h">>, "14400", <<Opt("parity", "even"), Opt("stop_bits", "2")>>),
    Written("serial", <<"h">>, "38400", <<Opt("stop", "2")>>),
    Written("serial", <<"h">>, "1152000", <<Opt("parity", "odd")>>) }

MCDescriptions == {<<"8", "N", "1">>, <<"7", "e", "2">>, <<"7", "O", "1">>, <<"4", "N", "1">>}

-----------------------------------------------------------------------------
Before == stream = 0 /\ result = "none" /\ \A n \in Fds : table[n] = "nobody"

\* The texts of the general format, by their part behind the two slashes: a host, then
\* a port, then options, each of them a key and a value.
Rests ==
  {r \in BoundedSeq({":", "/", "?", "&", "=", "w", "7"}, MaxText) :
     \A i \in 1..Len(r) - 1 : <<r[i], r[i + 1]>> # <<"7", "7">>}
HasFormat(r) ==
  \E h \in 0..Len(r), p \in {0, 2} :
    /\ h + p <= Len(r) /\ \A i \in 1..h : r[i] \notin {":", "?"}
    /\ p = 2 => <<r[h + 1], r[h + 2]>> = <<":", "7">>
    /\ h + p < Len(r) =>
         /\ r[h + p + 1] = "?"
         /\ \A i \in h + p + 1..Len(r) : r[i] = "&" \/ i = h + p + 1 =>
              \E j \in i + 1..Len(r) : r[j] = "=" /\ \A m \in i + 1..j : r[m] # "&"

Options ==
  [key : {<<"a">>, <<"b">>, <<>>, <<":", "?">>}, value : {<<"w">>, <<>>, <<"=", "7">>}]
ReadsBack(host, port, options) ==
  LET u == Parse(Written("s", host, port, options)) IN
  /\ u.ok /\ u.scheme = <<"s">> /\ u.host = host
  /\ u.port = IF port = "" THEN 0 ELSE Numerals[port]
  /\ DOMAIN u.options = {options[i].key : i \in DOMAIN options}
  /\ \A k \in DOMAIN u.options :
       \E i \in DOMAIN options :
         /\ options[i] = [key |-> k, value |-> u.options[k]]
         /\ \A j \in i + 1..Len(options) : options[j].key # k

\* URI::parse takes the texts of the general format and no others, with or without
\* each part, and reads from them what was written; the last option of a name counts.
ParseMatchesFormat ==
  /\ \A r \in Rests : Parse(<<"s", ":", "/", "/">> \o r).ok <=> HasFormat(r)
  /\ \A o \in BoundedSeq(Options, 2), h \in {<<>>, <<"h">>, <<"/", "=">>}, p \in {"", "80"} :
       ReadsBack(h, p, o)

GivenOption(k, v) == IF v = "" THEN <<>> ELSE <<Opt(k, v)>>
UDPText(l, c, i) ==
  Written("udp", <<"h">>, "80", GivenOption("local_port", l) \o GivenOption("connected", c)
                                \o GivenOption("ignore_connrefused", i))
\* The sentences of README.md:163-177, in their order, and the URIs of the old form.
UDPIsAsDocumented ==
  \A l \in {"", "7"}, c \in {"", "0", "1"}, i \in {"", "0", "1"} :
    LET r == Request(UDPText(l, c, i))
        refused == r.kind = "none"
    IN /\ refused => i = "0" /\ (c = "0" \/ (c = "" /\ l # ""))
       /\ i = "0" /\ c = "0" => refused
       /\ c = "0" /\ i = "" => r.udp.connrefused
       /\ l = "" /\ c = "" /\ i = "" => r.udp.connected /\ ~r.udp.connrefused
       /\ l # "" /\ c = "" /\ i = "" => ~r.udp.connected /\ r.udp.connrefused
       /\ ~refused => /\ (c # "" => (r.udp.connected <=> c = "1"))
                      /\ (i # "" => (r.udp.connrefused <=> i = "1"))
                      /\ r.udp.connected \/ r.udp.connrefused
UDPOldForm ==
  Request(Written("udp", <<"h">>, "80", <<>>) \o <<":", "7">>) = Request(UDPText("7", "", ""))

\* README.md:102 and 160-177: openURI asks for what the text says, over every text of
\* the format up to a length, and for the documented defaults of udp:// streams, which
\* depend on one another; no stream is left unconnected that reports refused connections.
OpensAsWritten == Before => ParseMatchesFormat /\ UDPIsAsDocumented /\ UDPOldForm
=============================================================================
