-------------------------------- MODULE URI ---------------------------------
(***************************************************************************)
(* URI::parse, and the older form of udp:// that Driver::openURI rewrites. *)
(*                                                                         *)
(* A text is a sequence of tokens: the delimiters, which are one character *)
(* each, and words and numerals, whose characters nothing here looks at.   *)
(***************************************************************************)
EXTENDS Integers, Sequences, FiniteSetsExt, TLC

CONSTANT Numerals  \* the tokens that stoi reads, with the number each one stands for

\* The numbers that an int holds; two numerals in a row would be another one.
ASSUME URIAssumption == \A n \in DOMAIN Numerals : Numerals[n] \in Nat

NoOptions == [k \in {} |-> <<>>]
Malformed == [ok |-> FALSE, scheme |-> <<>>, host |-> <<>>, port |-> 0, options |-> NoOptions]

\* find_first_of, from a position on: the end of the text stands for npos.
FindFirst(t, chars, from) == Min({i \in from .. Len(t) : t[i] \in chars} \cup {Len(t) + 1})
FindLast(t, char) == Max({i \in 1 .. Len(t) : t[i] = char} \cup {0})
Substr(t, first, last) == SubSeq(t, first, Min({last, Len(t)}))
From(t, i) == SubSeq(t, i, Len(t))
Number(t) == Numerals[Head(t)]
IsNumber(t) == t # <<>> /\ Head(t) \in DOMAIN Numerals

\* Fault: an option without a value takes what follows for it.
BadPairAcrossOptions(separator, end, npos) == separator = npos

BadPair(separator, end, npos) == separator = npos \/ separator > end
\* The options loop, from the position before an option: the last one of a name counts.
ParseOptions(t, first) ==
  LET npos == Len(t) + 1
      options[before \in 1 .. npos] ==
        IF before = npos THEN [ok |-> TRUE, options |-> NoOptions]
        ELSE LET separator == FindFirst(t, {"="}, before + 1)
                 end == FindFirst(t, {"&"}, before + 1)
                 rest == options[end]
             IN IF BadPair(separator, end, npos) \/ ~rest.ok THEN Malformed
                ELSE [ok |-> TRUE,
                      options |-> rest.options
                                  @@ (SubSeq(t, before + 1, separator - 1)
                                      :> SubSeq(t, separator + 1, end - 1))]
  IN options[first]

Parse(t) ==
  LET scheme_end == FindFirst(t, {":"}, 1)
      host_end == FindFirst(t, {"?", ":"}, scheme_end + 3)
      port == host_end <= Len(t) /\ t[host_end] = ":"
      port_end == IF port THEN host_end + 2 ELSE host_end
      options == ParseOptions(t, port_end)
  IN IF \/ Substr(t, scheme_end, scheme_end + 2) # <<":", "/", "/">>
        \/ port /\ ~IsNumber(From(t, host_end + 1))
        \/ port_end <= Len(t) /\ t[port_end] # "?"
        \/ ~options.ok
     THEN Malformed
     ELSE [ok |-> TRUE, scheme |-> SubSeq(t, 1, scheme_end - 1),
           host |-> SubSeq(t, scheme_end + 3, host_end - 1),
           port |-> IF port THEN Number(From(t, host_end + 1)) ELSE 0,
           options |-> options.options]

GetOptionOr(u, key, default) ==
  IF <<key>> \in DOMAIN u.options THEN u.options[<<key>>] ELSE default
GetOption(u, key) == GetOptionOr(u, key, <<>>)

\* backwardParseBidirectionalUDP: udp://host:port:local_port.  With no colon after the
\* scheme's, the last colon is the scheme's.
BackwardParse(t) ==
  LET first_colon == FindFirst(t, {":"}, 5)
      last_colon == FindLast(t, ":")
  IN IF FindFirst(t, {"?", "&", "="}, 1) <= Len(t) \/ first_colon = last_colon THEN Parse(t)
     ELSE Parse(SubSeq(t, 1, last_colon - 1) \o <<"?", "local_port", "=">>
                \o From(t, last_colon + 1))

ParseForOpening(t) ==
  IF Substr(t, 1, 4) = <<"udp", ":", "/", "/">> THEN BackwardParse(t) ELSE Parse(t)
=============================================================================
