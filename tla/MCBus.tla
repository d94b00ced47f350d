------------------------------- MODULE MCBus --------------------------------
(***************************************************************************)
(* Three devices on one bus.  Packets of "short" are "s" and one more      *)
(* byte; those of "long" are "s", "s" and one more byte, so that the two   *)
(* can be told apart by their second byte only; those of "other" are "o".  *)
(***************************************************************************)
EXTENDS Bus

Bytes == {"s", "o"}

\* Where the first byte b of buf is, or the length of buf: what is to be skipped.
ToNext(b, buf) ==
  LET places == {i \in 1 .. Len(buf) : buf[i] = b}
  IN IF places = {} THEN Len(buf) ELSE (CHOOSE i \in places : \A j \in places : i <= j) - 1

BusExtract(p, buf) ==
  CASE p = "short" -> IF ToNext("s", buf) # 0 THEN -ToNext("s", buf)
                      ELSE IF Len(buf) >= 2 THEN 2 ELSE 0
    [] p = "long" -> IF ToNext("s", buf) # 0 THEN -ToNext("s", buf)
                     ELSE IF Len(buf) = 1 THEN 0
                     ELSE IF buf[2] # "s" THEN -(1 + ToNext("s", Tail(buf)))
                     ELSE IF Len(buf) >= 3 THEN 3 ELSE 0
    [] p = "other" -> IF ToNext("o", buf) # 0 THEN -ToNext("o", buf) ELSE 1
=============================================================================
