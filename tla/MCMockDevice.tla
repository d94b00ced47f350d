---------------------------- MODULE MCMockDevice ----------------------------
(***************************************************************************)
(* Messages that begin with each other or end in each other, or are two of *)
(* them one after the other, and replies that can be told from them.       *)
(***************************************************************************)
EXTENDS MockDevice

SomeMessages == {<<1>>, <<2>>, <<1, 2>>}
SomeReplies == {<<3>>, <<4, 3>>}
=============================================================================
