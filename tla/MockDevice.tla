----------------------------- MODULE MockDevice -----------------------------
(***************************************************************************)
(* TestStream and the test fixtures: a stream that plays the device.  In   *)
(* mock mode the test says which messages the driver is to send, and what  *)
(* the device answers to each (EXPECT_REPLY); a mock context turns the     *)
(* mode on for a scope and reports, at its end, what was not sent.  Scopes *)
(* may be nested, although the stream keeps one mode for all of them.      *)
(*                                                                         *)
(* The fixture opens a stream whenever it finds none.  A closed stream is  *)
(* kept in the state of a new one, so that opening it changes nothing.     *)
(***************************************************************************)
EXTENDS Naturals, Sequences, SequencesExt

CONSTANTS
  Messages,     \* what the driver writes and the test expects
  Replies,      \* what the device answers or sends by itself
  Frameworks,   \* whose mock contexts the tests use: "boost", "gtest"
  Closes,       \* may the driver be closed?
  MaxQueue,     \* bound: length of each queue, and expectations of a context
  MaxDepth      \* bound: contexts in one another

ASSUME MockAssumption ==
  /\ Messages \cup Replies \subseteq Seq(Nat)
  /\ Frameworks \subseteq {"boost", "gtest"} /\ Closes \in BOOLEAN
  /\ MaxQueue \in Nat /\ MaxDepth \in Nat

VARIABLES
  open,         \* has the driver a main stream?
  mock, eof,    \* m_mock_mode, m_eof
  to_driver, from_driver, expectations, replies,
  framework,    \* the one the tests are written for
  depth,        \* the mock contexts in whose scope the test is
  result,       \* how the last call ended
  accepted,     \* observer: what write() accepted in this context, each time all that
                \*   the device had received since the time before
  asked, answers,  \* observers: expectations and replies set in this context
  answered      \* observer: bytes the device has answered in this context

streamVars == <<open, mock, eof, to_driver, from_driver, expectations, replies>>
observers == <<accepted, asked, answers, answered>>
testVars == <<framework, depth>>
vars == <<streamVars, testVars, result, observers>>

Bytes == UNION {Range(m) : m \in Messages \cup Replies}

Results == {"ok", "MockContextException", "unexpected", "mismatch",
            "satisfied", "unmet reported", "unmet"}

TypeOK ==
  /\ open \in BOOLEAN /\ mock \in BOOLEAN /\ eof \in BOOLEAN /\ (mock \/ eof => open)
  /\ to_driver \in Seq(Bytes) /\ from_driver \in Seq(Bytes)
  /\ expectations \in Seq(Messages) /\ replies \in Seq(Replies)
  /\ Len(expectations) = Len(replies)
  /\ framework \in Frameworks /\ depth \in 0..MaxDepth /\ result \in Results

Init ==
  /\ open = FALSE /\ mock = FALSE /\ eof = FALSE
  /\ to_driver = <<>> /\ from_driver = <<>> /\ expectations = <<>> /\ replies = <<>>
  /\ framework \in Frameworks /\ depth = 0 /\ result = "ok"
  /\ accepted = <<>> /\ asked = <<>> /\ answers = <<>> /\ answered = <<>>

Forget == accepted' = <<>> /\ asked' = <<>> /\ answers' = <<>> /\ answered' = <<>>

-----------------------------------------------------------------------------
\* The driver.

\* A new TestStream, or none.
Fresh ==
  /\ mock' = FALSE /\ eof' = FALSE
  /\ to_driver' = <<>> /\ from_driver' = <<>> /\ expectations' = <<>> /\ replies' = <<>>
  /\ Forget /\ result' = "ok" /\ UNCHANGED testVars

OpenTestMode == open' = TRUE /\ Fresh

\* openURI("test://") keeps a TestStream that is there.
OpenURI ==
  /\ open' = TRUE /\ result' = "ok"
  /\ UNCHANGED <<mock, eof, to_driver, from_driver, expectations, replies, testVars, observers>>

Close == Closes /\ open /\ open' = FALSE /\ Fresh

Read(n) ==
  /\ open /\ to_driver # <<>>
  /\ to_driver' = SubSeq(to_driver, n + 1, Len(to_driver)) /\ result' = "ok"
  /\ UNCHANGED <<open, mock, eof, from_driver, expectations, replies, testVars, observers>>

\* Driver::clear.
ClearStream ==
  /\ open
  /\ to_driver' = <<>> /\ result' = "ok"
  /\ UNCHANGED <<open, mock, eof, from_driver, expectations, replies, testVars, observers>>

WriteUnchecked(m) ==
  /\ open /\ ~mock /\ Len(from_driver) < MaxQueue
  /\ from_driver' = from_driver \o m /\ result' = "ok"
  /\ UNCHANGED <<open, mock, eof, to_driver, expectations, replies, testVars, observers>>

\* Fault: a message is known by its length.
MatchesLength(m) == Len(from_driver \o m) = Len(Head(expectations))

Matches(m) == from_driver \o m = Head(expectations)

Pop == expectations' = Tail(expectations) /\ replies' = Tail(replies)

WriteExpected(m) ==
  /\ mock /\ expectations # <<>> /\ Matches(m) /\ Len(to_driver) < MaxQueue
  /\ to_driver' = to_driver \o Head(replies)
  /\ from_driver' = <<>>
  /\ Pop
  /\ result' = "ok"
  /\ accepted' = Append(accepted, from_driver \o m) /\ answered' = answered \o Head(replies)
  /\ UNCHANGED <<open, mock, eof, testVars, asked, answers>>

\* invalid_argument.
WriteMismatch(m) ==
  /\ mock /\ expectations # <<>> /\ ~Matches(m) /\ Len(from_driver) < MaxQueue
  /\ from_driver' = from_driver \o m
  /\ expectations' = <<>> /\ replies' = <<>>
  /\ Forget /\ result' = "mismatch"
  /\ UNCHANGED <<open, mock, eof, to_driver, testVars>>

\* runtime_error.
WriteUnexpected(m) ==
  /\ mock /\ expectations = <<>> /\ Len(from_driver) < MaxQueue
  /\ from_driver' = from_driver \o m
  /\ result' = "unexpected"
  /\ UNCHANGED <<open, mock, eof, to_driver, expectations, replies, testVars, observers>>

Write(m) == WriteUnchecked(m) \/ WriteExpected(m) \/ WriteMismatch(m) \/ WriteUnexpected(m)

-----------------------------------------------------------------------------
\* The test, through the fixture.

PushDataToDriver(d) ==
  /\ Len(to_driver) < MaxQueue
  /\ open' = TRUE /\ to_driver' = to_driver \o d /\ result' = "ok"
  /\ UNCHANGED <<mock, eof, from_driver, expectations, replies, testVars, observers>>

ReadDataFromDriver ==
  /\ open' = TRUE /\ from_driver' = <<>> /\ result' = "ok"
  /\ UNCHANGED <<mock, eof, to_driver, expectations, replies, testVars, observers>>

ExpectReply(e, r) ==
  /\ open' = TRUE /\ Len(asked) < MaxQueue
  /\ IF mock
     THEN /\ expectations' = Append(expectations, e) /\ replies' = Append(replies, r)
          /\ asked' = Append(asked, e) /\ answers' = Append(answers, r)
          /\ result' = "ok"
     ELSE result' = "MockContextException" /\ UNCHANGED <<expectations, replies, asked, answers>>
  /\ UNCHANGED <<mock, eof, to_driver, from_driver, testVars, accepted, answered>>

ClearExpectations ==
  /\ open' = TRUE /\ expectations' = <<>> /\ replies' = <<>>
  /\ Forget /\ result' = "ok"
  /\ UNCHANGED <<mock, eof, to_driver, from_driver, testVars>>

\* Fixture::setMockMode, which every context calls at its begin and at its end.
SetMockMode(mode) == open' = TRUE /\ mock' = mode /\ from_driver' = <<>>

\* The test counts from here, with what an earlier context has left expected of this one.
BeginMock ==
  /\ SetMockMode(TRUE)
  /\ accepted' = <<>> /\ answered' = <<>> /\ asked' = expectations /\ answers' = replies
  /\ result' = "ok" /\ UNCHANGED <<eof, to_driver, expectations, replies, framework>>

BeginContext == depth < MaxDepth /\ depth' = depth + 1 /\ BeginMock
MockModeOn == BeginMock /\ UNCHANGED depth
MockModeOff ==
  /\ SetMockMode(FALSE) /\ Forget /\ result' = "ok"
  /\ UNCHANGED <<eof, to_driver, expectations, replies, testVars>>

\* tearDown: validateExpectationsAreEmpty, whose exception becomes a test failure.
TearDown(left) ==
  result' = IF left # <<>> THEN "unmet reported"
            ELSE IF Len(accepted) < Len(asked) THEN "unmet" ELSE "satisfied"

EndBoostContext ==
  /\ framework = "boost"
  /\ TearDown(expectations)
  /\ UNCHANGED <<expectations, replies>>

EndGTestContext ==
  /\ framework = "gtest"
  /\ expectations' = <<>> /\ replies' = <<>>
  /\ TearDown(expectations')

EndContext ==
  /\ depth > 0 /\ depth' = depth - 1
  /\ SetMockMode(FALSE) /\ Forget
  /\ EndBoostContext \/ EndGTestContext
  /\ UNCHANGED <<eof, to_driver, framework>>

SetEOF(flag) ==
  /\ open' = TRUE /\ eof' = flag /\ result' = "ok"
  /\ UNCHANGED <<mock, to_driver, from_driver, expectations, replies, testVars, observers>>

Next ==
  \/ OpenTestMode \/ OpenURI \/ Close \/ ClearStream \/ \E n \in 1 .. Len(to_driver) : Read(n)
  \/ \E m \in Messages : Write(m)
  \/ \E d \in Replies : PushDataToDriver(d)
  \/ ReadDataFromDriver \/ ClearExpectations
  \/ \E e \in Messages, r \in Replies : ExpectReply(e, r)
  \/ BeginContext \/ EndContext \/ MockModeOn \/ MockModeOff
  \/ \E flag \in BOOLEAN : SetEOF(flag)

Spec == Init /\ [][Next]_vars

-----------------------------------------------------------------------------
\* In mock mode (TestStream::write), the messages accepted are the first of those
\* expected, in their order and byte for byte, the device has answered these and no
\* others, and it expects the rest.
RepliesAreEarned ==
  mock =>
    /\ asked = accepted \o expectations
    /\ answers = SubSeq(answers, 1, Len(accepted)) \o replies
    /\ answered = FlattenSeq(SubSeq(answers, 1, Len(accepted)))

-----------------------------------------------------------------------------
(* What texts of the repository say and the code does not keep: TLC refutes each
   with the constants that the README gives. *)

\* FixtureGTest.hpp:35 and FixtureBoostTest.hpp:28, of the end of a mock context: "Test
\* reached its end without satisfying all expecations" is the failure of a test that
\* has expectations left (tearDown).
UnmetIsReported == result # "unmet"

\* TestStream.hpp:45-46 on EXPECT_REPLY: the expectation "is the message that is
\* expected to be sent by the driver".  When the driver sends it, it is accepted.
ExpectedIsAccepted ==
  [][\A m \in Messages :
       mock /\ expectations # <<>> /\ m = Head(expectations) => ~WriteMismatch(m)]_vars

\* The same text: what is accepted is the message the driver sends.
AcceptedIsExpected ==
  [][\A m \in Messages : WriteExpected(m) => m = Head(expectations)]_vars

\* Fixture.hpp:76-78: "To use the expectations, one must first add IODRIVERS_BASE_MOCK();
\* to the test method.  Then, the request/replies are written as calls to EXPECT_REPLY".
ContextTakesExpectations == depth > 0 => result # "MockContextException"
=============================================================================
