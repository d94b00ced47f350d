CONSTANTS
  Messages <- SomeMessages
  Replies <- SomeReplies
  Frameworks = {"boost","gtest"}
  Closes = TRUE
  MaxQueue = 3
  MaxDepth = 2
SPECIFICATION Spec
INVARIANT RepliesAreEarned
