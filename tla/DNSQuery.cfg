SPECIFICATION Spec
CONSTANTS
  Questions = {1, 2}
  MaxAsked = 2
  Found <- MCFound
  Upstream <- MCUpstream
  Servers = 2
  Unknown = 2
INVARIANTS ReplyIsComplete
PROPERTIES RequestIsAnswered
CHECK_DEADLOCK FALSE
