\* A plugin that may subscribe and sends; frames of 19 to 24 bytes through a ring
\* of 24.
SPECIFICATION Spec
CONSTANTS
  p1 = p1
  p2 = p2
  Server = server
  Plugins = {p1}
  FifoByte <- OneName
  Topics <- OneTopic
  Payloads <- SomePayloads
  Registrations <- OneSubscription
  PipeBuf = 24
  Longest = 24
  MaxSends = 3
INVARIANTS PublishedAsAsked CaughtUp ParsedWhole
CHECK_DEADLOCK FALSE
