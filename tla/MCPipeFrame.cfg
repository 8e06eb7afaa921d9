\* A frame may be longer than PIPE_BUF.
SPECIFICATION Spec
CONSTANTS
  p1 = p1
  p2 = p2
  Server = server
  Plugins = {p1, p2}
  FifoByte <- NamesOfFifos
  Topics <- OneTopic
  Payloads <- LongPayloads
  Registrations <- OneSubscription
  PipeBuf = 24
  Longest = 40
  MaxSends = 3
INVARIANT FrameFits
CHECK_DEADLOCK FALSE
