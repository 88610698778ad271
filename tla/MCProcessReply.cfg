SPECIFICATION Spec
CONSTANTS
  Tool = "addr2line"
  kMaxTimesRestarted = 5
  Pieces = 3
  UnknownAddresses = {2}
  FD = {3, 4, 5}
  MaxCalls = 3
  Faults = {"child-dies", "start-fails"}
  SigpipeIgnored = FALSE
INVARIANTS
  ReplyAnswersRequest
  LivingChildIsHeardOut
  HostOutlivesChild
PROPERTIES
  ImplementsChannel
