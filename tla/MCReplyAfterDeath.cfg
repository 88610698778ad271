SPECIFICATION Spec
CONSTANTS
  Tool = "llvm-symbolizer"
  kMaxTimesRestarted = 2
  Pieces = 2
  UnknownAddresses = {}
  FD = {3, 4}
  MaxCalls = 2
  Faults = {"child-dies"}
  SigpipeIgnored = TRUE
INVARIANTS
  ReplyComplete
