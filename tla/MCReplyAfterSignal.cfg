SPECIFICATION Spec
CONSTANTS
  Tool = "llvm-symbolizer"
  kMaxTimesRestarted = 2
  Pieces = 2
  UnknownAddresses = {}
  FD = {3, 4}
  MaxCalls = 2
  Faults = {"eintr"}
  SigpipeIgnored = TRUE
INVARIANTS
  ReplyAnswersRequest
