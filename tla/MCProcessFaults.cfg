SPECIFICATION FairSpec
CONSTANTS
  Tool = "llvm-symbolizer"
  kMaxTimesRestarted = 3
  Pieces = 2
  UnknownAddresses = {}
  FD = {3, 4, 5}
  MaxCalls = 3
  Faults = {"child-dies", "start-fails", "eintr"}
  SigpipeIgnored = TRUE
INVARIANTS
  TypeOK
  NoLeakedDescriptor
  KillClosesOwnPipes
  NoForeignIO
  BudgetAccountsForks
  NeverWaitsInVain
PROPERTIES
  HostDescriptorsUntouched
  FailureIsFinal
  CallMakesProgress
  ImplementsLife
  CallReturns
  StoppedChildrenLeave
