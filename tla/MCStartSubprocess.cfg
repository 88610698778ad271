SPECIFICATION Spec
CONSTANTS
  FD = {0, 1, 2, 3, 4, 5, 6, 7, 8, 9}
  MaxHostMoves = 2
INVARIANTS
  TypeOK
  ChecksPass
  NothingLost
  ChildIsWired
PROPERTIES
  HostDescriptorsUntouched
  ImplementsAtomicStart
