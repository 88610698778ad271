SPECIFICATION DemoSpec
CONSTANTS
  m1 = m1
  m2 = m2
  Module = {m1, m2}
  CommandLength <- MCCommandLength
  kBufferSize = 3
  POOLMAX = 1
  Leftover = {4}
  MaxFrames = 2
  MaxCalls = 3
  Programs = {"any", "simple_demo"}
  USE_PROG = m1
  Addresses = 2
INVARIANTS
  GlobalsAgree
  MemoryIsSound
  FiniReleasesAll
  FramesAnswerLatest
  CommandsAreWhole
  DemoReadsOwnFrames
  DemoEndsClean
PROPERTIES
  HeldUntilFreed
