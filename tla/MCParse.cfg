SPECIFICATION Spec
CONSTANTS
  Characters <- MCCharacters
  Names <- MCNames
  Numbers <- MCNumbers
  MaxFrames = 2
INVARIANTS
  FramesAreMeant
  DataAreMeant
  OnlyLastFrameSuffers
