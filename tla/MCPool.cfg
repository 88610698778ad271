SPECIFICATION FairSpec
CONSTANTS
  Module = {m1, m2, m3}
  POOLMAX = 2
  MaxChildren = 4
INVARIANTS
  TypeOK
  PoolIsSound
  NoOrphan
PROPERTIES
  ImplementsProcessSet
  StoppedChildrenLeave
