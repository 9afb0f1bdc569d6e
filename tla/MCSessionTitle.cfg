CONSTANTS
  None = None
  map = map
  n1 = n1
  n2 = n2
  g1 = g1
  g2 = g2
  Games <- MCGames
  LastSlot = 1
  Levels <- MCLevels
  Entries <- MCEntries
  Lengths <- MCLengths
  Archives <- MCArchives
  CopiedHandle <- MCCopiedHandle
  MaxVersion = 4
  NoFile = None
SPECIFICATION MCSpec
INVARIANT LiveLevelIsCurrent
CHECK_DEADLOCK FALSE
