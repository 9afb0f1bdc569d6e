CONSTANTS
  a = a
  b = b
  m1 = m1
  m2 = m2
  m3 = m3
  NoMobile = NoMobile
  NoTile = NoTile
  MaxDepth = 31
  Levels <- MCLevels
  Tiles <- MCTiles
  Passages <- MCPassages
  Heights <- MCHeights
  Creatures = {a, b}
  Room <- MCRoom
  Goals <- MCGoals
  Slots = {1, 2}
  NoSlot = 0
  Mobiles = {m1, m2, m3}
  Classes = {1, 4, 7}
  LoadedPhases <- MCLoadedPhases
  Leads = {0, 3}
  Elapsed = {1, 4}
SPECIFICATION MCSpec
INVARIANT ReachableIsFound
CHECK_DEADLOCK FALSE
