CONSTANTS
  NoObject = NoObject
  d1 = d1
  d2 = d2
  e1 = e1
  e2 = e2
  MaxEntries = 3
  Doors <- MCDoors
  Effects <- MCEffects
  SwingTime <- MCSwingTime
  EffectDelays <- MCDelays
  Elapsed = {1}
  CatchUp = TRUE
  Collectable = {}
SPECIFICATION FairSpec
INVARIANT TableExact
INVARIANT SwingInStep
PROPERTY ReversesOnlyWhenBlocked
