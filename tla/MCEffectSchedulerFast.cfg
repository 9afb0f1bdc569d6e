CONSTANTS
  NoObject = NoObject
  d1 = d1
  d2 = d2
  e1 = e1
  e2 = e2
  MaxEntries = 2
  Doors <- MCOneDoor
  Effects <- MCEffects
  SwingTime <- MCSwingTime
  EffectDelays <- MCDelays
  Elapsed = {1, 4}
  CatchUp = TRUE
  Collectable = {e2}
SPECIFICATION FairSpec
INVARIANT RestingDoorsTurned
PROPERTY EffectsExpire
PROPERTY DoorsSettle
