CONSTANTS
  NoObject = NoObject
  d1 = d1
  d2 = d2
  e1 = e1
  e2 = e2
  SwingTime <- MCSwingTime
  EffectDelays <- MCDelays
  CatchUp = TRUE
  MaxEntries = 2
  Doors <- MCOneDoor
  Effects <- MCEffects
  Elapsed = {1}
  Collectable <- MCEffects
SPECIFICATION Spec
INVARIANT EntriesLeadToLiveObjects
