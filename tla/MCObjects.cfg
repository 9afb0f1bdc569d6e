CONSTANTS
  None = None
  Nobody = Nobody
  Me = Me
  TableLength = 128
  Fixed = 7
  MaxReturns = 6
  MaxToggles = 1
  MaxRedraws = 1
SPECIFICATION MCSpec
INVARIANT WorldIsForest
INVARIANT NothingVanishes
INVARIANT BreaksOnlyAfterSweep
INVARIANT PanelShowsPack
INVARIANT WeightsAreExact
INVARIANT BindingsExact
INVARIANT EffectsAreCurrent
INVARIANT SpellsLastAsCast
PROPERTY InventoryTravelsWhole
CHECK_DEADLOCK FALSE
