CONSTANTS
  Nobody = Nobody
  TableLength = 128
  Fixed = 7
  MaxReturns = 19
  MaxToggles = 0
  MaxRedraws = 0
SPECIFICATION Spec
INVARIANT ClicksCallTheMatch
CHECK_DEADLOCK FALSE
