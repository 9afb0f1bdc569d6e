CONSTANTS
  FirstStatic = 5
  LastSlot = 7
  DespawnLimit <- MCDespawnLimit
  None = None
  c1 = c1
  c2 = c2
  x = x
  Goods = {c1, c2, x}
  Coins = {c1, c2}
  Boxes = {x}
  Unwanted = {x}
  Places = {1, 2}
  MaxStack = 3
SPECIFICATION MCSpec
SYMMETRY Symmetry
INVARIANT FreeStacksExact
INVARIANT ActiveListExact
INVARIANT GoodsAccountedFor
INVARIANT PricesAreCurrent
PROPERTY ImplementsSlotPool
