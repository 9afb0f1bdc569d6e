CONSTANTS
  Slots = {1, 2}
  Channels = {1, 2}
  Effects = {0, 1}
  MaxTicks = 2
SPECIFICATION Spec
INVARIANT ChannelsAccountedFor
