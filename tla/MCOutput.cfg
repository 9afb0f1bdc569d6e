CONSTANTS
  Null = Null
  b1 = b1
  b2 = b2
  s1 = s1
  s2 = s2
  Tracks <- MCTracks
  Buffers <- MCBuffers
  Voices <- MCVoices
  Sounds <- MCSounds
  Length <- MCLength
  Lines <- MCLines
  MaxLength = 2
  Slots <- MCSlots
  Channels <- MCChannels
  Effects <- MCEffects
  MaxTicks = 2
  Rows = 3
  Texts <- MCTexts
  Menus <- MCMenus
SPECIFICATION MCSpec
INVARIANT BuffersLive
INVARIANT HeardIsCurrent
INVARIANT RowsAreRead
INVARIANT TableMatchesScreen
PROPERTY PicturesAreReleased
PROPERTY SlotsComeBack
CHECK_DEADLOCK FALSE
