SPECIFICATION PartsSpec
CONSTANTS
  None = None
  Labels = {l1, l2}
  Unit = 10
  Spans <- MCSpans
  Frames <- MCFrames
  Borders <- MCBorders
  Throttle = 1
  RingSize = 2
  CacheSize = 2
  MaxTime = 7
  Corners <- MCCorners
  Scores = {0, 3, 5}
  Classes = 2
  Zero = 1
  Full = 5
  MaxBoxes = 3
  Filters <- MCFilters
  Letter = Letter
  LF = LF
  CR = CR
  NUL = NUL
  MaxFile = 5
  MaxName = 2
  MaxNodes = 32
INVARIANTS CropFits SuppressionIsSound NamesAreLines InUseAsStored MemoryIsSound
PROPERTIES NewestFirst ShutdownEnds
