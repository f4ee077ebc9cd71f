SPECIFICATION FairSpec
CONSTANTS
  MaxNotices = 1
  MaxSetups = 1
  MaxImages = 1
  Intervals = {1}
  MaxAge = 1
  MaxFiles = 2
  MaxUnread = 1
INVARIANTS LimitHolds PairsMatch
PROPERTIES Spacing CapturesGoOn CardIsSetUp
