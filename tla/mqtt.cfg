SPECIFICATION Spec
CONSTANTS
  None = None
  Connected = Connected
  Gone = Gone
  Brokers = {b1, b2}
  Short = Short
  Long = Long
  Prefixes = {Short, Long}
  ShortName = ShortName
  LongName = LongName
  CutName = CutName
  Names = {ShortName, LongName, CutName}
  FullTopic <- MCFullTopic
  LastWillTopic <- MCLastWillTopic
  MaxEvents = 3
INVARIANTS PresenceIsHonest UsesWhatIsSet
PROPERTY StopCompletes
CHECK_DEADLOCK FALSE
