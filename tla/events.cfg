SPECIFICATION FairSpec
CONSTANTS
  car = car
  traffic_light = traffic_light
  spaced_traffic_light = spaced_traffic_light
  any = any
  Labels <- PlainLabels
  EventId <- PlainId
  AnyEvent <- any
  MaxLabels = 2
  MaxHistory = 3
  Modes <- AllModes
  MaxHits = 2
  Durations <- AllDurations
  LongGap = 2
  MaxAge = 3
  MaxMissed = 0
INVARIANTS TypeOK AnyEventFollows
PROPERTIES HeldWhileSeen EventsAreEarned ContractSpec EventsClear PersistentLabelFires
