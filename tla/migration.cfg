SPECIFICATION Spec
CONSTANTS
  NoKey = NoKey
  IntMax = 9
  Scale = 2
  Areas = {2, 4}
  MaxPosts = 2
INVARIANT AreaIsKept
CHECK_DEADLOCK FALSE
