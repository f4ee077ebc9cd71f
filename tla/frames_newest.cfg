SPECIFICATION FairSpec
CONSTANTS
  Buffers = {b1, b2, b3, b4}
  NumAppFrames = 1
  NoBuffer = NoBuffer
  MaxLost = 1
PROPERTY GetsTheMostRecent
