SPECIFICATION FairSpec
CONSTANTS
  HiresBuffers = {h1, h2}
  NoBuffer = NoBuffer
  ErrorBudget = 2
INVARIANTS StatusIsHonest SetUpOnce CropFrameIsHeld
PROPERTIES RecoversFromBusyHardware EventsClearWhenDeclared
