SPECIFICATION FairSpec
CONSTANTS
  SCROLL_X_DIM = 8
  SCROLL_Y_DIM = 3
  EXTRA = 3
  MEM_FENCE_WIDTH = 3
  Loads <- MCLoads
  MAX_TYPED_LEN = 2
  MESSAGE_TICKS = 2
INVARIANTS
  TypeOK
  ShowsRoom
  FenceIntact
  WindowInside
  CleanupOnce
  CleanEnd
PROPERTY MessageGoes
