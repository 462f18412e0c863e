SPECIFICATION Spec
CONSTANTS
  NUM_TERM = 2
  NUM_ROWS = 2
  NUM_COLS = 2
  WRAP = 2
  keyBufferSize = 6
  Texts <- MCTexts
  MaxOutputs = 1
  Env = {}
INVARIANTS
  VidmapShown
