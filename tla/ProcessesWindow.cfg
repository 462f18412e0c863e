SPECIFICATION WindowSpec
CONSTANTS
  NUM_TERM = 2
  programMax = 4
  FDS = {2}
  Env = {}
INVARIANT CurrentAgrees
