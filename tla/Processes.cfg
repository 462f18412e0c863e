SPECIFICATION FairSpec
CONSTANTS
  NUM_TERM = 3
  programMax = 4
  FDS = {2}
  Env = {}
INVARIANTS
  TypeOK
  SuspendedResumable
  ProgramCountExact
  CurrentAgrees
  NoProcessLost
  FreshDescriptors
PROPERTIES
  NoStarvation
