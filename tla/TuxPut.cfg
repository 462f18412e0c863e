SPECIFICATION Spec
CONSTANTS
  TUXCTL_BUFSIZE = 4
  PACKET = 4
  ROOM = 2
  MaxChunk = 3
  Loads <- MCPutLoads
INVARIANTS
  PutReachesLine
