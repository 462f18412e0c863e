SPECIFICATION FairSpec
CONSTANTS
  NUM_TERM = 2
  keyBufferSize = 5
  WRAP = 4
  Keys = {"a", "b"}
  Behind = {0, 2, 200}
  Env = {"switch"}
PROPERTIES
  EnteredLineRead
