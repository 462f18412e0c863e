SPECIFICATION FairSpec
CONSTANTS
  Proc = {1, 2}
  fdMax = 3
  Inodes <- MCInodes
  direntries <- MCdirentries
  BLOCK_SIZE = 2
  FILENAME_LEN = 2
  Names = {".", "rtc", "a", "b", "none"}
  Lengths = {1, 3}
  Freqs = {3, 2048, 512}
  MaxOpens = 3
INVARIANTS
  ReadsExact
  RateAsAsked
PROPERTY TickSeen
