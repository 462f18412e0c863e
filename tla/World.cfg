SPECIFICATION Spec
CONSTANTS
  Quest <- MCQuest
  Others = {"BATT_EMPTY"}
  Drops = {"TUX", "BOARD", "JETPACK"}
  DropAt = {"IN_391LAB"}
  LookAt = {"CAR_SITE"}
CHECK_DEADLOCK FALSE
INVARIANTS
  TypeOK
  ListsMatchLoc
  Conserved
  PhotosMatch
  DrawnCurrent
  SpeedMatches
PROPERTY FollowsPlot
