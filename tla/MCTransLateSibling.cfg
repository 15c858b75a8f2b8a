SPECIFICATION FairSpec
CONSTANTS
  Plans <- LateSibling
PROPERTIES
  CommittedTogether
CHECK_DEADLOCK FALSE
