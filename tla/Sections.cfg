SPECIFICATION Spec
CHECK_DEADLOCK FALSE
CONSTANTS
  SectionLen = 2
  BloomLen = 6
  Bits <- MCBits
  BlockLogs <- MCBlockLogs
  Queries <- MCQueries
  MaxHeight = 4
  MaxRestarts = 1
  MaxFaults = 1
INVARIANTS SearchSound SearchComplete SectionsInOrder
