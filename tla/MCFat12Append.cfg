CONSTANTS
  Names = {"A", "B"}
  NumClusters = 3
  Entries = 2
  SectorSize = 2
  Handles = {h1, h2}
  Lengths = {2, 3}
  SplitsFull = TRUE
SPECIFICATION FatSpec
INVARIANTS WrittenIsKept
