CONSTANTS
  Downloads = {d1, d2, d3, d4, d5}
  Concurrency = 2
SPECIFICATION FairSpec
INVARIANTS TypeOK Consistent SlotsUsed
PROPERTIES OldestFirst NoneWaitsForever
