SPECIFICATION FairSpec
CONSTANTS
  c1 = c1
  c2 = c2
  c3 = c3
  one = one
  two = two
  Commits <- ThreeCommits
  Versions <- TwoVersions
  Runs = {1, 2}
  SourceOf <- Sources
  Nobody = nobody
  Damaged = damaged
  Checks = 2
  Attempts = 2
  MaxReruns = 1
  MaxFaults = 1
INVARIANTS
  ReleaseInv
PROPERTIES
  LedgerSpec
  ReleasesSettle
CHECK_DEADLOCK FALSE
