SPECIFICATION Spec
CONSTANTS
  MaxListeners = 2
  MaxWorkers = 128
  Number <- MCNumber
  Addresses <- MCAddresses
  Files <- MCFiles
  Workers = {"w1"}
  LineLevels = {"info"}
  NULL = NULL
INVARIANTS
  FormatEnforced
