SPECIFICATION Spec
CONSTANTS
  MaxListeners = 2
  MaxWorkers = 128
  Number <- MCNumber
  Addresses <- MCAddresses
  Files <- MCFiles
  Workers = {"w1", "w2"}
  LineLevels = {"info"}
  NULL = NULL
INVARIANTS
  ServesOneFile
  LogMatchesConfig
  LevelTakesEffect
