CONSTANTS
  Zips <- SmallCaps
  HeaderBytes = 2
  BlockBytes = 4
  MaxBlocks = 3
  Window = 4
  MaxCapImports = 2
  MaxCapApplets = 2
SPECIFICATION Spec
INVARIANT ReportedIsLoaded
