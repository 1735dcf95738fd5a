\* Blocks of 4 bytes, at most 3 of them, and a ring of 4 bytes.
CONSTANTS
  Zips <- SmallCaps
  HeaderBytes = 2
  BlockBytes = 4
  MaxBlocks = 3
  Window = 4
  MaxCapImports = 2
  MaxCapApplets = 2
SPECIFICATION FairSpec
INVARIANTS
  TypeOK
  CardGetsTheFile
  DoneMeansLoaded
  BlockNumbersAreFresh
  RingKeepsPending
PROPERTY LoadEnds
