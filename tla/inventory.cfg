\* Every small registry, every way of cutting it into pages.
CONSTANTS
  Registries <- SmallRegistries
  MaxSds = 2
  MaxApplets = 1
  MaxElfs = 1
  MaxModules = 1
  MaxTlvs = 2
  MaxStatusPages = 3
  PageBytes = 2
  MaxScopeBytes = 6
SPECIFICATION FairSpec
INVARIANTS
  TypeOK
  ListsArePrefixes
  NothingMissingSilently
  LimitsAreNoErrors
PROPERTY ScanEnds
