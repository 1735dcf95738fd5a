CONSTANTS
  Registries <- PlainRegistries
  MaxSds = 2
  MaxApplets = 1
  MaxElfs = 1
  MaxModules = 1
  MaxTlvs = 2
  MaxStatusPages = 3
  PageBytes = 2
  MaxScopeBytes = 6
SPECIFICATION Spec
INVARIANT WhatWasReadIsKept
