SPECIFICATION LSpec
CONSTANT HasPhy = TRUE
INVARIANTS
  QuietWhenUnbound
  SuppliesOutliveEvents
PROPERTIES
  UnbindEnds
