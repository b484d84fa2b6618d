SPECIFICATION Spec
CONSTANTS
  Variants = {"9203", "9202", "548", "5inch"}
  Profiles = {"natural", "vivid", "warm"}
  MaxLevel = 2
INVARIANTS
  SuppliesFollowDrm
  ShowsWhatIsSet
  DarkAfterShutdown
