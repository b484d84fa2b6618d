SPECIFICATION MCSpec
CONSTANTS
  MaxFaults = 1
  MaxUpgrades = 2
INVARIANTS
  ClaimsExclude
  DriverKnowsChip
  ResourcesBalanced
  UpgradeIsJudged
