SPECIFICATION GSpec
CONSTANTS
  Full = 2000000
  Samples <- MCSamples
  Gaps <- MCGaps
  Seeds <- MCSeeds
  Asked <- MCAsked
  IchgMax = 32
  VregMax = 22
  LowPersist = 2
  MaxSamples = 4
INVARIANTS
  SettingHonoured
PROPERTIES
  FloorNeverSags
CHECK_DEADLOCK FALSE
