SPECIFICATION Spec
CONSTANTS
  cron = cron
  shutdown = shutdown
  Levels <- MCLevels
  Savers <- MCSavers
  StaleDelta = 15
  StaleLow = 15
PROPERTIES
  RebootKeepsSoc
  NoEmptyBoot
  LoaderEnds
