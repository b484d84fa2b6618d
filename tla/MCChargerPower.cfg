SPECIFICATION PSpec
CONSTANTS
  UsbTypes = {"SDP", "DCP"}
  DCP = "DCP"
  UsbEvents = {"none", "id", "vbus"}
  ChipVersions = {"BQ25892", "BQ25895"}
  MaxTries = 1
INVARIANTS
  SecondaryComesBack
PROPERTIES
  LimitFollowsSupply
  BoostFollowsUsb
