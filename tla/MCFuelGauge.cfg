SPECIFICATION Spec
CONSTANTS
  Full = 100
  OcvPcts <- MCOcvPcts
  Moves <- MCMoves
  ProxyDrops <- MCProxyDrops
  RestDrops <- MCRestDrops
  MaxMove = 35
  MaxRestDrop = 10
  LowVPersist = 2
  LowVMax = 2
  InaFitted = TRUE
  BatvFails = FALSE
  VbusSteady = TRUE
INVARIANTS
  TypeOK
  AccumulatorTracks
  NeverOverstated
PROPERTIES
  CounterContinuous
  NoSuddenEmpty
  ImplementsView
