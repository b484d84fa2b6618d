SPECIFICATION Spec
CONSTANTS
  Socs <- MCSocs
  VbusSteady = TRUE
  FastPoll = TRUE
PROPERTIES
  WorkerKeepsRunning
  ReadsPublished
