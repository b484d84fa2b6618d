SPECIFICATION MCSpec
CONSTANTS
  Long = 9
  Settle = 2
  Debounce = 3
  Tap = 2
  Retries = 4
  MaxLost = 1
  MaxFaults = 1
  Tilts = {"normal", "right"}
  BufSize = 2
INVARIANTS
  KeyMatchesGesture
PROPERTIES
  PressAnswered
  GestureEnds
  ScreenFollows
