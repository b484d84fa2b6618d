SPECIFICATION Spec
CONSTANTS
  Fingers = {f1}
  MaxOps = 2
INVARIANTS
  IrqBalanced
  CallbacksSerialised
  QuietWhileGone
PROPERTIES
  TouchReturns
