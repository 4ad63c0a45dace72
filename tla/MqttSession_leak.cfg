CONSTANTS
  NumSockets = 2
  IdModulus = 8
  MaxLosses = 1
  MaxQueue = 2
  MaxAfterwards = 3
SPECIFICATION Spec
INVARIANT ReconnectsAfterClosing
