CONSTANTS
  Bytes = {0, 1}
  None = None
  ByteDelays = {1041666, 8333333}
  PropDelays = {1000, 2000}
SPECIFICATION Spec
INVARIANT TypeOK
PROPERTY ImplementsDelayLine
CHECK_DEADLOCK FALSE
