SPECIFICATION OneWaySpec
CONSTANTS
  Writers = {w1, w2}
  OutSize = 2
  InSize = 1
  MaxAttempts = 1
  MaxOut = 4
  MaxIn = 3
INVARIANTS NoInputLost AckedIsKept
PROPERTIES WriterReturns ImplementsStream
CHECK_DEADLOCK FALSE
