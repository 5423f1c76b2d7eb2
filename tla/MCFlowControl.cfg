SPECIFICATION FairSpec
CONSTANTS
  Readers = {r1, r2}
  Modes = {"blocking", "observed"}
  High = 2
  Low = 1
  Stall = 2
  MaxRead = 2
  MaxAck = 3
  MaxHeld = 1
  MaxInserted = 1
  MaxUnacked = 8
INVARIANTS NoLostWakeup BacklogBounded
PROPERTY PausesEnd
CHECK_DEADLOCK FALSE
