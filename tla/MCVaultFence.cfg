SPECIFICATION OneSpec
CONSTANTS
  Devices = {d1, d2}
  Old = old
  MaxMade = 2
  MaxResets = 1
  MaxFaults = 1
INVARIANTS RecordsReadable KeysAgree RestartKeeps
PROPERTIES NeverBack BelievesFresh
SYMMETRY Symmetry
CHECK_DEADLOCK FALSE
