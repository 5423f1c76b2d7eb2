SPECIFICATION FairSpec
CONSTANTS
  Consumers = {c1, c2}
  Ops = {"RetireReset", "RetireForget", "Disconnect", "Reset", "Discard", "Replace", "Observe", "Forget", "Close"}
  LateTimers = TRUE
  MaxGen = 2
  MaxLoose = 1
INVARIANTS RefsExact LeasedStays NodeAlone ForgottenIsPurged
PROPERTY IdleGoes
CHECK_DEADLOCK FALSE
