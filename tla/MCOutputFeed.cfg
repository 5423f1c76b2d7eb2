SPECIFICATION ShapedSpec
CONSTANTS
  Appenders = {a1, a2}
  StderrAppenders = {a2}
  Subscribers = {f1}
  CapacityBytes = 3
  MaxChunkBytes = 2
  ReadMaxBytes = 2
  QueueLen = 1
  Payloads = {1, 3}
  CursorModes = {"Head", "Seq", "TailBytes", "TimeMs", "Live"}
  MaxSeq = 4
INVARIANTS Contiguous HandoverExact NoSilentGap ReplayThenFollowExact
PROPERTIES NoSendAfterClose StopReturns
CHECK_DEADLOCK FALSE
