SPECIFICATION OneKindSpec
CONSTANTS
  Sessions = {s1}
  Forwards = {w1}
  Commands = {"connect", "disconnect", "work", "configure"}
  MaxFrames = 3
INVARIANTS RunsInOrder DialCanBeCut StoppedForwardIsGone NoSendOnClosed
PROPERTY EveryFrameRuns
CHECK_DEADLOCK FALSE
