CONSTANTS
    h1 = h1
    h2 = h2
    u1 = u1
    Handlers = {h1, h2}
    Users = {u1}
    User <- OneAccount
    MaxRevision = 2
SPECIFICATION LiveSpec
INVARIANTS WaitersExact NoOrphan CheckSees CheckerRuns
PROPERTY ChangeIsAnswered
CHECK_DEADLOCK FALSE
