SPECIFICATION FairSpec
CONSTANTS
    me = me
    long = long
    near = near
    Names = {me, near, long}
    Own = me
    Length <- MCLength
    Squeezed <- MCSqueezed
    Blank = Blank
    Null = Null
    Addresses = {1, 2}
    Faults = {"browse", "assign", "wait", "read", "reply", "resolve"}
    MaxReplies = 2
    MaxKeys = 3
INVARIANTS NeverBlocks ListExact ViewExact Watching
PROPERTIES PauseEnds ListedIsResolved
\* The program ends when it is told to.
CHECK_DEADLOCK FALSE
