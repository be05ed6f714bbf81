SPECIFICATION FairSpec
CONSTANTS
    Services <- MCServices
    Own <- MCOwn
    Length <- MCLength
    Squeezed <- MCSqueezed
    Blank = ""
    RunOn <- MCRunOn
    Failures = {"poll", "browser"}
    MaxKeys = 3
    MaxEvents = 2
INVARIANTS
    AtMostOneReadPaused
    ResolvedAfterPublished
PROPERTIES
    EventsAreRead
    QuitEndsOrWaits
CHECK_DEADLOCK FALSE
