SPECIFICATION FairSpec
CONSTANTS
    N = 4
    Limit = 2
INVARIANTS BoundedInFlight CompleteUnlessCancelled
PROPERTIES AllOrNothing StopEnds Termination
CHECK_DEADLOCK FALSE
