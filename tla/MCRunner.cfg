\* One iteration with a child, one with HTTP probes, a crash of the runner.
SPECIFICATION FairSpec
CONSTANTS
    Runs = {1}
    LeaseTicks = 5
    Margin = 3
    CheckTicks = 1
    TermTicks = 1
    KillTicks = 1
    MaxCrash = 1
INVARIANTS
    NoWorkPastLease
    CancelledMeansStopped
    SucceededMeansPublished
    UnansweredRequestIsRecorded
PROPERTIES
    StopEnds
CHECK_DEADLOCK FALSE
