SPECIFICATION FairSpec
CONSTANTS
    MaxTopics = 2
    NRetry = 5
    TRetry = 5
    Radix = 2
    Boards <- AllBoards
    Inputs <- MCInputs
    SetupTicks = 1
    ReportInterval = 2
    PublishTicks = 3
    SleepTicks = 3
INVARIANTS
    PublishedOnce
    BatchUnderGrantedTopic
PROPERTIES
    BatchThenSleep
    RetriedWhenHeard
