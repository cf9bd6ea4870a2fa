SPECIFICATION FairSpec
CONSTANTS
    MaxTopics = 2
    NRetry = 5
    TRetry = 3
    Radix = 2
    RuntimeTimeout = 4
    SetupTicks = 1
    Inputs <- MCInputs
INVARIANTS
    TypeOK
    RetransmitsTheRequest
    OneRetransmission
    PubackEndsTheBoot
    RoutineSleepIffPublished
    PublishesGrantedTopic
PROPERTIES
    EveryBootEnds
    ImplementsLeafCycle
