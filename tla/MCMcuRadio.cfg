SPECIFICATION McuFairSpec
CONSTANTS
    Lengths <- SentLengths
    Sizes <- HeardSizes
    Stalls = TRUE
INVARIANTS
    McuTypeOK
    NoFrameCutShort
    FirstFrameIntact
PROPERTY CallsReturn
