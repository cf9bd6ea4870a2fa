SPECIFICATION FairSpec
CONSTANTS
    Flaky = TRUE
    Hangs = TRUE
    Radix = 3
    Hellos = 5
    MaxDatagrams = 1
    MaxLost = 1
    MaxRestarts = 1
    MaxOdd = 1
    LongDatagrams = TRUE
    Modes = {"listen", "connect"}
INVARIANTS
    DroppedEstimate
PROPERTIES
    DatagramsGetTheirTurn
    FaultsClear
