SPECIFICATION Spec
CONSTANTS
    Flaky = TRUE
    Hangs = FALSE
    Radix = 4
    Hellos = 5
    MaxDatagrams = 2
    MaxLost = 3
    MaxRestarts = 1
    MaxOdd = 1
    LongDatagrams = FALSE
    Modes = {"connect"}
INVARIANT NoFaultMeansHome
