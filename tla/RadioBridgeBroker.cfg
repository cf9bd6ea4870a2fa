SPECIFICATION FairSpec
CONSTANTS
    Flaky = FALSE
    Hangs = FALSE
    Radix = 3
    Hellos = 5
    MaxDatagrams = 1
    MaxLost = 1
    MaxRestarts = 1
    MaxOdd = 0
    LongDatagrams = FALSE
    Modes = {"connect"}
PROPERTY ServiceResumes
