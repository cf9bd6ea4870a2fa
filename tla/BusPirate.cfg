SPECIFICATION BpFairSpec
CONSTANTS
    Modes = {{"flip"}, {"split"}, {"flip", "split"}, {"split", "late"},
             {"error"}, {"split", "error"}}
    MaxEarly = 6
INVARIANTS
    
    WriteCopesWithFlip
    BeginsInStep
PROPERTY MethodsReturn
