SPECIFICATION BpSpec
CONSTANTS
    Modes = {{"flip"}}
    MaxEarly = 0
INVARIANT ReadCopesWithFlip
