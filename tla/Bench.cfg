CONSTANTS
    MaxRuns = 2
    Programs = {"discard", "discard2"}
    MaxRefusals = 1
    Size = 2
    MaxDatagrams = 2
    Opened = {TRUE, FALSE}
SPECIFICATION FairSpec
INVARIANTS
    ConnackIsCurrent
    AddressWhole
    AtMostOneStale
    FifoIsStream
PROPERTIES
    ListenersSettle
    DatagramsComeThrough
\* Both programs may end.
CHECK_DEADLOCK FALSE
