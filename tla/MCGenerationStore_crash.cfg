\* Process deaths only.
CONSTANTS
    p1 = p1
    p2 = p2
    Nobody = Nobody
    Process = {p1, p2}
    MaxGeneration = 2
    MaxOperations = 4
    MaxAborts = 2
    MaxPowerLosses = 0
SPECIFICATION FairSpec
INVARIANTS
    TypeOK
    HistoryReadable
    ReadersFindTheirGeneration
    PromotionsAreFresh
PROPERTIES
    EveryCallEnds
