CONSTANTS
    w1 = w1
    w2 = w2
    Writer = {w1, w2}
    FilesOf <- MCFilesOf
    MaxGeneration = 1
    MaxOutside = 2
    MaxDeaths = 1
    Packet = Packet
    Foreign = Foreign
    NoDirectory = NoDirectory
SPECIFICATION PacketSpec
SYMMETRY WriterSymmetry
INVARIANTS
    PublishedPacketsStay
    NothingIsLeftBehind
    OthersAreSpared
    PacketsAreOfCurrent
CHECK_DEADLOCK FALSE
