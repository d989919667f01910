SPECIFICATION Spec
CONSTANTS
    Commands <- MC_PktCommands
    Packets <- TwoSectorPackets
    ReadLens = {2}
    FeatVals = {}
    SectCntVals = {}
    DevCtrlVals = {}
    ByteCountVals = {}
    DiscFads = {1, 2}
    SectorLen = 2
    IdentLen = 2
    ModeInfoLen = 4
    ReqErrLen = 3
    TocSize = 3
    Pkt71Len = 2
    UIntMod = 8192
    StarMod = 1024
    ProtBase = 256
    ProtUnit = 2
    GdaproVals = {}
    GdstarVals = {}
    GdlenVals = {}
    GdenVals = {}
    GdstVals = {}
    AccessErrors = {}
INVARIANT
    ReadQueuesConsecutiveSectors
VIEW PacketView
CHECK_DEADLOCK FALSE
