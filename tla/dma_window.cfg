SPECIFICATION Spec
CONSTANTS
    Commands <- MC_PktCommands
    Packets <- OneSectorPackets
    ReadLens = {}
    FeatVals = {1}
    SectCntVals = {}
    DevCtrlVals = {}
    ByteCountVals = {}
    DiscFads = {1}
    SectorLen = 2
    IdentLen = 2
    ModeInfoLen = 4
    ReqErrLen = 3
    TocSize = 3
    Pkt71Len = 2
    UIntMod = 8192
    StarMod = 1024
    ProtBase = 256
    ProtUnit = 2
    GdaproVals = {}
    GdstarVals = {600}
    GdlenVals = {2}
    GdenVals = {}
    GdstVals = {1}
    AccessErrors = {}
INVARIANT
    DmaWithinWindow
VIEW PacketView
CHECK_DEADLOCK FALSE
