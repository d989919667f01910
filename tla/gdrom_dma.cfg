SPECIFICATION Spec
CONSTANTS
    Commands <- MC_DmaCommands
    Packets <- DmaPackets
    ReadLens = {1}
    FeatVals = {1}
    SectCntVals = {8}
    DevCtrlVals = {}
    ByteCountVals = {}
    DiscFads = {1}
    SectorLen = 2
    IdentLen = 2
    ModeInfoLen = 4
    ReqErrLen = 3
    TocSize = 3
    Pkt71Len = 2
    UIntMod = 8192
    StarMod = 1024
    ProtBase = 256
    ProtUnit = 2
    GdaproVals <- MC_GdaproVals
    GdstarVals = {257, 1274}
    GdlenVals = {3}
    GdenVals = {1}
    GdstVals = {0, 1}
    AccessErrors = {"unmapped", "oversize"}
PROPERTIES
    DmaLengthAccounting
    StreamRefinement
VIEW PacketView
CHECK_DEADLOCK FALSE
