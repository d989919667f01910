SPECIFICATION Spec
CONSTANTS
    Commands <- MC_Commands
    Packets <- PioPackets
    ReadLens = {2}
    FeatVals <- MC_FeatVals
    SectCntVals = {}
    DevCtrlVals <- MC_DevCtrlVals
    ByteCountVals = {1}
    DiscFads = {1}
    SectorLen = 2
    IdentLen = 2
    ModeInfoLen = 4
    ReqErrLen = 3
    TocSize = 3
    Pkt71Len = 2
    UIntMod = 8192
    StarMod = 1024
    ProtBase = 256
    ProtUnit = 2
    GdaproVals = {}
    GdstarVals = {}
    GdlenVals = {}
    GdenVals = {}
    GdstVals = {}
    AccessErrors = {}
INVARIANTS
    TypeOK
    CheckHasSense
    QueueHoldsOneResponse
    DrqPromisesData
VIEW PacketView
CHECK_DEADLOCK FALSE
