SPECIFICATION Spec
CONSTANTS
    Commands <- MC_PktCommands
    Packets <- SetModePackets
    ReadLens = {2}
    FeatVals = {}
    SectCntVals = {}
    DevCtrlVals = {}
    ByteCountVals = {}
    DiscFads = {1}
    SectorLen = 2
    IdentLen = 2
    ModeInfoLen = 4
    ReqErrLen = 3
    TocSize = 3
    Pkt71Len = 2
    UIntMod = 8192
    StarMod = 1024
    ProtBase = 256
    ProtUnit = 2
    GdaproVals = {}
    GdstarVals = {}
    GdlenVals = {}
    GdenVals = {}
    GdstVals = {}
    AccessErrors = {}
INVARIANT
    PacketPhaseAgreesWithIntReason
VIEW PacketView
CHECK_DEADLOCK FALSE
