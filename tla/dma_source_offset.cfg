SPECIFICATION Spec
CONSTANTS
    Commands <- MC_PktCommands
    Packets <- OneSectorPackets
    ReadLens = {1}
    FeatVals = {1}
    SectCntVals = {}
    DevCtrlVals = {}
    ByteCountVals = {}
    DiscFads = {1}
    SectorLen = 2
    IdentLen = 2
    ModeInfoLen = 4
    ReqErrLen = 3
    TocSize = 3
    Pkt71Len = 2
    UIntMod = 8192
    StarMod = 1024
    ProtBase = 256
    ProtUnit = 2
    GdaproVals <- MC_WindowGdapro
    GdstarVals = {257}
    GdlenVals = {2}
    GdenVals = {}
    GdstVals = {1}
    AccessErrors = {}
INVARIANT
    DmaCopiesUndeliveredBytes
VIEW PacketView
CHECK_DEADLOCK FALSE
