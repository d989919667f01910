CONSTANTS
    SysAccess <- MC_SysAccess
    G1Access <- MC_G1Access
    GdromAccess <- MC_GdromAccess
    Lens = {2, 4, 8}
    Vals <- MC_Vals
    MaxC2d = 1
    MAPLE_PORT_COUNT = 4
    MAPLE_UNIT_COUNT = 6
    MAPLE_CMD_DEVINFO = 1
    MAPLE_CMD_GETCOND = 9
    MAPLE_RESP_DEVINFO = 5
    MAPLE_RESP_DATATRF = 8
    MAPLE_RESP_NONE = 255
    MAPLE_DEVINFO_SIZE = 112
    MAPLE_COND_SIZE = 8
    DevEnabled <- MC_DevEnabled
    MapleFrames <- MC_MapleFrames
SPECIFICATION MCSpec
INVARIANTS TypeOK MapleRespDecodes
PROPERTIES DispatchContract
\* Every failed access ends emulation.
CHECK_DEADLOCK FALSE
