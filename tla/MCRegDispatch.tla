--------------------------- MODULE MCRegDispatch ----------------------------
(* The accesses of the reg_banks run: in each bank registers of each      *)
(* handler kind, and an address no GD-ROM entry has (the three lookup     *)
(* loops are the same).  Maple frames interleave with the register        *)
(* accesses; a RAISE_ERROR from either stops both.                        *)
EXTENDS RegDispatch

CONSTANTS
    MAPLE_PORT_COUNT, MAPLE_UNIT_COUNT,
    MAPLE_CMD_DEVINFO, MAPLE_CMD_GETCOND,
    MAPLE_RESP_DEVINFO, MAPLE_RESP_DATATRF, MAPLE_RESP_NONE,
    MAPLE_DEVINFO_SIZE, MAPLE_COND_SIZE,
    DevEnabled, MapleFrames

VARIABLES maple_frame, maple_hdr

Maple == INSTANCE MapleBus

\* SB_C2DSTAT, SB_C2DLEN, SB_C2DST, SB_SDSTAW (warn) and SB_SBREV
\* (read-only).
MC_SysAccess == {SB_C2DSTAT, SB_C2DLEN, SB_C2DST, \h5f6810, SB_SBREV}

\* SB_G1RRC.
MC_G1Access == {\h5f7480}

\* Status/command, alternate status/device control (its write handler is
\* the warn one), data, and an unmapped word.
MC_GdromAccess == {GD_STATUS, GD_ALT_STATUS, GD_DATA, \h5f701c}

\* 0, and a word whose low two bytes are PACKET (0xa0): a two-byte write
\* of it to the command register is a PACKET command, a four-byte one not.
MC_Vals == {0, \h100a0}

\* A frame header: length in words and port in dat[0], the receive
\* address, and command, Maple address and packet length in dat[2].
MapleFrame(words, port, cmd, addr) ==
    <<words + port * 2^16, \h0c000000, cmd + addr * 2^8 + words * 2^24>>

\* The controller of port 0 (main unit, 0x20) is plugged in; port 1 is
\* empty.  GETCOND (9) to the controller, with one payload word, and
\* DEVINFO (1) to the empty port: both commands, both outcomes of the
\* enable test.  Each frame kind multiplies the register states, and a
\* frame that stops emulation (GETCOND to the empty port, lengths that
\* disagree) would add a copy of all of them with error set.
MC_DevEnabled == {\h20}
MC_MapleFrames == {MapleFrame(1, 0, 9, \h20), MapleFrame(0, 1, 1, \h60)}

\* Every port and unit a device can sit on round-trips through the
\* address codec (checked once, when the model is loaded).
ASSUME Maple!MapleAddrRoundTrip

\* The banks and the Maple bus, interleaved.
MCInit == Init /\ Maple!Init
MCNext == \/ Next /\ UNCHANGED <<maple_frame, maple_hdr>>
          \/ Maple!Next /\ UNCHANGED <<regVars, last>>
MCSpec == MCInit /\ [][MCNext]_<<vars, maple_frame, maple_hdr>>

\* maple_write_frame_resp's header for the last answered frame decodes,
\* field by field, to that frame's response, address and length.
MapleRespDecodes == Maple!MapleRespDecodes
=============================================================================
