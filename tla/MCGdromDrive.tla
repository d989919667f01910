---------------------------- MODULE MCGdromDrive ----------------------------
(***************************************************************************)
(* Model values for GdromDrive.  Sizes are scaled down (a sector of 2     *)
(* bytes, ...) so that a response spans more than one data-register read  *)
(* but queues stay short; the 32-bit address space is scaled to 2^13 with *)
(* the GDAPRO window at the same relative place (base 2^27 -> 256, unit   *)
(* 2^20 -> 2).                                                             *)
(***************************************************************************)
EXTENDS GdromDrive

\* A 12-byte packet whose leading bytes are given and the rest are zero.
MkPacket(bytes) == [i \in 1..PKT_LEN |-> IF i <= Len(bytes) THEN bytes[i] ELSE 0]

\* READ (0x30) with data_sel 2 (byte 1 = 0x20), FAD in bytes 2-4 and the
\* sector count in bytes 8-10.
ReadPacket(fad, n) == MkPacket(<<48, 32, 0, 0, fad, 0, 0, 0, 0, 0, n>>)

PioPackets ==
    { MkPacket(<<GDROM_PKT_TEST_UNIT>>),
      MkPacket(<<GDROM_PKT_REQ_STAT>>),
      MkPacket(<<GDROM_PKT_REQ_MODE, 0, 2, 0, 3>>),    \* start 2, 3 bytes
      MkPacket(<<GDROM_PKT_SET_MODE, 0, 0, 0, 2>>),
      MkPacket(<<GDROM_PKT_REQ_ERROR, 0, 0, 0, 5>>),   \* clamped to ReqErrLen
      MkPacket(<<GDROM_PKT_READ_TOC, 0, 0, 0, 2>>),
      ReadPacket(1, 1),                                \* a readable sector
      MkPacket(<<GDROM_PKT_START_DISK>>),
      MkPacket(<<GDROM_PKT_UNKNOWN_71>>) }

\* READ of two sectors from FAD 1, for the DMA runs.
DmaPackets == {ReadPacket(1, 2), MkPacket(<<GDROM_PKT_READ_TOC, 0, 0, 0, 2>>)}

\* Single-packet sets for the runs that each ask about one handler.
SetModePackets == {MkPacket(<<GDROM_PKT_SET_MODE, 0, 0, 0, 2>>)}
\* READ_TOC, REQ_MODE and REQ_ERROR asking for 0 bytes.
ZeroLengthPackets == {MkPacket(<<GDROM_PKT_READ_TOC, 0, 0, 0, 0>>),
                      MkPacket(<<GDROM_PKT_REQ_ERROR, 0, 0, 0, 0>>),
                      MkPacket(<<GDROM_PKT_REQ_MODE, 0, 2, 0, 0>>)}
TwoSectorPackets == {ReadPacket(1, 2)}
OneSectorPackets == {ReadPacket(1, 1)}

\* SET_MODE, which takes its length from the byte count registers, and the
\* error report.
RegPackets == {MkPacket(<<GDROM_PKT_SET_MODE, 0, 0, 0, 2>>),
               MkPacket(<<GDROM_PKT_REQ_ERROR, 0, 0, 0, 5>>),
               MkPacket(<<GDROM_PKT_TEST_UNIT>>)}

MC_Commands == {GDROM_CMD_PKT, GDROM_CMD_SET_FEAT, GDROM_CMD_IDENTIFY}
MC_FeatVals == {3}            \* SET_FEATURES code; bit 0 also selects DMA
MC_DevCtrlVals == {2}         \* NIEN
MC_PktCommands == {GDROM_CMD_PKT}
MC_RegCommands == {GDROM_CMD_PKT, GDROM_CMD_SET_FEAT}
MC_DmaCommands == {GDROM_CMD_PKT, GDROM_CMD_IDENTIFY}
\* GDAPRO: window 258..261 (top field 1, bottom field 2) with the security
\* code, and a write without it (ignored).
MC_GdaproVals == {[key |-> 34883, low |-> 258], [key |-> 0, low |-> 0]}
\* Only the accepted write of that window.
MC_WindowGdapro == {[key |-> 34883, low |-> 258]}
\* GDSTAR: below, across and inside that window; 1274 loses bit 10 to the mask.
MC_GdstarVals == {257, 260, 1024 + 250}
\* Bytes of pkt_buf beyond n_bytes_received are overwritten before
\* gdrom_input_packet reads them, so states differing only there behave
\* alike.
PacketView ==
    <<stat_reg, feat_reg, sect_cnt_reg, dev_ctrl_reg, data_byte_count,
      int_reason_reg, sect_cnt_slot, sense_key, additional_sense,
      trans_mode_vals, state, SubSeq(pkt_buf, 1, n_bytes_received),
      n_bytes_received, set_mode_bytes_remaining, bufq, gdrom_irq, gdapro_reg,
      dma_start_addr_reg, dma_len_reg, dma_en_reg, dma_start_reg, gdlend_reg,
      dma_writes, mounted, fault>>
=============================================================================
