----------------------------- MODULE GdromDrive -----------------------------
(***************************************************************************)
(* The GD-ROM drive of src/src/hw/gdrom/gdrom_reg.c as seen through its   *)
(* ATA registers (0x5f7018-0x5f709c) and its G1 DMA registers (GDAPRO,    *)
(* GDSTAR, GDLEN, GDEN, GDST, GDLEND).  Every guest register access that  *)
(* changes drive state is one action; an action is the whole handler,     *)
(* including the packet handler a data write may end in.                 *)
(*                                                                         *)
(* Data abstraction: the status and interrupt-reason registers are the    *)
(* sets of their flags the code touches; queue nodes carry which response *)
(* they hold instead of bytes; sizes (sector, IDENTIFY string, ...) are   *)
(* CONSTANTS so a model can scale them down; 32-bit unsigned arithmetic   *)
(* is done modulo UIntMod, the model's stand-in for 2^32.                 *)
(***************************************************************************)
EXTENDS Integers, Sequences, Bitwise, GdromBufq, GdromTransMode

CONSTANTS
    Commands,       \* values the guest writes to the command register
    Packets,        \* 12-byte packets the guest sends after GDROM_CMD_PKT
    ReadLens,       \* lengths of guest reads of the data register
    FeatVals,       \* values written to the features register
    SectCntVals,    \* values written to the sector count register
    DevCtrlVals,    \* values written to the device control register
    ByteCountVals,  \* values written to byte count low/high
    DiscFads,       \* FADs mount_read_sectors can read from the mounted disc
    SectorLen,      \* CDROM_FRAME_DATA_SIZE (2048)
    IdentLen,       \* length of gdrom_ident_str (80)
    ModeInfoLen,    \* length of the REQ_MODE info block (32)
    ReqErrLen,      \* length of the REQ_ERROR response (10)
    TocSize,        \* CDROM_TOC_SIZE
    Pkt71Len,       \* PKT_71_RESP_LEN (960)
    UIntMod,        \* 2^32, scaled: the modulus of unsigned arithmetic
    StarMod,        \* UIntMod / 8: GDSTAR keeps the low 29 bits
    ProtBase,       \* 0x08000000, scaled
    ProtUnit,       \* 1 << 20, scaled: granularity of the GDAPRO fields
    GdaproVals,     \* [key, low] values written to GDAPRO
    GdstarVals, GdlenVals, GdenVals, GdstVals,
    AccessErrors    \* dispatch errors the guest may cause: "unmapped", "oversize"

ASSUME /\ 128 * ProtUnit <= ProtBase       \* the OR in prot_top/bot is a sum
       /\ StarMod * 8 = UIntMod
       /\ ModeInfoLen >= 1

VARIABLES
    stat_reg,            \* status flags: BSY, DRDY, DRQ, CHECK
    feat_reg, sect_cnt_reg, dev_ctrl_reg, data_byte_count,
    int_reason_reg,      \* interrupt reason flags: COD, IO
    sect_cnt_slot,       \* gdrom_regs[] word written by the sector count write
    sense_key,           \* error_reg.sense_key (the other error bits stay 0)
    additional_sense,
    trans_mode_vals,
    state,               \* enum gdrom_state
    pkt_buf, n_bytes_received, set_mode_bytes_remaining,
    bufq,
    gdrom_irq,           \* HOLLY_EXT_INT_GDROM pending in the holly intc
    gdapro_reg, dma_start_addr_reg, dma_len_reg, dma_en_reg, dma_start_reg,
    gdlend_reg,
    dma_writes,          \* sh4_dmac_transfer_to_mem calls of the last DMA
    mounted,             \* mount_check(); fixed for a run
    fault                \* RAISE_ERROR / PENDING_ERROR outcome, or "none"

vars == <<stat_reg, feat_reg, sect_cnt_reg, dev_ctrl_reg, data_byte_count,
          int_reason_reg, sect_cnt_slot, sense_key, additional_sense,
          trans_mode_vals, state, pkt_buf, n_bytes_received,
          set_mode_bytes_remaining, bufq, gdrom_irq, gdapro_reg,
          dma_start_addr_reg, dma_len_reg, dma_en_reg, dma_start_reg,
          gdlend_reg, dma_writes, mounted, fault>>

dmaVars == <<gdapro_reg, dma_start_addr_reg, dma_len_reg, dma_en_reg,
             dma_start_reg, gdlend_reg, dma_writes>>

-----------------------------------------------------------------------------
(* Codes of the source.                                                    *)

GDROM_CMD_PKT == 160
GDROM_CMD_IDENTIFY == 161
GDROM_CMD_SET_FEAT == 239
GDROM_PKT_TEST_UNIT == 0
GDROM_PKT_REQ_STAT == 16
GDROM_PKT_REQ_MODE == 17
GDROM_PKT_SET_MODE == 18
GDROM_PKT_REQ_ERROR == 19
GDROM_PKT_READ_TOC == 20
GDROM_PKT_READ == 48
GDROM_PKT_START_DISK == 112
GDROM_PKT_UNKNOWN_71 == 113
SENSE_KEY_NONE == 0
SENSE_KEY_NOT_READY == 2
SENSE_KEY_ILLEGAL_REQ == 5
ADDITIONAL_SENSE_NO_ERROR == 0
ADDITIONAL_SENSE_NO_DISC == 58
PKT_LEN == 12

States == {"NORM", "INPUT_PKT", "SET_MODE"}

\* !(dev_ctrl_reg & DEV_CTRL_NIEN_MASK): interrupts are enabled.
IntEnabled == (dev_ctrl_reg & 2) = 0

\* holly_raise_ext_int(HOLLY_EXT_INT_GDROM) guarded by the NIEN test.
RaiseIrq(irq) == irq \/ IntEnabled

\* feat_reg & FEAT_REG_DMA_MASK
DmaSelected == (feat_reg & 1) = 1

\* mount_read_sectors(dat, fad, 1) >= 0 (mount.c, outside src/).
Readable(fad) == mounted /\ fad \in DiscFads

\* gdrom_dma_prot_top / gdrom_dma_prot_bot
gdrom_dma_prot_top(g) == ProtBase + shiftR(g.low & 32512, 8) * ProtUnit
gdrom_dma_prot_bot(g) == ProtBase + (g.low & 127) * ProtUnit + (ProtUnit - 1)

\* gdrom_input_packet leaves these to the packet handler it calls.
pktVars == <<stat_reg, int_reason_reg, sense_key, additional_sense, state,
             set_mode_bytes_remaining, bufq, data_byte_count, gdrom_irq,
             fault>>

\* RAISE_ERROR(ERROR_UNIMPLEMENTED) after the status and irq updates st, irq.
RaiseUnimplemented(st, irq) ==
    /\ fault' = "unimplemented"
    /\ stat_reg' = st
    /\ gdrom_irq' = irq
    /\ UNCHANGED <<int_reason_reg, sense_key, additional_sense, state,
                   set_mode_bytes_remaining, bufq, data_byte_count>>

\* "Data in" phase announced by most packet handlers: IO set, COD clear.
DataInReason == (int_reason_reg \cup {"IO"}) \ {"COD"}

-----------------------------------------------------------------------------
(* Packet handlers.  st and irq are the status flags and interrupt line as *)
(* gdrom_input_packet left them (DRQ and BSY cleared, irq raised unless   *)
(* NIEN); pkt is the packet, pkt[i + 1] being pkt_buf[i] of the code.      *)

\* Mutant: no disc sets CHECK but leaves the sense key cleared.
TestUnitNoSense(st, irq) ==
    /\ int_reason_reg' = int_reason_reg \cup {"COD", "IO"}
    /\ state' = "NORM"
    /\ gdrom_irq' = irq
    /\ stat_reg' = IF mounted THEN (st \cup {"DRDY"}) \ {"BSY", "DRQ", "CHECK"}
                   ELSE ((st \cup {"DRDY"}) \ {"BSY", "DRQ"}) \cup {"CHECK"}
    /\ sense_key' = SENSE_KEY_NONE
    /\ additional_sense' = IF mounted THEN additional_sense
                           ELSE ADDITIONAL_SENSE_NO_DISC
    /\ UNCHANGED <<set_mode_bytes_remaining, bufq, data_byte_count, fault>>

gdrom_input_test_unit_packet(st, irq) ==
    /\ int_reason_reg' = int_reason_reg \cup {"COD", "IO"}
    /\ state' = "NORM"
    /\ gdrom_irq' = irq
    /\ IF mounted
       THEN /\ stat_reg' = (st \cup {"DRDY"}) \ {"BSY", "DRQ", "CHECK"}
            /\ sense_key' = SENSE_KEY_NONE
            /\ UNCHANGED additional_sense
       ELSE /\ stat_reg' = ((st \cup {"DRDY"}) \ {"BSY", "DRQ"}) \cup {"CHECK"}
            /\ sense_key' = SENSE_KEY_NOT_READY
            /\ additional_sense' = ADDITIONAL_SENSE_NO_DISC
    /\ UNCHANGED <<set_mode_bytes_remaining, bufq, data_byte_count, fault>>

\* REQ_STAT only returns the drive to NORM.
gdrom_input_req_stat_packet(st, irq) ==
    /\ state' = "NORM"
    /\ stat_reg' = st
    /\ gdrom_irq' = irq
    /\ UNCHANGED <<int_reason_reg, sense_key, additional_sense,
                   set_mode_bytes_remaining, bufq, data_byte_count, fault>>

\* Mutant: the error report is queued behind what the queue still holds.
ReqErrorNoClear(pkt, st, irq) ==
    LET len == IF pkt[5] > ReqErrLen THEN ReqErrLen ELSE pkt[5]
    IN /\ bufq' = IF len /= 0 THEN Append(bufq, Node("REQ_ERROR", 0, len))
                  ELSE bufq
       /\ data_byte_count' = IF len /= 0 THEN len ELSE data_byte_count
       /\ int_reason_reg' = DataInReason
       /\ stat_reg' = st \cup {"DRQ"}
       /\ gdrom_irq' = RaiseIrq(irq)
       /\ state' = "NORM"
       /\ UNCHANGED <<sense_key, additional_sense, set_mode_bytes_remaining,
                      fault>>

gdrom_input_req_error_packet(pkt, st, irq) ==
    LET len == IF pkt[5] > ReqErrLen THEN ReqErrLen ELSE pkt[5]
    IN /\ bufq' = IF len /= 0
                  THEN Append(BufqClear(bufq), Node("REQ_ERROR", 0, len))
                  ELSE BufqClear(bufq)
       /\ data_byte_count' = IF len /= 0 THEN len ELSE data_byte_count
       /\ int_reason_reg' = DataInReason
       /\ stat_reg' = st \cup {"DRQ"}
       /\ gdrom_irq' = RaiseIrq(irq)
       /\ state' = "NORM"
       /\ UNCHANGED <<sense_key, additional_sense, set_mode_bytes_remaining,
                      fault>>

gdrom_input_start_disk_packet(st, irq) ==
    /\ int_reason_reg' = int_reason_reg \cup {"COD", "IO"}
    /\ stat_reg' = (st \cup {"DRDY"}) \ {"BSY", "DRQ", "CHECK"}
    /\ gdrom_irq' = irq
    /\ state' = "NORM"
    /\ sense_key' = SENSE_KEY_NONE
    /\ UNCHANGED <<additional_sense, set_mode_bytes_remaining, bufq,
                   data_byte_count, fault>>

\* The common tail of REQ_MODE, READ_TOC and packet 0x71: a one-node
\* response queued, data-in announced, CHECK and the error register cleared.
RespondWith(q, dbc, st, irq) ==
    /\ bufq' = q
    /\ data_byte_count' = dbc
    /\ int_reason_reg' = DataInReason
    /\ stat_reg' = (st \cup {"DRQ"}) \ {"CHECK"}
    /\ gdrom_irq' = RaiseIrq(irq)
    /\ state' = "NORM"
    /\ sense_key' = SENSE_KEY_NONE
    /\ UNCHANGED <<additional_sense, set_mode_bytes_remaining, fault>>

gdrom_input_packet_71(st, irq) ==
    RespondWith(Append(BufqClear(bufq), Node("PKT_71", 0, Pkt71Len)),
                Pkt71Len, st, irq)

\* SET_MODE: never enters GDROM_STATE_SET_MODE; state stays INPUT_PKT.
gdrom_input_set_mode_packet(st, irq) ==
    /\ set_mode_bytes_remaining' = data_byte_count
    /\ IF DmaSelected
       THEN /\ fault' = "unimplemented"
            /\ UNCHANGED int_reason_reg
            /\ stat_reg' = st
       ELSE /\ int_reason_reg' = DataInReason
            /\ stat_reg' = st \cup {"DRQ"}
            /\ UNCHANGED fault
    /\ gdrom_irq' = irq
    /\ UNCHANGED <<sense_key, additional_sense, state, bufq, data_byte_count>>

gdrom_input_req_mode_packet(pkt, st, irq) ==
    LET starting_addr == pkt[3]
        len == pkt[5]
        last == ModeInfoLen - 1
        first_idx == IF starting_addr > last THEN last ELSE starting_addr
        last_idx == IF starting_addr + (len - 1) > last
                    THEN last ELSE starting_addr + (len - 1)
        node == Node("REQ_MODE", first_idx, last_idx - first_idx + 1)
    IN IF len /= 0
       THEN RespondWith(Append(BufqClear(bufq), node), node.len, st, irq)
       ELSE RespondWith(BufqClear(bufq), data_byte_count, st, irq)

\* Mutant: the TOC is queued without bufq_clear.
ReadTocNoClear(pkt, st, irq) ==
    LET len == pkt[4] * 256 + pkt[5]
        qlen == IF len > TocSize THEN TocSize ELSE len
    IN RespondWith(Append(bufq, Node("TOC", 0, qlen)), qlen, st, irq)

gdrom_input_read_toc_packet(pkt, st, irq) ==
    LET len == pkt[4] * 256 + pkt[5]
        qlen == IF len > TocSize THEN TocSize ELSE len
    IN RespondWith(Append(BufqClear(bufq), Node("TOC", 0, qlen)),
                   qlen, st, irq)
\* The sector loop of gdrom_input_read_packet: trans_len nodes, each filled
\* by mount_read_sectors(node->dat, start_addr, 1).  start_addr is never
\* advanced, as in the code.  Stops at the first failing read.
RECURSIVE ReadSectors(_, _, _)
ReadSectors(q, start_addr, trans_len) ==
    IF trans_len = 0 THEN [q |-> q, ok |-> TRUE]
    ELSE IF ~Readable(start_addr) THEN [q |-> q, ok |-> FALSE]
    ELSE ReadSectors(Append(q, Node("SECTOR", start_addr, SectorLen)),
                     start_addr, trans_len - 1)

gdrom_input_read_packet(pkt, st, irq) ==
    LET start_addr == pkt[3] * 65536 + pkt[4] * 256 + pkt[5]
        trans_len == pkt[9] * 65536 + pkt[10] * 256 + pkt[11]
        data_sel == shiftR(pkt[2], 4)
        param_tp == pkt[2] & 1
        r == ReadSectors(BufqClear(bufq), start_addr, trans_len)
    IN IF data_sel /= 2 \/ param_tp /= 0
       THEN RaiseUnimplemented(st, irq)
       ELSE
       /\ bufq' = r.q
       /\ data_byte_count' = (SectorLen * trans_len) % UIntMod
       /\ CASE ~r.ok ->
                 /\ sense_key' = SENSE_KEY_ILLEGAL_REQ
                 /\ stat_reg' = st \cup {"CHECK"}
                 /\ state' = "NORM"
                 /\ gdrom_irq' = irq
                 /\ UNCHANGED int_reason_reg
            [] r.ok /\ DmaSelected ->
                 \* wait for GDST: state stays INPUT_PKT, no interrupt
                 /\ stat_reg' = st
                 /\ gdrom_irq' = irq
                 /\ UNCHANGED <<sense_key, state, int_reason_reg>>
            [] OTHER ->
                 /\ int_reason_reg' = DataInReason
                 /\ stat_reg' = (st \cup {"DRQ"}) \ {"CHECK"}
                 /\ gdrom_irq' = RaiseIrq(irq)
                 /\ state' = "NORM"
                 /\ sense_key' = SENSE_KEY_NONE
       /\ UNCHANGED <<additional_sense, set_mode_bytes_remaining, fault>>

\* gdrom_input_packet: clear DRQ and BSY, raise the interrupt, dispatch on
\* the opcode pkt_buf[0].
gdrom_input_packet(pkt) ==
    LET st == stat_reg \ {"DRQ", "BSY"}
        irq == RaiseIrq(gdrom_irq)
        op == pkt[1]
    IN CASE op = GDROM_PKT_TEST_UNIT  -> gdrom_input_test_unit_packet(st, irq)
         [] op = GDROM_PKT_REQ_STAT   -> gdrom_input_req_stat_packet(st, irq)
         [] op = GDROM_PKT_REQ_MODE   -> gdrom_input_req_mode_packet(pkt, st, irq)
         [] op = GDROM_PKT_SET_MODE   -> gdrom_input_set_mode_packet(st, irq)
         [] op = GDROM_PKT_REQ_ERROR  -> gdrom_input_req_error_packet(pkt, st, irq)
         [] op = GDROM_PKT_START_DISK -> gdrom_input_start_disk_packet(st, irq)
         [] op = GDROM_PKT_READ_TOC   -> gdrom_input_read_toc_packet(pkt, st, irq)
         [] op = GDROM_PKT_READ       -> gdrom_input_read_packet(pkt, st, irq)
         [] op = GDROM_PKT_UNKNOWN_71 -> gdrom_input_packet_71(st, irq)
         [] OTHER                     -> RaiseUnimplemented(st, irq)

-----------------------------------------------------------------------------
(* ATA commands.                                                           *)

gdrom_cmd_begin_packet ==
    /\ stat_reg' = (stat_reg \ {"CHECK"}) \cup {"DRQ"}
    /\ int_reason_reg' = (int_reason_reg \ {"IO"}) \cup {"COD"}
    /\ n_bytes_received' = 0
    /\ state' = "INPUT_PKT"
    /\ UNCHANGED <<gdrom_irq, sense_key, bufq, data_byte_count, trans_mode_vals>>

\* SET_FEATURES, then the COD update and interrupt of the command handler.
gdrom_cmd_set_features ==
    LET m == TransModeOf(sect_cnt_reg)
    IN /\ IF (feat_reg & 127) = 3
          THEN /\ trans_mode_vals' =
                      IF m.mode = "NONE" THEN trans_mode_vals
                      ELSE [trans_mode_vals EXCEPT ![m.mode] = m.val]
               /\ stat_reg' = stat_reg \ {"CHECK"}
               /\ sense_key' = SENSE_KEY_NONE
          ELSE UNCHANGED <<trans_mode_vals, stat_reg, sense_key>>
       /\ int_reason_reg' = int_reason_reg \cup {"COD"}
       /\ gdrom_irq' = RaiseIrq(gdrom_irq)
       /\ UNCHANGED <<n_bytes_received, state, bufq, data_byte_count>>

gdrom_cmd_identify ==
    /\ state' = "NORM"
    /\ stat_reg' = (stat_reg \ {"BSY", "CHECK"}) \cup {"DRQ"}
    /\ gdrom_irq' = RaiseIrq(gdrom_irq)
    /\ bufq' = Append(BufqClear(bufq), Node("IDENTIFY", 0, IdentLen))
    /\ data_byte_count' = IdentLen
    /\ sense_key' = SENSE_KEY_NONE
    /\ UNCHANGED <<int_reason_reg, n_bytes_received, trans_mode_vals>>

gdrom_cmd_reg_write_handler(cmd) ==
    /\ CASE cmd = GDROM_CMD_PKT      -> gdrom_cmd_begin_packet /\ UNCHANGED fault
         [] cmd = GDROM_CMD_SET_FEAT -> gdrom_cmd_set_features /\ UNCHANGED fault
         [] cmd = GDROM_CMD_IDENTIFY -> gdrom_cmd_identify /\ UNCHANGED fault
         [] OTHER -> /\ fault' = "unimplemented"
                     /\ UNCHANGED <<stat_reg, int_reason_reg, n_bytes_received,
                                    state, gdrom_irq, sense_key, bufq,
                                    data_byte_count, trans_mode_vals>>
    /\ UNCHANGED <<feat_reg, sect_cnt_reg, dev_ctrl_reg, sect_cnt_slot,
                   additional_sense, pkt_buf, set_mode_bytes_remaining,
                   dmaVars, mounted>>
-----------------------------------------------------------------------------
(* Data register.                                                          *)

\* Mutant: the packet is taken one word late (> instead of >=).
PacketCompleteLate(n) == n > PKT_LEN

\* n_bytes_received >= 12: the whole packet is in.
PacketComplete(n) == n >= PKT_LEN

\* The guest writes two bytes (dat & 0xff, dat >> 8) per access.  In
\* GDROM_STATE_NORM the handler changes nothing, so only the other two
\* states are enabling.
gdrom_data_reg_write_handler(dat) ==
    /\ state \in {"INPUT_PKT", "SET_MODE"}
    /\ IF state = "INPUT_PKT"
       THEN LET n == n_bytes_received
                buf == [pkt_buf EXCEPT ![n + 1] = dat[1], ![n + 2] = dat[2]]
            IN /\ pkt_buf' = buf
               /\ IF PacketComplete(n + 2)
                  THEN n_bytes_received' = 0 /\ gdrom_input_packet(buf)
                  ELSE n_bytes_received' = n + 2 /\ UNCHANGED pktVars
       ELSE LET left == set_mode_bytes_remaining - Len(dat)
            IN /\ set_mode_bytes_remaining' = left
               /\ IF left <= 0
                  THEN /\ stat_reg' = stat_reg \ {"DRQ"}
                       /\ state' = "NORM"
                       /\ gdrom_irq' = RaiseIrq(gdrom_irq)
                  ELSE UNCHANGED <<stat_reg, state, gdrom_irq>>
               /\ UNCHANGED <<pkt_buf, n_bytes_received, int_reason_reg,
                              sense_key, additional_sense, bufq,
                              data_byte_count, fault>>
    /\ UNCHANGED <<feat_reg, sect_cnt_reg, dev_ctrl_reg, sect_cnt_slot,
                   trans_mode_vals, dmaVars, mounted>>

\* Mutant: the last byte read leaves DRQ set.
DataReadKeepsDrq(len) ==
    LET q == BufqConsume(bufq, len)
    IN /\ bufq' = q
       /\ IF q = <<>>
          THEN /\ stat_reg' = (stat_reg \ {"BSY"}) \cup {"DRDY"}
               /\ gdrom_irq' = RaiseIrq(gdrom_irq)
          ELSE UNCHANGED <<stat_reg, gdrom_irq>>
       /\ UNCHANGED <<feat_reg, sect_cnt_reg, dev_ctrl_reg, data_byte_count,
                      int_reason_reg, sect_cnt_slot, sense_key,
                      additional_sense, trans_mode_vals, state, pkt_buf,
                      n_bytes_received, set_mode_bytes_remaining, dmaVars,
                      mounted, fault>>

\* A read of len bytes; once the queue is empty (even if it already was),
\* the transfer is reported complete.
gdrom_data_reg_read_handler(len) ==
    LET q == BufqConsume(bufq, len)
    IN /\ bufq' = q
       /\ IF q = <<>>
          THEN /\ stat_reg' = (stat_reg \ {"DRQ", "BSY"}) \cup {"DRDY"}
               /\ gdrom_irq' = RaiseIrq(gdrom_irq)
          ELSE UNCHANGED <<stat_reg, gdrom_irq>>
       /\ UNCHANGED <<feat_reg, sect_cnt_reg, dev_ctrl_reg, data_byte_count,
                      int_reason_reg, sect_cnt_slot, sense_key,
                      additional_sense, trans_mode_vals, state, pkt_buf,
                      n_bytes_received, set_mode_bytes_remaining, dmaVars,
                      mounted, fault>>

-----------------------------------------------------------------------------
(* The other ATA registers.                                                *)

\* Every write below changes one register and nothing else.
regVars == <<stat_reg, feat_reg, sect_cnt_reg, dev_ctrl_reg, data_byte_count,
             int_reason_reg, sect_cnt_slot, sense_key, additional_sense,
             trans_mode_vals, state, pkt_buf, n_bytes_received,
             set_mode_bytes_remaining, bufq, gdrom_irq, mounted, fault>>

\* Reading the status register acknowledges the interrupt.
gdrom_status_read_handler ==
    /\ gdrom_irq' = FALSE
    /\ UNCHANGED <<stat_reg, feat_reg, sect_cnt_reg, dev_ctrl_reg,
                   data_byte_count, int_reason_reg, sect_cnt_slot, sense_key,
                   additional_sense, trans_mode_vals, state, pkt_buf,
                   n_bytes_received, set_mode_bytes_remaining, bufq, dmaVars,
                   mounted, fault>>

gdrom_features_reg_write_handler(v) ==
    /\ feat_reg' = v
    /\ UNCHANGED <<stat_reg, sect_cnt_reg, dev_ctrl_reg, data_byte_count,
                   int_reason_reg, sect_cnt_slot, sense_key, additional_sense,
                   trans_mode_vals, state, pkt_buf, n_bytes_received,
                   set_mode_bytes_remaining, bufq, gdrom_irq, dmaVars,
                   mounted, fault>>

\* The sector count address is wired to warn_gdrom_reg_write_handler, which
\* stores into gdrom_regs[]; sect_cnt_reg is left as it was.
warn_gdrom_reg_write_handler(v) ==
    /\ sect_cnt_slot' = v
    /\ UNCHANGED <<stat_reg, feat_reg, sect_cnt_reg, dev_ctrl_reg,
                   data_byte_count, int_reason_reg, sense_key,
                   additional_sense, trans_mode_vals, state, pkt_buf,
                   n_bytes_received, set_mode_bytes_remaining, bufq, gdrom_irq,
                   dmaVars, mounted, fault>>

gdrom_dev_ctrl_reg_write_handler(v) ==
    /\ dev_ctrl_reg' = v
    /\ UNCHANGED <<stat_reg, feat_reg, sect_cnt_reg, data_byte_count,
                   int_reason_reg, sect_cnt_slot, sense_key, additional_sense,
                   trans_mode_vals, state, pkt_buf, n_bytes_received,
                   set_mode_bytes_remaining, bufq, gdrom_irq, dmaVars,
                   mounted, fault>>

gdrom_byte_count_low_reg_write_handler(v) ==
    /\ data_byte_count' = data_byte_count - (data_byte_count % 256) + (v % 256)
    /\ UNCHANGED <<stat_reg, feat_reg, sect_cnt_reg, dev_ctrl_reg,
                   int_reason_reg, sect_cnt_slot, sense_key, additional_sense,
                   trans_mode_vals, state, pkt_buf, n_bytes_received,
                   set_mode_bytes_remaining, bufq, gdrom_irq, dmaVars,
                   mounted, fault>>

gdrom_byte_count_high_reg_write_handler(v) ==
    /\ data_byte_count' = data_byte_count
                          - ((data_byte_count \div 256) % 256) * 256
                          + (v % 256) * 256
    /\ UNCHANGED <<stat_reg, feat_reg, sect_cnt_reg, dev_ctrl_reg,
                   int_reason_reg, sect_cnt_slot, sense_key, additional_sense,
                   trans_mode_vals, state, pkt_buf, n_bytes_received,
                   set_mode_bytes_remaining, bufq, gdrom_irq, dmaVars,
                   mounted, fault>>
-----------------------------------------------------------------------------
(* G1 DMA registers.                                                       *)

\* Writes are accepted only with the security code 0x8843 in the top half.
gdrom_gdapro_reg_write_handler(v) ==
    /\ IF v.key = 34883 THEN gdapro_reg' = v ELSE UNCHANGED gdapro_reg
    /\ UNCHANGED <<regVars, dma_start_addr_reg, dma_len_reg, dma_en_reg,
                   dma_start_reg, gdlend_reg, dma_writes>>

\* dma_start_addr_reg &= ~0xe0000000
gdrom_gdstar_reg_write_handler(v) ==
    /\ dma_start_addr_reg' = v % StarMod
    /\ UNCHANGED <<regVars, gdapro_reg, dma_len_reg, dma_en_reg,
                   dma_start_reg, gdlend_reg, dma_writes>>

gdrom_gdlen_reg_write_handler(v) ==
    /\ dma_len_reg' = v
    /\ UNCHANGED <<regVars, gdapro_reg, dma_start_addr_reg, dma_en_reg,
                   dma_start_reg, gdlend_reg, dma_writes>>

gdrom_gden_reg_write_handler(v) ==
    /\ dma_en_reg' = v
    /\ UNCHANGED <<regVars, gdapro_reg, dma_start_addr_reg, dma_len_reg,
                   dma_start_reg, gdlend_reg, dma_writes>>

\* Mutant: the node is sent whole, past GDLEN.
DmaChunkUnclamped(node, sent) == node.len

\* A node's chunk: node->len, cut to what is left of GDLEN.
DmaChunk(node, sent) ==
    IF (node.len + sent) % UIntMod > dma_len_reg
    THEN dma_len_reg - sent ELSE node.len

(***************************************************************************)
(* The loop of gdrom_complete_dma: pop a node, clamp its length (node->len,*)
(* whatever its idx) to what is left of GDLEN, count it, then trim it to  *)
(* the GDAPRO window and hand it to sh4_dmac_transfer_to_mem, recorded in *)
(* writes as [addr, size, node, dst, off]: dst is where the node's chunk  *)
(* was meant to go, off the offset in node->dat the copy starts from      *)
(* (always 0: the code passes bufq_node->dat).  All arithmetic is         *)
(* unsigned.                                                               *)
(***************************************************************************)
RECURSIVE gdrom_complete_dma_loop(_, _, _, _)
gdrom_complete_dma_loop(q, sent, addr, writes) ==
    IF ~(sent < dma_len_reg) \/ q = <<>>
    THEN [q |-> q, sent |-> sent, writes |-> writes]
    ELSE
    LET top == gdrom_dma_prot_top(gdapro_reg)
        bot == gdrom_dma_prot_bot(gdapro_reg)
        node == Head(q)
        chunk0 == DmaChunk(node, sent)
        sent1 == (sent + chunk0) % UIntMod
        below == addr < top
        chunk1 == IF below THEN (chunk0 - (top - addr)) % UIntMod ELSE chunk0
        addr1 == IF below THEN top ELSE addr
        chunk2 == IF (addr1 + chunk1 - 1) % UIntMod > bot
                  THEN (bot - addr1 + 1) % UIntMod ELSE chunk1
    IN IF below /\ (chunk0 + addr) % UIntMod < top
       THEN gdrom_complete_dma_loop(Tail(q), sent1,
                                    (addr + chunk0) % UIntMod, writes)
       ELSE gdrom_complete_dma_loop(Tail(q), sent1,
                                    (addr1 + chunk2) % UIntMod,
                                    Append(writes, [addr |-> addr1,
                                                    size |-> chunk2,
                                                    node |-> node,
                                                    dst |-> addr,
                                                    off |-> 0]))

\* GDST write: a nonzero value runs the whole DMA; any value then raises
\* the interrupt, returns to NORM and clears CHECK and the error register.
gdrom_gdst_reg_write_handler(v) ==
    LET r == gdrom_complete_dma_loop(bufq, 0, dma_start_addr_reg, <<>>)
        st == IF v /= 0 THEN (stat_reg \cup {"DRDY"}) \ {"DRQ"} ELSE stat_reg
    IN /\ IF v /= 0
          THEN /\ int_reason_reg' = int_reason_reg \cup {"IO", "COD"}
               /\ bufq' = r.q
               /\ gdlend_reg' = r.sent
               /\ dma_writes' = r.writes
          ELSE UNCHANGED <<int_reason_reg, bufq, gdlend_reg, dma_writes>>
       /\ dma_start_reg' = 0
       /\ gdrom_irq' = RaiseIrq(gdrom_irq)
       /\ state' = "NORM"
       /\ stat_reg' = st \ {"CHECK"}
       /\ sense_key' = SENSE_KEY_NONE
       /\ UNCHANGED <<feat_reg, sect_cnt_reg, dev_ctrl_reg, data_byte_count,
                      sect_cnt_slot, additional_sense, trans_mode_vals,
                      pkt_buf, n_bytes_received, set_mode_bytes_remaining,
                      mounted, fault, gdapro_reg, dma_start_addr_reg,
                      dma_len_reg, dma_en_reg>>

-----------------------------------------------------------------------------
(* Register dispatch errors: gdrom_reg_read/gdrom_reg_write on an address  *)
(* not in gdrom_reg_info (RAISE_ERROR) or with a length above the          *)
(* register's (PENDING_ERROR, MEM_ACCESS_FAILURE).  Both end emulation.    *)

gdrom_reg_access_error(kind) ==
    /\ fault' = kind
    /\ UNCHANGED <<stat_reg, feat_reg, sect_cnt_reg, dev_ctrl_reg,
                   data_byte_count, int_reason_reg, sect_cnt_slot, sense_key,
                   additional_sense, trans_mode_vals, state, pkt_buf,
                   n_bytes_received, set_mode_bytes_remaining, bufq,
                   gdrom_irq, dmaVars, mounted>>

-----------------------------------------------------------------------------
(* The specification.  The guest may access any register at any time;    *)
(* packet bytes follow one of Packets.                                     *)

\* The next two bytes of some packet in Packets that agrees with the bytes
\* received so far.
PacketWords ==
    LET n == n_bytes_received
    IN {SubSeq(p, n + 1, n + 2) :
            p \in {p \in Packets : SubSeq(p, 1, n) = SubSeq(pkt_buf, 1, n)}}

\* Words the guest writes to the data register in the current state.
GuestWords == IF state = "INPUT_PKT" THEN PacketWords ELSE {<<0, 0>>}

Init ==
    /\ stat_reg = {}
    /\ feat_reg = 0
    /\ sect_cnt_reg = 0
    /\ dev_ctrl_reg = 0
    /\ data_byte_count = 0
    /\ int_reason_reg = {}
    /\ sect_cnt_slot = 0
    /\ sense_key = SENSE_KEY_NONE
    /\ additional_sense = ADDITIONAL_SENSE_NO_ERROR
    /\ trans_mode_vals = [m \in TransModes |-> 0]
    /\ state = "NORM"
    /\ pkt_buf = [i \in 1..PKT_LEN |-> 0]
    /\ n_bytes_received = 0
    /\ set_mode_bytes_remaining = 0
    /\ bufq = <<>>
    /\ gdrom_irq = FALSE
    /\ gdapro_reg = [key |-> 0, low |-> 32512]     \* GDROM_GDAPRO_DEFAULT
    /\ dma_start_addr_reg = 0
    /\ dma_len_reg = 0
    /\ dma_en_reg = 0
    /\ dma_start_reg = 0
    /\ gdlend_reg = 0
    /\ dma_writes = <<>>
    /\ mounted \in BOOLEAN
    /\ fault = "none"

Next ==
    /\ fault = "none"
    /\ \/ \E c \in Commands : gdrom_cmd_reg_write_handler(c)
       \/ \E w \in GuestWords : gdrom_data_reg_write_handler(w)
       \/ \E n \in ReadLens : gdrom_data_reg_read_handler(n)
       \/ gdrom_status_read_handler
       \/ \E v \in FeatVals : gdrom_features_reg_write_handler(v)
       \/ \E v \in SectCntVals : warn_gdrom_reg_write_handler(v)
       \/ \E v \in DevCtrlVals : gdrom_dev_ctrl_reg_write_handler(v)
       \/ \E v \in ByteCountVals : gdrom_byte_count_low_reg_write_handler(v)
       \/ \E v \in ByteCountVals : gdrom_byte_count_high_reg_write_handler(v)
       \/ \E v \in GdaproVals : gdrom_gdapro_reg_write_handler(v)
       \/ \E v \in GdstarVals : gdrom_gdstar_reg_write_handler(v)
       \/ \E v \in GdlenVals : gdrom_gdlen_reg_write_handler(v)
       \/ \E v \in GdenVals : gdrom_gden_reg_write_handler(v)
       \/ \E v \in GdstVals : gdrom_gdst_reg_write_handler(v)
       \/ \E k \in AccessErrors : gdrom_reg_access_error(k)

Spec == Init /\ [][Next]_vars
-----------------------------------------------------------------------------
(* Properties.                                                             *)

Byte == 0..255
NodeKinds == {"IDENTIFY", "REQ_MODE", "REQ_ERROR", "TOC", "SECTOR", "PKT_71"}
QueueNode == [kind : NodeKinds, src : Nat, len : Nat, idx : Nat]

TypeOK ==
    /\ stat_reg \subseteq {"BSY", "DRDY", "DRQ", "CHECK"}
    /\ int_reason_reg \subseteq {"COD", "IO"}
    /\ feat_reg \in FeatVals \cup {0}
    /\ sect_cnt_reg = 0
    /\ dev_ctrl_reg \in DevCtrlVals \cup {0}
    /\ data_byte_count \in 0..(UIntMod - 1)
    /\ sense_key \in {SENSE_KEY_NONE, SENSE_KEY_NOT_READY, SENSE_KEY_ILLEGAL_REQ}
    /\ additional_sense \in {ADDITIONAL_SENSE_NO_ERROR, ADDITIONAL_SENSE_NO_DISC}
    /\ trans_mode_vals \in [TransModes -> Nat]
    /\ state \in States
    /\ pkt_buf \in [1..PKT_LEN -> Byte]
    /\ n_bytes_received \in {0, 2, 4, 6, 8, 10}
    /\ set_mode_bytes_remaining \in Int
    /\ bufq \in Seq(QueueNode)
    /\ gdrom_irq \in BOOLEAN
    /\ dma_start_addr_reg \in 0..(StarMod - 1)
    /\ gdlend_reg \in 0..(UIntMod - 1)
    /\ dma_start_reg = 0
    /\ mounted \in BOOLEAN
    /\ fault \in {"none", "unimplemented"} \cup AccessErrors

\* Whenever the status register shows CHECK, the error register holds a
\* sense key, so the REQ_ERROR packet the guest sends in answer to CHECK
\* (gdrom_input_req_error_packet) reports why.  Spans TEST_UNIT and READ,
\* which set CHECK, and every handler that clears the error register.
CheckHasSense == "CHECK" \in stat_reg => sense_key /= SENSE_KEY_NONE

\* The buffer queue only ever holds the response to one command: nodes of
\* one kind, several only for a multi-sector READ, and only the head node
\* partly read.  Every handler that queues a response must bufq_clear first.
QueueHoldsOneResponse ==
    /\ \A i, j \in DOMAIN bufq : bufq[i].kind = bufq[j].kind
    /\ Len(bufq) > 1 => bufq[1].kind = "SECTOR"
    /\ \A i \in 2..Len(bufq) : bufq[i].idx = 0

(***************************************************************************)
(* The drive implements GdromStream: seen as the bytes BufqStream(bufq)   *)
(* the guest has still to read, every handler either leaves the queue     *)
(* alone, takes bytes from its front (data register reads through         *)
(* bufq_consume_byte, gdrom_complete_dma popping nodes), or replaces it by *)
(* one whole response (bufq_clear before the nodes of a packet handler).  *)
(* A response queued behind leftovers, a node read from its middle, or    *)
(* bytes handed out of order would not be a step of GdromStream.          *)
(***************************************************************************)
Stream == INSTANCE GdromStream WITH stream <- BufqStream(bufq)

StreamRefinement == Stream!Spec

\* A GDST write that starts a DMA never reports more than GDLEN bytes in
\* GDLEND, and stops short of GDLEN only by draining the whole queue
\* (gdrom_complete_dma).
DmaLengthAccounting ==
    [][dma_start_reg' = 0 /\ gdlend_reg' /= gdlend_reg =>
          /\ gdlend_reg' <= dma_len_reg
          /\ gdlend_reg' < dma_len_reg => bufq' = <<>>]_vars

\* While the drive collects packet bytes (GDROM_STATE_INPUT_PKT) it tells
\* the guest so: interrupt reason is "command" (COD), not a data phase.
\* The SET_MODE packet handler is meant to move the drive on to
\* GDROM_STATE_SET_MODE, "waiting for PIO input for the SET_MODE packet".
PacketPhaseAgreesWithIntReason ==
    state = "INPUT_PKT" => int_reason_reg \cap {"COD", "IO"} = {"COD"}

\* DRQ set outside packet input promises the guest a byte to read: the
\* head node of the queue still has one (idx < len), so a guest that polls
\* the status register and then reads the data register gets data, not
\* the 0 that bufq_consume_byte's failure leaves.  The comment on struct
\* gdrom_bufq_node says a node with idx == len "is empty and should be
\* removed".  Spans every packet handler that sets DRQ (REQ_ERROR,
\* REQ_MODE, READ_TOC, READ, IDENTIFY, packet 0x71) and the data register
\* read that must clear DRQ when it takes the last byte.
DrqPromisesData ==
    state = "NORM" /\ "DRQ" \in stat_reg =>
        bufq /= <<>> /\ Head(bufq).idx < Head(bufq).len

\* A READ of several sectors queues them in disc order: the i-th queued
\* sector is FAD start + i - 1 (gdrom_input_read_packet's sector loop).
ReadQueuesConsecutiveSectors ==
    \A i \in DOMAIN bufq :
        bufq[i].kind = "SECTOR" => bufq[i].src = bufq[1].src + (i - 1)

\* Every sh4_dmac_transfer_to_mem call of a GD-ROM DMA stays inside the
\* window GDAPRO allows (gdrom_dma_prot_top .. gdrom_dma_prot_bot), taking
\* addresses as the 32-bit bus sees them (no wrap-around).
DmaWithinWindow ==
    \A i \in DOMAIN dma_writes :
        LET w == dma_writes[i]
        IN w.size = 0 \/
           /\ gdrom_dma_prot_top(gdapro_reg) <= w.addr
           /\ w.addr + w.size - 1 <= gdrom_dma_prot_bot(gdapro_reg)

\* A DMA copies each byte to the guest address that corresponds to it in
\* the byte stream: a copy that starts k bytes past where its node was
\* meant to go (k bytes dropped below GDAPRO's top) starts k bytes into the
\* node's undelivered bytes, and bytes the guest already read through the
\* data register (the head node's idx) are not sent again.
DmaCopiesUndeliveredBytes ==
    \A i \in DOMAIN dma_writes :
        LET w == dma_writes[i]
        IN w.size > 0 => w.off = w.node.idx + (w.addr - w.dst)
=============================================================================
