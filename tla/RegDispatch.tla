---------------------------- MODULE RegDispatch -----------------------------
(***************************************************************************)
(* Three memory-mapped register banks and the table dispatch they share:  *)
(*                                                                         *)
(*  - the system block, src/src/hw/sys/sys_block.c (SB_* registers,       *)
(*    channel-2 DMA start);                                                *)
(*  - the G1 bus registers, src/src/hw/g1/g1_reg.cpp;                      *)
(*  - the earlier GD-ROM register stub, src/src/hw/gdrom/gdrom_reg.cpp     *)
(*    (the drive of gdrom_reg.c is modelled by GdromDrive).                *)
(*                                                                         *)
(* Each bank's read and write functions walk a table of {name, addr, len, *)
(* on_read, on_write} for the first entry with the address, check the     *)
(* access length against the entry's len, and call its handler.  The      *)
(* system block wants the length to be equal to len, the two C++ banks    *)
(* want it at most len.  An unmapped address or a refused length is an    *)
(* error: PENDING_ERROR and MEM_ACCESS_FAILURE in C, a thrown             *)
(* UnimplementedError in C++.  Either ends emulation, so error is final.  *)
(*                                                                         *)
(* A register word is a natural (Vals are below 2^32); a memcpy of n bytes into or   *)
(* out of it is modelled on its little-endian value.  The register files  *)
(* are kept per address: every table address is word-aligned and         *)
(* distinct, so the index each default handler computes is one per       *)
(* address.  The SB_IML and SB_IST registers go to holly_intc.c, which    *)
(* is not in the repository; they are declared but not accessed.          *)
(***************************************************************************)
EXTENDS Naturals

CONSTANTS
    SysAccess,     \* addresses in the system block range the guest uses
    G1Access,      \* addresses in the G1 range the guest uses
    GdromAccess,   \* addresses in the GD-ROM range the guest uses
    Lens,          \* access lengths in bytes
    Vals,          \* 32-bit values the guest writes
    MaxC2d         \* channel-2 DMA transfers started

VARIABLES
    sys_regs, reg_sb_c2dstat, reg_sb_c2dlen, c2d_starts,
    g1_regs,
    gdrom_regs, bsy_signal, drq_signal, n_bytes_received, pending_gdrom_irq,
    error,         \* an error was raised or is pending
    last           \* the last access: direction, address, length, success

sysVars == <<sys_regs, reg_sb_c2dstat, reg_sb_c2dlen, c2d_starts>>
gdromVars == <<gdrom_regs, bsy_signal, drq_signal, n_bytes_received,
               pending_gdrom_irq>>
regVars == <<sysVars, g1_regs, gdromVars>>
vars == <<regVars, error, last>>

-----------------------------------------------------------------------------
(* The tables.  Every entry has len 4. *)

SB_C2DSTAT == \h5f6800
SB_C2DLEN == \h5f6804
SB_C2DST == \h5f6808
SB_FFST == \h5f688c
SB_SBREV == \h5f689c

\* sys_reg_info: the entries with warn handlers, and those of holly_intc.c.
SysWarnRegs ==
    {\h5f6810, \h5f6814, \h5f6818, \h5f681c, \h5f6820, \h5f6840, \h5f6844,
     \h5f6848, \h5f684c, \h5f6884, \h5f6888, \h5f68a0, \h5f68a4, \h5f68ac,
     \h5f6940, \h5f6944, \h5f6950, \h5f6954}
SysIntcRegs ==
    {\h5f6910, \h5f6914, \h5f6918, \h5f6920, \h5f6924, \h5f6928, \h5f6930,
     \h5f6934, \h5f6938, \h5f6900, \h5f6904, \h5f6908}
sys_reg_info ==
    {SB_C2DSTAT, SB_C2DLEN, SB_C2DST, SB_FFST, SB_SBREV}
        \cup SysWarnRegs \cup SysIntcRegs

\* g1_reg_info: SB_G1RRC and an unknown register, both with warn handlers.
g1_reg_info == {\h5f7480, \h5f74e4}

GD_ALT_STATUS == \h5f7018
GD_STATUS == \h5f709c
GD_DATA == \h5f7080
GD_ERROR == \h5f7084
\* gdrom_reg_info: Drive Select, sector count, sector number and the byte
\* count registers have warn handlers both ways.
GdromWarnRegs == {\h5f7098, \h5f7088, \h5f708c, \h5f7090, \h5f7094}
gdrom_reg_info ==
    {GD_ALT_STATUS, GD_STATUS, GD_DATA, GD_ERROR} \cup GdromWarnRegs

\* The registers a write handler stores into.
SysStored == SysWarnRegs
GdromStored == GdromWarnRegs \cup {GD_ALT_STATUS, GD_ERROR}

ASSUME /\ SysAccess \cap SysIntcRegs = {}
       /\ Lens \subseteq 1..8 /\ Vals \subseteq Nat /\ MaxC2d \in Nat

\* The first n bytes of a little-endian word, and a word whose first n
\* bytes are overwritten (memcpy of n <= 4 bytes).  Vals are words, so
\* all four bytes of one are the word.
Low(v, n) == IF n >= 4 THEN v ELSE v % (2^(8 * n))
Store(old, v, n) == old - Low(old, n) + Low(v, n)

Init ==
    /\ sys_regs = [a \in SysStored |-> 0]
    /\ reg_sb_c2dstat = 0 /\ reg_sb_c2dlen = 0 /\ c2d_starts = 0
    /\ g1_regs = [a \in g1_reg_info |-> 0]
    /\ gdrom_regs = [a \in GdromStored |-> 0]
    /\ bsy_signal = FALSE /\ drq_signal = FALSE
    /\ n_bytes_received = 0 /\ pending_gdrom_irq = FALSE
    /\ error = FALSE
    /\ last = [dir |-> "none", addr |-> 0, len |-> 0, ok |-> TRUE]

\* The access returns; ok is FALSE when it failed.
Done(dir, addr, len, ok) ==
    last' = [dir |-> dir, addr |-> addr, len |-> len, ok |-> ok]

\* An unmapped address, a refused length, or a handler that refuses.
Fail(dir, addr, len) ==
    /\ error' = TRUE
    /\ Done(dir, addr, len, FALSE)
    /\ UNCHANGED regVars

\* A handler that only logs or returns a constant or a register's value.
Serve(dir, addr, len) ==
    /\ Done(dir, addr, len, TRUE)
    /\ UNCHANGED <<regVars, error>>

\* A handler that succeeded after changing what it changes.
Served(dir, addr, len) == Done(dir, addr, len, TRUE) /\ UNCHANGED error

-----------------------------------------------------------------------------
(* The system block *)

\* default_sys_reg_write_handler, called by warn_sys_reg_write_handler
\* after it logs the value.
warn_sys_reg_write_handler(a, len, v) ==
    /\ sys_regs' = [sys_regs EXCEPT ![a] = Store(@, v, len)]
    /\ UNCHANGED <<reg_sb_c2dstat, reg_sb_c2dlen, c2d_starts, g1_regs,
                   gdromVars>>

\* The write handlers of SB_FFST and SB_SBREV refuse.
sys_read_only_reg_write_handler(a, len) == Fail("write", a, len)

sb_c2dstat_reg_write_handler(v) ==
    /\ reg_sb_c2dstat' = Low(v, 4)
    /\ UNCHANGED <<sys_regs, reg_sb_c2dlen, c2d_starts, g1_regs, gdromVars>>

sb_c2dlen_reg_write_handler(v) ==
    /\ reg_sb_c2dlen' = Low(v, 4)
    /\ UNCHANGED <<sys_regs, reg_sb_c2dstat, c2d_starts, g1_regs, gdromVars>>

\* A nonzero write starts sh4_dmac_channel2 with the two registers.
sb_c2dst_reg_write_handler(v) ==
    /\ Low(v, 4) /= 0 => c2d_starts < MaxC2d
    /\ c2d_starts' = IF Low(v, 4) /= 0 THEN c2d_starts + 1 ELSE c2d_starts
    /\ UNCHANGED <<sys_regs, reg_sb_c2dstat, reg_sb_c2dlen, g1_regs,
                   gdromVars>>

\* The length test of sys_block_read and sys_block_write.
SysLenOk(len) == len = 4

(***************************************************************************)
(* sys_block_read: every read handler the guest reaches (warn and default *)
(* read sys_regs, SB_SBREV returns 16, SB_C2DST returns 0, SB_C2DSTAT and *)
(* SB_C2DLEN return their variables) only copies out and logs.            *)
(***************************************************************************)
sys_block_read(a, len) ==
    IF a \in sys_reg_info /\ SysLenOk(len)
    THEN Serve("read", a, len)
    ELSE Fail("read", a, len)

sys_block_write(a, len, v) ==
    IF a \in sys_reg_info /\ SysLenOk(len)
    THEN CASE a \in SysWarnRegs ->
                  warn_sys_reg_write_handler(a, len, v)
                     /\ Served("write", a, len)
           [] a \in {SB_FFST, SB_SBREV} ->
                  sys_read_only_reg_write_handler(a, len)
           [] a = SB_C2DSTAT ->
                  sb_c2dstat_reg_write_handler(v)
                     /\ Served("write", a, len)
           [] a = SB_C2DLEN ->
                  sb_c2dlen_reg_write_handler(v)
                     /\ Served("write", a, len)
           [] a = SB_C2DST ->
                  sb_c2dst_reg_write_handler(v)
                     /\ Served("write", a, len)
    ELSE Fail("write", a, len)
-----------------------------------------------------------------------------
(* The G1 bus registers *)

\* default_g1_reg_write_handler, called by warn_g1_reg_write_handler after
\* it logs the value.
warn_g1_reg_write_handler(a, len, v) ==
    /\ g1_regs' = [g1_regs EXCEPT ![a] = Store(@, v, len)]
    /\ UNCHANGED <<sysVars, gdromVars>>

\* Mutant: the comparison the wrong way round.
G1LenSwapped(len) == len >= 4

\* The length test of g1_reg_read and g1_reg_write.
G1LenOk(len) == 4 >= len

\* Both entries read through warn_g1_reg_read_handler, which only logs.
g1_reg_read(a, len) ==
    IF a \in g1_reg_info /\ G1LenOk(len)
    THEN Serve("read", a, len)
    ELSE Fail("read", a, len)

g1_reg_write(a, len, v) ==
    IF a \in g1_reg_info /\ G1LenOk(len)
    THEN warn_g1_reg_write_handler(a, len, v) /\ Served("write", a, len)
    ELSE Fail("write", a, len)

-----------------------------------------------------------------------------
(* The GD-ROM register stub *)

\* default_gdrom_reg_write_handler, called by warn_gdrom_reg_write_handler.
warn_gdrom_reg_write_handler(a, len, v) ==
    /\ gdrom_regs' = [gdrom_regs EXCEPT ![a] = Store(@, v, len)]
    /\ UNCHANGED <<sysVars, g1_regs, bsy_signal, drq_signal, n_bytes_received,
                   pending_gdrom_irq>>

\* Reading the status register acknowledges the interrupt; the alternate
\* status register returns the same BSY and DRQ bits and does not.
gdrom_status_read_handler ==
    /\ pending_gdrom_irq' = FALSE
    /\ UNCHANGED <<sysVars, g1_regs, gdrom_regs, bsy_signal, drq_signal,
                   n_bytes_received>>

\* The command register takes the first min(len, 4) bytes; 0xa0 (PACKET)
\* raises DRQ; every command raises the interrupt.
gdrom_cmd_reg_write_handler(len, v) ==
    /\ drq_signal' = (drq_signal \/ Low(v, IF len < 4 THEN len ELSE 4) = \ha0)
    /\ pending_gdrom_irq' = TRUE
    /\ UNCHANGED <<sysVars, g1_regs, gdrom_regs, bsy_signal, n_bytes_received>>

\* Mutant: the packet ends one write late.
DataWriteLateEnd ==
    IF n_bytes_received + 2 > 12
    THEN /\ n_bytes_received' = 0
         /\ drq_signal' = FALSE
         /\ bsy_signal' = FALSE
         /\ pending_gdrom_irq' = TRUE
         /\ UNCHANGED <<sysVars, g1_regs, gdrom_regs>>
    ELSE /\ n_bytes_received' = n_bytes_received + 2
         /\ UNCHANGED <<sysVars, g1_regs, gdrom_regs, bsy_signal, drq_signal,
                        pending_gdrom_irq>>

\* Every write to the data register counts two bytes, whatever its length;
\* the twelfth byte ends the packet: DRQ and BSY drop, the interrupt rises.
gdrom_data_reg_write_handler ==
    IF n_bytes_received + 2 >= 12
    THEN /\ n_bytes_received' = 0
         /\ drq_signal' = FALSE
         /\ bsy_signal' = FALSE
         /\ pending_gdrom_irq' = TRUE
         /\ UNCHANGED <<sysVars, g1_regs, gdrom_regs>>
    ELSE /\ n_bytes_received' = n_bytes_received + 2
         /\ UNCHANGED <<sysVars, g1_regs, gdrom_regs, bsy_signal, drq_signal,
                        pending_gdrom_irq>>

\* The length test of gdrom_reg_read and gdrom_reg_write.
GdromLenOk(len) == 4 >= len

\* Other than the status register, the read handlers (warn, alternate
\* status, error) only copy out and log.
gdrom_reg_read(a, len) ==
    IF a \in gdrom_reg_info /\ GdromLenOk(len)
    THEN IF a = GD_STATUS
         THEN gdrom_status_read_handler /\ Served("read", a, len)
         ELSE Serve("read", a, len)
    ELSE Fail("read", a, len)

gdrom_reg_write(a, len, v) ==
    IF a \in gdrom_reg_info /\ GdromLenOk(len)
    THEN /\ CASE a = GD_STATUS -> gdrom_cmd_reg_write_handler(len, v)
               [] a = GD_DATA -> gdrom_data_reg_write_handler
               [] a \in GdromStored -> warn_gdrom_reg_write_handler(a, len, v)
         /\ Served("write", a, len)
    ELSE Fail("write", a, len)

-----------------------------------------------------------------------------
(* The guest's accesses; an error ends emulation. *)

SysAccessStep ==
    \E a \in SysAccess, len \in Lens :
        \/ sys_block_read(a, len)
        \/ \E v \in Vals : sys_block_write(a, len, v)

G1AccessStep ==
    \E a \in G1Access, len \in Lens :
        \/ g1_reg_read(a, len)
        \/ \E v \in Vals : g1_reg_write(a, len, v)

GdromAccessStep ==
    \E a \in GdromAccess, len \in Lens :
        \/ gdrom_reg_read(a, len)
        \/ \E v \in Vals : gdrom_reg_write(a, len, v)

Next == ~error /\ (SysAccessStep \/ G1AccessStep \/ GdromAccessStep)

Spec == Init /\ [][Next]_vars

-----------------------------------------------------------------------------
(* Properties *)

TypeOK ==
    /\ sys_regs \in [SysStored -> Nat]
    /\ {reg_sb_c2dstat, reg_sb_c2dlen} \subseteq Nat
    /\ c2d_starts \in 0..MaxC2d
    /\ g1_regs \in [g1_reg_info -> Nat]
    /\ gdrom_regs \in [GdromStored -> Nat]
    /\ {bsy_signal, drq_signal, pending_gdrom_irq, error} \subseteq BOOLEAN
    /\ n_bytes_received \in {0, 2, 4, 6, 8, 10}
    /\ last.dir \in {"none", "read", "write"} /\ last.ok \in BOOLEAN

Declared == sys_reg_info \cup g1_reg_info \cup gdrom_reg_info

(***************************************************************************)
(* The dispatch contract of the three banks: an access to an address no  *)
(* table entry has, or longer than the entry's four bytes, fails; and an  *)
(* access that fails (also a write to a read-only system register)        *)
(* changes no register, whatever the bank's length test and handler.      *)
(* Every access records itself in last, so the steps that change regVars  *)
(* or last are exactly the accesses.                                      *)
(***************************************************************************)
DispatchContract ==
    [][ /\ (last'.addr \notin Declared \/ last'.len > 4) => ~last'.ok
        /\ ~last'.ok => UNCHANGED regVars ]_<<regVars, last>>
=============================================================================
