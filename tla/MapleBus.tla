------------------------------ MODULE MapleBus -------------------------------
(***************************************************************************)
(* The Maple bus frame codec of src/src/hw/maple/maple.c: the three-word  *)
(* frame header the guest's Maple DMA hands the emulator, the dispatch of *)
(* a frame on its command, the one-word response header written back to   *)
(* the frame's receive address, and the 8-bit device address of a         *)
(* (port, unit) pair.  maple.c keeps no state between frames; the state  *)
(* here is what a frame leaves behind: the header written to guest memory *)
(* and whether emulation was stopped.  The Maple DMA that walks the frame *)
(* list (maple_reg.c) is not in the repository: frames arrive in any      *)
(* order, any number of times.                                             *)
(*                                                                         *)
(* Words are naturals below 2^31 (TLC's integers are 32-bit signed), so   *)
(* the MAPLE_LAST bit (31) of the first word is not represented.  A mask  *)
(* and shift (w & (m << s)) >> s is written (w \div 2^s) % (m + 1).  The  *)
(* command codes, response codes, sizes and port/unit counts live in      *)
(* maple.h and maple_device.h, which are not in the repository: they are  *)
(* CONSTANTS.  maple_device_get(addr)->enable is the set DevEnabled of     *)
(* device addresses whose device is plugged in.                           *)
(***************************************************************************)
EXTENDS Naturals, TLC

CONSTANTS
    MAPLE_PORT_COUNT, MAPLE_UNIT_COUNT,
    MAPLE_CMD_DEVINFO, MAPLE_CMD_GETCOND,
    MAPLE_RESP_DEVINFO, MAPLE_RESP_DATATRF, MAPLE_RESP_NONE,
    MAPLE_DEVINFO_SIZE, MAPLE_COND_SIZE,
    DevEnabled,     \* addresses whose maple_device_get(addr)->enable is set
    MapleFrames     \* <<dat[0], dat[1], dat[2]>> headers the guest sends

VARIABLES
    error,          \* RAISE_ERROR: emulation has stopped
    maple_frame,    \* the last frame answered, as maple_decode_frame made it
    maple_hdr       \* the header maple_write_frame_resp wrote for it

mapleVars == <<maple_frame, maple_hdr>>

\* (w & (0xff << shift)) >> shift for the 8-bit fields of a frame word.
Byte(w, shift) == (w \div 2^shift) % 256

(***************************************************************************)
(* maple_decode_frame: dat[0] holds the length in words (bits 0-7), the   *)
(* pattern (8-10) and the port (16-17); dat[1] the receive address;       *)
(* dat[2] the command (0-7), the Maple address (8-15) and the packet      *)
(* length (24-31).  A frame whose two lengths disagree is RAISE_ERROR     *)
(* (ok = FALSE).                                                           *)
(***************************************************************************)
maple_decode_frame(dat) ==
    LET input_len == Byte(dat[1], 0) * 4
        pack_len == Byte(dat[3], 24)
    IN [input_len |-> input_len,
        port |-> (dat[1] \div 2^16) % 4,
        ptrn |-> (dat[1] \div 2^8) % 8,
        recv_addr |-> dat[2],
        cmd |-> Byte(dat[3], 0),
        maple_addr |-> Byte(dat[3], 8),
        pack_len |-> pack_len,
        ok |-> input_len = 4 * pack_len]

(***************************************************************************)
(* maple_handle_frame with maple_handle_devinfo and maple_handle_getcond: *)
(* the response code and output length written back, or ok = FALSE where *)
(* the code raises ERROR_UNIMPLEMENTED (an unknown command, GETCOND to an *)
(* empty port).                                                            *)
(***************************************************************************)
maple_handle_frame(frame) ==
    LET enable == frame.maple_addr \in DevEnabled
    IN CASE frame.cmd = MAPLE_CMD_DEVINFO /\ enable ->
              [ok |-> TRUE, resp |-> MAPLE_RESP_DEVINFO,
               output_len |-> MAPLE_DEVINFO_SIZE]
         [] frame.cmd = MAPLE_CMD_DEVINFO ->
              [ok |-> TRUE, resp |-> MAPLE_RESP_NONE, output_len |-> 0]
         [] frame.cmd = MAPLE_CMD_GETCOND /\ enable ->
              [ok |-> TRUE, resp |-> MAPLE_RESP_DATATRF,
               output_len |-> MAPLE_COND_SIZE]
         [] OTHER -> [ok |-> FALSE, resp |-> 0, output_len |-> 0]

\* Mutant: the length field counts bytes, not words.
RespLenBytes(frame, out, resp_code) ==
    (resp_code % 256) + (frame.maple_addr % 256) * 2^8
    + (out.output_len % 256) * 2^24

\* maple_write_frame_resp: the header word written at recv_addr.  The
\* fields do not overlap, so the ORs are sums.
maple_write_frame_resp(frame, out, resp_code) ==
    LET len == out.output_len \div 4
    IN (resp_code % 256) + (frame.maple_addr % 256) * 2^8
       + (len % 256) * 2^24

\* maple_addr_unpack: the unit is the one-hot low bit (1..5) or bit 5 with
\* no other low bit (0); the port is bits 6-7.  Any other address is
\* RAISE_ERROR(ERROR_INTEGRITY) (ok = FALSE).
maple_addr_unpack(addr) ==
    LET unitOf == (1 :> 1) @@ (2 :> 2) @@ (4 :> 3) @@ (8 :> 4) @@ (16 :> 5)
    IN CASE addr % 64 = 32 ->
              [ok |-> TRUE, port |-> (addr \div 64) % 4, unit |-> 0]
         [] addr % 32 \in DOMAIN unitOf ->
              [ok |-> TRUE, port |-> (addr \div 64) % 4,
               unit |-> unitOf[addr % 32]]
         [] OTHER -> [ok |-> FALSE, port |-> 0, unit |-> 0]

\* maple_addr_pack: (1 << (unit - 1)) & 0x1f, or 0x20 for the main unit,
\* ORed with port << 6 (disjoint bits for port < 4).
maple_addr_pack(port, unit) ==
    (IF unit > 0 THEN (2^(unit - 1)) % 32 ELSE 32) + port * 64

\* No frame answered yet.
NoFrame == maple_decode_frame(<<0, 0, 0>>)

Init ==
    /\ error = FALSE
    /\ maple_frame = NoFrame
    /\ maple_hdr = 0

\* maple_read_frame then maple_handle_frame on one frame header: a frame
\* that fails decoding or dispatch stops emulation; one that is answered
\* gets its response header (the payload bytes are not modelled).
MapleFrameStep(dat) ==
    LET frame == maple_decode_frame(dat)
        out == maple_handle_frame(frame)
    IN /\ ~error
       /\ IF frame.ok /\ out.ok
          THEN /\ maple_frame' = frame
               /\ maple_hdr' = maple_write_frame_resp(frame, out, out.resp)
               /\ UNCHANGED error
          ELSE /\ error' = TRUE
               /\ UNCHANGED mapleVars

Next == \E dat \in MapleFrames : MapleFrameStep(dat)

Spec == Init /\ [][Next]_<<error, mapleVars>>

-----------------------------------------------------------------------------
(* Properties.                                                             *)

\* maple_addr_unpack inverts maple_addr_pack: every port and unit the
\* emulator can plug a device into (port < MAPLE_PORT_COUNT, unit <
\* MAPLE_UNIT_COUNT, the INVARIANTS check of maple_addr_pack) is packed
\* to an address that unpacks to the same port and unit, so no two
\* (port, unit) pairs share an address.
MapleAddrRoundTrip ==
    \A port \in 0..MAPLE_PORT_COUNT - 1, unit \in 0..MAPLE_UNIT_COUNT - 1 :
        maple_addr_unpack(maple_addr_pack(port, unit))
            = [ok |-> TRUE, port |-> port, unit |-> unit]

\* The header written for the last frame answered, read back by the guest
\* with the field layout maple_decode_frame uses for dat[2], names the
\* response code, the Maple address the frame was sent to, and the whole
\* output in words: maple_write_frame_resp and maple_decode_frame agree on
\* the layout and no field is truncated.
MapleRespDecodes ==
    maple_frame /= NoFrame =>
        LET out == maple_handle_frame(maple_frame)
            back == maple_decode_frame(<<0, 0, maple_hdr>>)
        IN /\ back.cmd = out.resp
           /\ back.maple_addr = maple_frame.maple_addr
           /\ back.pack_len * 4 = out.output_len
=============================================================================
