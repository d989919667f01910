# Model checking WashingtonDC: the GD-ROM drive, the register banks and the emulator's threads

This directory holds TLA+ models of parts of WashingtonDC, a Dreamcast emulator.
The sources are under `src/`. Every definition is translated from the C code.
`PROJECT.json` maps each definition to the lines it models. It also lists the
runs, the mutants that show each passing property can fail, the findings and
the hazards.

## 1. The system and its parts

| part | source | what it does | status |
|---|---|---|---|
| GD-ROM ATA/packet protocol | `src/src/hw/gdrom/gdrom_reg.c` | The register file the guest sees: status, features, sector count, byte count, device control, command and data registers. Command handlers; a 12-byte packet state machine; nine packet handlers; a FIFO of response buffers that PIO reads drain. | modelled, partly |
| GD-ROM G1 DMA | same file | GDAPRO (protection window), GDSTAR, GDLEN, GDEN, GDST and `gdrom_complete_dma`, which copies the queue to guest memory. | modelled, partly |
| Legacy GD-ROM stub | `src/src/hw/gdrom/gdrom_reg.cpp` | An older C++ version of the same register file: a PACKET command raises DRQ, six data writes end the packet. | modelled (`RegDispatch`) |
| G1 bus registers | `src/src/hw/g1/g1_reg.cpp` | Table dispatch of two G1 registers that only store. | modelled (`RegDispatch`) |
| System block | `src/src/hw/sys/sys_block.c` | Holly system registers, channel-2 DMA start. | modelled, partly (`RegDispatch`; the interrupt-controller entries call `holly_intc.c`, not in the repository) |
| Maple bus | `src/src/hw/maple/maple.c` | Decodes the three-word header of a guest frame, answers DEVINFO and GETCOND with a one-word response header, packs and unpacks device addresses. | modelled (`MapleBus`; the Maple DMA and device table are not in the repository) |
| Maple controller header | `src/src/hw/maple/maple_controller.h` | Button masks and prototypes of code that is not in the repository. | not modelled |
| Graphics thread | `src/src/gfx/gfx_thread.c` | Render thread woken through a mutex, two condition variables and four atomic flags. | modelled (`GfxThread`) |
| I/O thread | `src/src/io/io_thread.c` | libevent thread: a start handshake, plus kicks from the emulation thread. | modelled (`IoThread`) |
| Program entry | `src/src/main.c` | Launches the graphics and I/O threads, runs the emulator, joins the threads. | modelled, partly (`DcMain`; option parsing and file loading are not) |
| Window, headers, unit tests | `window.c`, `gdb_stub.h`, `pvr2/*.h`, `unit_tests/sh4_test.cpp` | GLFW I/O, declarations only, and tests of code that is not in the repository. | not modelled |

The guest CPU talks to the drive through two routes:
- memory-mapped register reads and writes (`gdrom_reg_read` / `gdrom_reg_write`, dispatched through `gdrom_reg_info`);
- G1 register writes that program and start a DMA.

The drive answers in three ways:
- through the status and interrupt-reason registers;
- with the Holly GD-ROM interrupt, unless NIEN is set;
- with bytes left in the buffer queue, for PIO reads or a DMA to drain.

## 2. Modules

- **GdromBufq**: the buffer queue as a sequence of records `[kind, src, len, idx]`.
  - `kind` says which response a node holds, and `src` is the FAD of a sector. The bytes themselves are abstracted away.
  - `bufq_clear`, `bufq_consume_byte` and the read loop become operators.
  - `BufqStream(q)` lists the bytes the queue still holds, in the order `bufq_consume_byte` hands them out. Each byte is named `<<kind, src, offset>>`.
- **GdromStream**: the abstract specification of the queue, as the guest sees it: a stream of bytes still to read.
  - `Respond` replaces the stream by one whole response from its first byte: one run of bytes, or whole sectors, each from one FAD.
  - `Read` takes one or more bytes from the front.
  - `GdromDrive` defines `Stream == INSTANCE GdromStream WITH stream <- BufqStream(bufq)`. `StreamRefinement == Stream!Spec` is checked as a property: every step of the drive is a `Respond`, a `Read` or leaves the stream alone.
- **GdromTransMode**: `TransModeOf`, the if-chain of `gdrom_cmd_set_features` that decodes the sector count into a transfer mode. It is written as a CASE in the code's order.
- **GdromDrive**: the drive.
  - **Variables**: the C statics (`stat_reg`, `feat_reg`, `int_reason_reg`, `dev_ctrl_reg`, `data_byte_count`, `state`, `pkt_buf`, `n_bytes_received`, the error register's `sense_key`, `additional_sense`, `trans_mode_vals`, the DMA registers, `gdlend_reg`), plus:
    - `bufq`;
    - `gdrom_irq`, the interrupt line;
    - `dma_writes`, the memory ranges the last DMA wrote;
    - `mounted`, whether a disc is in;
    - `fault`: an emulator error such as `RAISE_ERROR` or an unimplemented path, which stops emulation.
  - **Actions**: one per register handler. `Next` is the register table `gdrom_reg_info`, plus the G1 DMA handlers and the access errors of `gdrom_reg_read`/`gdrom_reg_write`.
    - Each action models the whole handler.
    - A data write that completes a packet calls `gdrom_input_packet` in the same step, with every packet handler it dispatches to.
    - A GDST write runs `gdrom_complete_dma` in the same step.
  - **Status bits and interrupt reason** are sets of flag names.
- **MCGdromDrive**: model values for TLC.
  - Packets are built the way a guest builds them. `GuestWords` splits each packet into 2-byte data-register writes.
  - `PacketView` is used as a VIEW. It drops the bytes of `pkt_buf` beyond `n_bytes_received`, which are overwritten before they are read.
- **GfxThread**: `gfx_main` and the threads that call into `gfx_thread.c`.
  - A cleared `not_X` flag is `X \in pending`. `lock` is the holder of `gfx_thread_work_lock`. `gfx_pc` and `emu_pc` are the program counters of `gfx_main` and of the emulation thread. `fb_out` is `fb_out /= NULL`. `running` is `dc_is_running()`.
  - Actions: `GfxLock`, `gfx_thread_run_once` (all four flags in one step, as it runs under the lock), `GfxWait`, `GfxReacquire` (the do-while test), `GfxExit`. On the caller side: `Request(f)` for redraw, expose and geo_buf, `gfx_thread_notify_wake_up`, `gfx_thread_read_framebuffer` up to its first wait, and `FbReacquire` (the `while (fb_out)` loop). Also `dreamcast_kill` from `window.c`.
  - Spurious returns from both `pthread_cond_wait`s are actions, bounded by `MaxSpurious`. `grabbed` is a history variable: the pixels of the current read were grabbed.
- **IoThread**: `io_thread_launch`, `io_main`, `io_thread_kick` and `io_work_callback`.
  - The create mutex is held only across steps nothing else observes, so those steps are merged and the mutex has no variable.
  - `io_thread_kick` is two steps, the load of `io_thread_running` and `event_active`, because the race sits between them. For the same reason `io_main`'s exit is two steps, `IoStopRunning` (the store of false) and `IoFreeEvent` (`event_free` and the rest of the cleanup). `event` and `active` are the work event's allocation and activation.
- **DcMain**: `main()` from `gfx_thread_launch` to `io_thread_join`, composing `GfxThread` and `IoThread` with `INSTANCE ... WITH`.
  - The emulation thread of `GfxThread` and the main thread of `IoThread` are the same thread. So `dreamcast_run` makes one call at a time: a `gfx_thread.c` call and an `io_thread_kick` never overlap.
  - `running` of `GfxThread` and `dc_running` of `IoThread` are one variable, `dc_is_running()`. One `dreamcast_kill` stops both threads.
  - `phase` follows `main()`: launch, run, then join the graphics, window and I/O threads in that order. `GfxOnly(A)` and `IoOnly(A)` lift one module's step, leaving the other's variables unchanged.
- **RegDispatch**: the three table-dispatched register banks: `sys_block.c`, `g1_reg.cpp` and the legacy `gdrom_reg.cpp`.
  - Each bank's read and write functions find the first entry with the address and test the length. `sys_block.c` wants it equal to the entry's, the C++ banks at most the entry's. Then they call the handler. An unmapped address or a refused length is an error (`PENDING_ERROR` or a thrown `UnimplementedError`), which ends emulation: `error` is final.
  - Handlers that store (warn and default) keep the word per address, and a write of `len` bytes replaces its low `len` bytes (`Store`). `SB_FFST` and `SB_SBREV` refuse writes. A nonzero `SB_C2DST` write counts a channel-2 DMA start. The legacy GD-ROM handlers keep `drq_signal`, `bsy_signal`, `n_bytes_received` and `pending_gdrom_irq` as the code does.
  - `last` records the access of the step and whether it succeeded. The properties are stated over it.
  - Reads that only copy out and log change no state.
- **MapleBus**: `maple.c`. It keeps no state between frames, so most of it is operators: `maple_decode_frame`, `maple_handle_frame` (with the DEVINFO and GETCOND handlers), `maple_write_frame_resp`, `maple_addr_pack` and `maple_addr_unpack`. A mask-and-shift is written as `\div` and `%`.
  - `MapleFrameStep(dat)` is `maple_read_frame` followed by `maple_handle_frame`. A frame that fails either one sets `error` (`RAISE_ERROR`). An answered frame leaves `maple_frame`, the decoded frame, and `maple_hdr`, the header word written to guest memory.
  - The command and response codes and sizes come from `maple.h` and `maple_device.h`, which are not in the repository, so they are CONSTANTS. The run gives them the Maple bus protocol's values: DEVINFO 1, GETCOND 9, responses 5, 8 and 255 (none), sizes 112 and 8. `DevEnabled` stands for `maple_device_get(addr)->enable`.
  - Words stay below 2^31, TLC's integer limit, so the last-frame bit (bit 31 of `dat[0]`) is not represented.
- **MCRegDispatch**: composes `RegDispatch` with `Maple == INSTANCE MapleBus`. A register access and a Maple frame interleave, and they share `error`: a `RAISE_ERROR` from either stops both. `ASSUME Maple!MapleAddrRoundTrip` is checked when the model loads: `maple_addr_unpack` inverts `maple_addr_pack` on all 4 x 6 ports and units. A pack with the unit bit shifted one place fails it.
- **MCTransMode**: checks `TransModeOf` against a reference decode built from the `TRANS_MODE_*_MASK/VAL` defines, over all 256 sector counts.

Scaling: the code's sizes shrink to small constants. The control flow does not depend on their values, only on their order.
- `SectorLen` (2048 in the code) is 2, `IdentLen` (80) is 2, `ModeInfoLen` (32) is 4, `ReqErrLen` (10) is 3, `TocSize` is 3 and `Pkt71Len` is 2.
- Addresses are taken modulo `UIntMod` = 8192 instead of 2^32, so unsigned wraparound still happens.
- `ProtBase`/`ProtUnit` shrink the GDAPRO window arithmetic (`0x08000000`, `1 << 20`) to 256 and 2.
- `StarMod` masks GDSTAR the way the code masks it to 29 bits.

## 3. Runs

| run | expect | what it shows |
|---|---|---|
| `gdrom_pio` | pass | Under any interleaving of commands, the nine packets, PIO reads, SET_FEATURES, byte count and NIEN writes: <br>- `CheckHasSense`: CHECK is always explained by a sense key. <br>- `QueueHoldsOneResponse`: the queue holds a single response. <br>- `DrqPromisesData`: outside packet input, DRQ means the head node still has a byte for the guest. Packets here ask for nonzero lengths; `zero_length` shows the zero case. |
| `gdrom_dma` | pass | READ in DMA mode, TOC, IDENTIFY, PIO reads, sector count writes, all G1 DMA writes, GDAPRO with right and wrong key, access errors. <br>- `DmaLengthAccounting`: GDLEND never exceeds GDLEN, and falls short only when the queue ran dry. <br>- `StreamRefinement`: the drive implements `GdromStream`. No response is queued behind leftovers, and neither PIO nor DMA takes bytes other than from the front. |
| `set_mode_phase` | violation | After SET_MODE the drive says "data phase" but stays in packet input (finding). |
| `zero_length` | violation | `DrqPromisesData`: REQ_MODE and REQ_ERROR asking for 0 bytes set DRQ with an empty queue, and READ_TOC of length 0 queues an empty node (finding). |
| `read_same_fad` | violation | A two-sector READ queues the first sector twice (finding). |
| `dma_window` | violation | The bottom clamp of `gdrom_complete_dma` underflows; with the reset GDAPRO value a DMA writes far outside the window (finding). |
| `dma_source_offset` | violation | DMA copies from the start of each node: the bytes dropped below the GDAPRO top, and bytes already read by PIO, are written where other bytes belong (finding). |
| `threads` | pass | `DcMain`: the whole of `main()` with both threads, kills and spurious wakeups: <br>- `RequestServed`: while the emulator runs, every redraw, expose and geo_buf request is served. No wakeup is lost, because the signal is sent under the lock `gfx_main` holds from its flag test to its wait. <br>- `ReaderServedWhileRunning`: while the emulator runs, a framebuffer read is served. <br>- `ReaderGetsFrame`: a read returns only with the pixels, despite spurious wakeups. <br>- `LaunchReturns`: `io_thread_launch` returns. <br>- `RunningImpliesEvent`: `io_thread_running` is set only while the work event exists. `io_main`'s exit path is two steps, the store of false and then `event_free`, so the order of those two lines is what is checked. <br>- `IoTerminates`: once stopped with a kick pending, `io_main` exits. |
| `gfx_reader_after_kill` | violation | `ReaderServed`: a reader whose wakeup `gfx_main` takes after the kill is never released. `gfx_main` leaves its loop without running `gfx_thread_run_once` (finding). |
| `io_kick_after_free` | violation | `NoUseAfterFree`: `io_thread_kick` can call `event_active` on the freed work event (finding). |
| `reg_banks` | pass | Reads and writes of 2, 4 and 8 bytes to registers of every handler kind in the three banks: <br>- `DispatchContract`: an unmapped or oversize access always fails, and a failed access (a read-only write too) changes no register. <br>- `MapleRespDecodes`: the response header `maple_write_frame_resp` writes for a frame, read back with `maple_decode_frame`'s field layout, gives the response code, the frame's Maple address and the whole output length in words. <br>The Maple frames interleave with the register accesses (1,046,019 states, about 2m20s). |
| `trans_mode` | violation | The multi-word DMA branch compares with the mask instead of the value (finding). It is latent, because the sector count register is wired to the warn handler and stays 0. |

The passing runs fire every action of `Next` between them. Each property of a
passing run has a mutant in `PROJECT.json`: a plausible bug in the handler it is
about, which TLC detects as a violation of that property.

**Bounds.**
- One readable FAD, sector reads of 1 or 2 sectors, two NIEN values, one or two features values.
- Two GDAPRO writes: the correct key with a window, and a wrong key.
- Two or three DMA start addresses: below the window, inside it, and above it.

Each is enough to reach every branch of the handlers:
- packet complete and not yet complete;
- disc present and absent;
- PIO and DMA;
- a chunk below, across and inside the window;
- GDLEN shorter and longer than the queue.

The packets and the values of each run are chosen in `MCGdromDrive` so that
every run finishes within about two minutes.

For the threads, the violation runs use `MaxOps` = 5, `MaxKicks` = 6 and `MaxSpurious` = 2 or 3. The composed `threads` run uses `MaxOps` = 4, `MaxKicks` = 3 and `MaxSpurious` = 1 per thread module (107,000 states). These bounds are enough for:
- a request or a read in every position of `gfx_main`'s loop;
- a kill before, during and after a read;
- a kick in flight across the I/O thread's shutdown.

The two counterexamples need 10 steps or fewer.

For the register banks, the guest uses the five system registers of distinct handlers (`SB_C2DSTAT`, `SB_C2DLEN`, `SB_C2DST`, a warn register and `SB_SBREV`), `SB_G1RRC`, and the legacy status, alternate status and data registers plus an unmapped address. Lengths are 2, 4 and 8: short, exact and oversize. Values are 0 and `0x100a0`. A 2-byte write of the latter to the command register is a PACKET command, and a 4-byte write of it is not. These choices reach every handler and both outcomes of every length test. Each access to a register that is not used would repeat the handler of one that is.

The Maple frames are GETCOND to the plugged-in controller (port 0, address 0x20), with one payload word, and DEVINFO to the empty port 1 (0x60). Together they reach both commands and both outcomes of the enable test. Each frame kind multiplies the register states. A frame that stops emulation would add a copy of every register state with `error` set, so there is none: a DEVINFO to the controller or an error frame would take the run past three and a half minutes.

**Deadlock.** It is not checked (`CHECK_DEADLOCK FALSE`), for two reasons:
- A `fault` stops the model, just as `RAISE_ERROR` stops the emulator.
- Without a fault, the status register read is always enabled, so the model cannot deadlock.

**Deadlock in the thread models.** It is not checked there either. The emulation thread's bounded calls end every behaviour, and a thread left waiting is exactly what the liveness properties detect. A kill that comes after the last kick leaves `io_main` in its event loop and `main()` in `io_thread_join`. What wakes it lies in `dreamcast.c`, which is not in the repository (a hazard in `PROJECT.json`).

**Deadlock in the register banks.** It is not checked: every failed access ends emulation.

**Fairness.**
- **GD-ROM drive:** none is assumed. The drive is passive: it moves only when the guest touches a register, and nothing in the code obliges the guest to do so. Its properties are therefore safety and action properties.
- **Register banks:** none, as for the drive: they move only when the guest accesses them.
- **Thread models and `DcMain`:** each step of `gfx_main` and `io_main` is weakly fair (`WF_vars`). So is each step that completes a call another thread has already begun, such as the notify after a flag clear, re-taking the lock after a wakeup, or `event_active` after the load. A runnable thread is eventually scheduled.
- `DcMain` also makes `main()`'s own steps between calls weakly fair: launching, returning from `dreamcast_run` once stopped, and joining.
- **Not fair:** whether the emulation thread makes a call, `dreamcast_kill`, and spurious wakeups. Nothing obliges them to happen.

## 4. Not modelled, and why

- Writes to Drive Select and Sector Number, and to GDDIR and G1GDRC, only store a value that nothing reads.
- In `gfx_thread.c`, `gfx_thread_join`, `gfx_thread_wait_for_geo_buf_stamp` and `gfx_thread_post_framebuffer` only delegate to code that is not in the repository.
- The first `gfx_thread_run_once` serves an expose and a geo_buf render nobody requested, because those flags start clear. This is recorded as a hazard. Its effect lies in render code that is not in the repository.
- The callers of the `gfx_thread` and `io_thread` functions (`dreamcast.c`, the PVR2 code) are not in the repository. Their calls are modelled as arbitrary, bounded calls.
- Data-register accesses of 1 or 4 bytes are not modelled. A 4-byte write stores 2 bytes of the packet (a hazard in `PROJECT.json`).
- The contents of sectors, the TOC and IDENTIFY are abstracted to their origin and length.
- `main.c`'s option parsing, BIOS/flash/disc loading and `dreamcast_init` are I/O and configuration. They are not modelled: `DcMain` starts after them.
- The interrupt-controller registers of the system block (`SB_IML*`, `SB_IST*`) are handled by `holly_intc.c`, and `sh4_dmac_channel2` by `sh4_dmac.c`. Neither file is in the repository.
- Maple: the frame payload and the DEVINFO/GETCOND data (`maple_compile_devinfo`, `maple_compile_cond` live in `maple_device.c`), the address `maple_read_frame` returns for the next frame (the DMA loop that uses it is in `maple_reg.c`), and the DMA-complete interrupt (`holly_intc.c`). None of these files is in the repository.
- The values a read returns are not recorded: no property needs them, and recording them would multiply the state space.

## 5. Plan for later sittings

1. Done: **GfxThread**, **IoThread**, their composition **DcMain**, and **RegDispatch** for the sys, G1 and legacy GD-ROM banks.
2. The project is at the limit of 12 runs. Further checks must be folded into existing runs, or into an MC module that composes several specifications.
3. Done: **GdromStream**, with `GdromDrive` checked to refine it in `gdrom_dma`. In `gdrom_pio` the same check takes about 2m50s, too close to the time limit. A cheaper `BufqStream` would let that run check it too.
4. Done: **MapleBus**, composed with the register banks in `reg_banks`.
5. Properties for the open hazards: `additional_sense` never reset, a GDST write of 0 during packet input (DRQ left set in NORM, seen under `gdrom_dma`'s inputs), a completion interrupt on an already empty queue, and the legacy stub's packet counter.
