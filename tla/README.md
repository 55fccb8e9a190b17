# Formal models of the harvester firmware (ti_mcu_code_base)

This directory holds TLA+ models of the firmware, TLC configurations that check
them on small instances, and proofs checked by TLAPS.  Every definition is
translated from the source; `PROJECT.json` gives, for each, the file and lines.

* [1. The system](#1-the-system)
* [2. What is hard about it](#2-what-is-hard-about-it)
* [3. Modules](#3-modules)
* [4. Runs, bounds and what they show](#4-runs-bounds-and-what-they-show)
* [5. Fairness](#5-fairness)
* [6. Proofs](#6-proofs)
* [7. Where code and documents disagree](#7-where-code-and-documents-disagree)
* [8. What is not modelled](#8-what-is-not-modelled)
* [9. Plan](#9-plan)

## 1. The system

The repository is firmware for boards of an RTK positioning system.  A base
receives RTCM3 corrections from its GNSS receiver (ZED-F9P, UART1) and sends
them over LoRa (SX1262) to rovers, which pass them to their own receiver.
There is no operating system: a super-loop calls each task in turn, interrupts
fill buffers.  A separate bootloader, built from the same drivers, launches the
application.  A key/file store in two pages of the on-chip NOR flash keeps the
parameters of both.

The data path of a correction is

    RTCM3 on UART1 -> tbfp_send(IF_LORA) -> lora_send_queue (byte FIFO)
      -> lora_transmit_from_queue -> tbfp_send_tunnel(IF_SX1262, ACK_NEED)
      -> tbfp_retx_start -> sx1262_start_tx -> radio
      -> sx1262_poll_status -> lora_proc_payload -> tbfp_proc -> tbfp_proc_full
      -> payload TUNNEL -> tbfp_proc(IF_LORA) -> RTCM3 -> UART1

and an acknowledge takes the way back.

| Component (source) | State | Operations | Interacts with | What makes it correct |
|---|---|---|---|---|
| acknowledge/retransmit machine (`tbfp_re_tx_ack_fsm.c`) | `state`, latched `input`, `retx_cnt`, time stamps, `expected_ser_num`, result counters | `tbfp_retx_start`, `tbfp_retx_proc` (task, 15 ms), `tbfp_retx_ack`, `tbfp_retx_tx_done` | called by the frame layer and by the driver; calls `sx1262_start_tx` | every frame is tried exactly `TBFP_RETX_TRY_MAX` times or acknowledged; a stale input settles nothing; it ends |
| frame layer (`tbfp_protocol.c`) | one `tx_frame` buffer, `s_num`, `prev_s_num`, flow counters per interface | `tbfp_send*`, `tbfp_proc_full`, `tbfp_check_flow_control`, `tbfp_proc_payload` | composes for console, queue, relay and acknowledge alike | payloads reach the application in order and once; relays end |
| byte parser (`tbfp_protocol_parser.c`) | byte machine, receive frame | `tbfp_proc_byte` | feeds `tbfp_proc_full` | finds every whole frame again after a broken one |
| SX1262 driver (`sx1262_drv.c`) | `tx_done`, `tx_mute`, chip mode, command status, hang counters | `sx1262_process` (task, 300 us), `sx1262_start_tx`, `sx1262_start_rx`, `sx1262_init` | calls the queue, the frame layer and the machine | a transmission is never started on another, and is reported once |
| transmit queue (`lora_drv.c`) | byte FIFO, pause since last TX_DONE | `lora_send_queue`, `lora_transmit_from_queue` | asks `is_tbfp_retx_idle` | sends the next chunk only when the one before is settled; drains |
| flash file system (`flash_fs.c`) | the two pages | `mm_get`, `mm_set`, `mm_invalidate`, `mm_maintain` (task, 1 min), `mm_turn_page`, `mm_flash_format`, `flash_fs_init` | used by parameters, boot driver, console | an atomic map from identifiers to files, power failures included |
| NVS flash driver (`flash_nvs_drv.c`) | flash cells | `flash_nvs_write`, `flash_nvs_erase` | under the file system | verifies what it wrote |
| boot driver (`boot_driver.c`) | parameters `boot_cmd`, `boot_cnt`, `app_start`; `fine_start_event` | `boot_init`, `boot_try_app`, `boot_launch_app`, `boot_proc` (task, 2 s), `boot_jump_to_boot`, `boot_jump_to_code` | bootloader and application, through flash and the watchdog | a hanging application is launched a bounded number of times, a good one is never given up |
| RTCM3, UBX, NMEA parsers (`rtcm3_protocol.c`, `ubx_protocol.c`, `nmea_protocol.c`) | byte machine and frame buffer each | `*_proc_byte` | all three get every byte of UART1 | each finds its frames again after a torn one and among those of the others |
| UART1 (`uart_drv.c`) | receive FIFO shared with the interrupt | `uart1ReadCallback`, `proc_uart1` | the three parsers | no byte is parsed twice, out of order, or lost below the limit of the FIFO |
| UBX driver (`ublox_driver.c`, `ubx_wait_ack`) | one acknowledge flag, poll index | `ubx_send_message`, `ubx_send_message_ack`, `ubx_wait_ack`, which runs the super-loop inside a handler, `ubx_proc` (task) | UBX parser, ZED-F9P set-up, console | the acknowledge that ends a wait came after its message |
| ZED-F9P receiver (`zed_f9p_drv.c`) | `rtk_mode`, the `on` switches of the NMEA and UBX tasks | `zed_f9p_init`, `zed_f9p_deploy_base`, `_rover`, `_norm`, `zed_f9p_proc` (task) | UBX driver, parsers, console | a set-up reported as done is in force; every set-up returns |
| SPI driver (`spi_drv.c`) | `it_cnt`, `it_done`, written by the DMA's interrupt | `spi_write`, `spi_read`, `SPI0_CallBack` | SX1262 and TCAN4550 drivers on one bus, each with its chip select; console | true means moved, under the right chip select; a late interrupt does no lasting harm |
| CAN transceiver (`tcan4550_drv.c`, `can_drv.c`) | registers and message RAM in the chip | register and buffer accesses, `can_send`, `tcan4550_proc` (task) | SPI driver, frame layer | its accesses are those of the SPI driver; the rest is in the chip |
| command line (`cli_drv`) | line buffer, static argument vector | `process_shell_cmd`, `cli_process` (task) | every command | a command runs with its own arguments |
| parameters, system glue, GNSS/calendar, sensors, board support, exercises | tables, registers | reads and writes | | no control state of their own |

The submodules with the FIFO, the CRC, the scheduler (`super_loop`,
`task_info`) and the unit test framework are empty directories: what is needed of
them is modelled from how `src/` uses it.

## 2. What is hard about it

* *Interleaving.*  The super-loop calls the SX1262 task fifty times for one run
  of the retransmit task, and console commands fall between any two.  All of
  them write the one `tx_frame`, the one `ReTxFsm`, the one `tx_done`.
* *Delivery.*  The radio is half duplex; a frame or its acknowledge may be lost,
  and a transmission may cut off another of the same board.
* *Stale state.*  `ReTxFsm.input` is latched and never cleared; the chip mode
  read before a frame is processed is used after it; a parser whose task is
  switched off keeps half a frame.
* *Waits inside handlers.*  `ubx_wait_ack` runs the super-loop again, so tasks and
  commands run inside the wait, waits nest, and all of them share one
  acknowledge flag that names no message.
* *Late interrupts.*  A wait for an SPI transfer has a bound, the transfer has
  none: its interrupt may fall into any later access.
* *One stream, three machines.*  Every byte of UART1 goes to the RTCM3, the NMEA
  and the UBX machine, and each meets the start bytes of its own frames in those
  of the others.
* *Crashes.*  Power fails between two flash operations or in the middle of one;
  a board restarts with serial number 1 while its peer holds a larger one.
* *Limits.*  Serial numbers wrap at 2^16; the file system scans to
  `MIN_FILE_LEN` before the end of a page; `mm_set` compares room with the file
  but not with its header; `mm_flash_zero` refuses more than 256 bytes; a full
  page is turned only by a task.
* *Partial failure.*  `boot_launch_app` sets three parameters and goes on when
  one fails; `sx1262_start_tx` clears `tx_done` before transfers that may fail.

`PROJECT.json` lists each hazard at its line with the properties that would
catch it.

Left beside that list, because they touch single results, statistics or parts
that are not modelled:

* `con_flow` and `max_con_flow` (`tbfp_protocol.c:525`) are 32-bit counters
  truncated to 16 bits at every frame; nothing reads them.
* `mm_flash_zero` (`flash_fs_ll.c:35`) refuses more than 256 bytes, so a duplicate of
  a longer item would make the file unreadable; the firmware keeps no such file.
* `ubx_protocol.c:118` compares the payload's length with the whole frame buffer of 100
  bytes, so a frame with header and check may run up to 8 bytes over its end.
  `TypeOK` of `UartPort` bounds the UBX frame by `UBX_RX_FRAME_SIZE + 8`, which is what
  the machine holds; that it stays in `rx_frame` is neither true nor claimed.
* The loop at `rtcm3_protocol.c:213` includes `IF_CNT`, one past the last interface.
* `uart_send_wait_ll` (`uart_drv.c:294`) may take a late completion for the next
  one's, as the SPI driver does; `proc_uart_fwd_ll` (`:487`) hands a buffer on its
  stack to a transmission it does not wait for.
* The chip select macro of the CAN driver (`tcan4550_drv.c:135`) hides failed
  transfers; `tempTxArray` (`sx1262_drv.c:260`) is refilled while a late transfer may
  still read it.
* `cli_process` (`cli_manager.c:117`) clears `tx_int` after the transmission it
  reports may have begun; `process_shell_cmd` (`:183`) keeps its argument vector
  in static variables, which a command run inside another's wait overwrites.

## 3. Modules

| Module | What it is |
|---|---|
| `TbfpNode` | the handlers of one board as total operators from board state to board state |
| `TbfpLink` | boards on one radio channel: variables, actions, `Spec`, `FairSpec`, properties |
| `TbfpLinkProofs` | theorems about `TbfpLink`: board by board, then what two boards promise each other: the order of delivery, matched acknowledges, relays |
| `MCTbfpLink` | instances of `TbfpLink` for TLC |
| `TbfpStream` | the tunnel's byte stream: transmit queue, chunks, byte machine |
| `TbfpStreamProofs` | theorems about `TbfpStream` |
| `MCTbfpStream` | `TbfpStream` for TLC |
| `FrameStream` | lemmas about byte machines that search a lossy stream for frames, whatever the protocol |
| `FlashPages` | what the file system's calls find in the two pages, and the list of flash operations each call makes |
| `FlashFs` | calls, their operations one after another, power failures, restart |
| `KvStore` | the abstract store: an atomic map; `FlashFs` is shown to implement it |
| `FlashFsProofs` | theorems about `FlashFs` |
| `MCFlashFs` | instances of `FlashFs` for TLC |
| `Boot` | bootloader and application from reset to reset, over the store `KvStore` promises |
| `BootProofs` | theorems about `Boot` |
| `MCBoot` | `Boot` for TLC |
| `UartPort` | UART1: interrupt, FIFO, and the RTCM3, NMEA and UBX machines on one stream |
| `UartPortProofs` | theorems about `UartPort` |
| `MCUartPort` | `UartPort` for TLC |
| `ZedF9P` | set-up of the GNSS receiver: messages, tries, nested waits, the tasks that run inside them |
| `ZedF9PProofs` | theorems about `ZedF9P` |
| `MCZedF9P` | `ZedF9P` for TLC |
| `SpiBus` | the SPI driver and the accesses of the drivers that share it |
| `SpiBusProofs` | theorems about `SpiBus` |
| `MCSpiBus` | `SpiBus` for TLC |

### The link: `TbfpNode`, `TbfpLink`

A board is a record with the fields of `ReTxFsm`, of `TbfpProtocol[IF_SX1262]`
and of the SX1262 driver under their own names, the chip (`mode`, the last
command status `cmd`, the frame on `air`, the frame received `rx`) and ghosts:
`verdict` says which result counter the last acknowledged send bumped, `tries`
and `cur` count its transmissions and keep its frame, `ack` says how the last
acknowledge compared with `expected_ser_num` (the code only logs that), and
`delivered` is what reached the application.

Each C function is an operator of the same name.  What the function reads from
outside, a time-out that has run out (`late`), a working SPI (`spi`), a pause
that is over (`due`), is a parameter the action chooses freely.  So all periods
of the tasks and every delay are covered: time is never counted.
`Sx1262Task` is one whole run of `sx1262_process`, `RetxTask` one of
`tbfp_retx_proc`; `ConsoleSend` is `tbfp_send` for `ping` and `chat`;
`ConsoleMute` is `sx1262_mute_command`; `Restart` is a reset; `TxEnd` is the
environment: a frame on air ends and any set of the listening boards hears it.
What the boards are given to send and their users may type is the `load`, which a
behaviour chooses at the start.

Details worth knowing when reading it against the code:

* payload bodies are numbers, one per send, so that a duplicate or a mix-up
  shows; the body of an acknowledge is the serial number it carries;
* `tbfp_make_header` maps a lifetime of 3 or more to 0, as the code does;
* the chip may finish or give up a transmission when SetRx is sent (`keep`),
  since the code does not wait and the data sheet's behaviour is not in the
  repository;
* a fault (`spi` FALSE) hits the transfers that load a frame; other transfers
  only fail as a lost link, `Sx1262LinkLost`, which initialises the chip again;
* `sx1262_init` is taken to succeed and the stored value of `tx_mute` to be its
  default, not muted; a run with the chip stuck in STBY_RC for more polls than
  the driver allows comes to the same initialisation and is not modelled on
  its own.

### The tunnel: `TbfpStream`

`TbfpLink` counts the chunks of the transmit queue; `TbfpStream` looks inside
them.  Frames of `IF_LORA` (RTCM3 corrections, the heartbeat of `lora_process`)
go to the queue byte by byte, `lora_transmit_from_queue` cuts off
`MAX_LORA_PAYLOAD_SIZE` bytes wherever that is, and `tbfp_proc` gives each chunk
that arrives to the byte machine, from where the last one left it; a step reads
one byte, so that a restart of the receiver can fall between two.  One operator per
state of the machine has the name of the C function; `load_len` is the length of
`rx_frame`.

* The link below is what `TbfpLink` shows of it: a chunk arrives once and in
  order, or is lost.  The wait for `is_tbfp_retx_idle` is the wait for the chunk
  before.
* A byte is its frame and its place, `<<n, i>>`; `Value` is the number that the
  machine reads.  So the machine can misread one frame's bytes as another's
  length, as in the code, and the CRC can be perfect: it fits the bytes of one
  whole frame only.  The real one has eight bits.
* Payloads are byte sequences, `Payloads`, and may hold what reads as a preamble
  and a header.
* How much of a frame a full FIFO takes is not in the sources: anything that
  fits.
* The sender does not restart: that its first frame is then refused is the flow
  control's affair, which is in `TbfpLink`.

### The flash file system: `FlashPages`, `FlashFs`, `KvStore`

Flash is counted in cells: the page marker is one, an item header two (id with
its inverse; length with CRC), a file one or more.  A cell is erased, zero, a
value, or `Mixed`: programming only clears bits, so two different values
over each other give neither (for headers, the bitwise AND of two identifiers
is the inverse of the AND of their inverses only when they are equal; for
files, the CRC is trusted to tell).  Every call is a sequence of writes and
erases computed from the pages at its start, as in the code, and `FlashOperation`
does the next; the write is read back and the call ends when it differs.
`PowerFail` cuts an operation at any cell.  A partial erase leaves a prefix erased.
A write over the end of the first page falls on the marker of the second.

`KvStore` is a map `kv`, a request and its result.  A call takes effect at one
moment or not at all; the result says which; nothing else changes a file.
`SetIsAtomic == KV!Spec`, with `kv <- view` (what `mm_get` would return), is the
refinement.

### Boot: `Boot`

The three parameters, the phase of the processor (`off`, the steps of the
bootloader's start, the steps of the console command `la`, the application),
what image is in the application's flash (none, one that hangs, a good one),
and whether the active flash page is `full`.  A set succeeds unless the page
is full, which is what `KvStore` with `FlashFs`'s `HasSpace` allows; any write
may leave the page full, and only the `flash_fs` task (`Maintain`) turns it.
Interrupted sets need no action of their own: a power failure comes before or
after the set, and `SetIsAtomic` is why that is enough.  `launches`, `resets` and
`missed` (the parameters a set of which failed since the counter was last to be
zero) are ghosts.  `StopsOnlyAfterResets` counts resets and not launches: power
failures that each come after `boot_init` has counted and before the jump use
the tries up, and `boot_init` then gives up an application it never launched.

### The receiver's port: `UartPort`

`uart1ReadCallback` is the interrupt, which may come between any two turns of the
loop in `proc_uart1`; a turn gives one byte to the three machines.  As in
`TbfpStream`, a byte is known by its message and place, one operator per state
has the name of the C function, and a check fits the bytes of one whole frame
only.  An operator takes the receive buffer *with* the new byte.

* `SwitchTask` is what the ZED-F9P driver does to `task_data[..].on`; the machine of
  a task that is off gets no bytes and keeps what it has.
* The UBX class and identifier are not looked at by the byte machine; every UBX
  frame here is an acknowledge.
* The RTCM3 length check (1030) passes for every value of its ten bits, so it has
  no branch.
* What the decoded sentences and navigation frames mean is left out; a recognised
  correction goes on in `TbfpStream!SendRtcm3`, an acknowledge in
  `ZedF9P!proc_uart1`.

### The receiver's set-up: `ZedF9P`

`calls` is the C stack: set-ups in progress, the innermost last, each with the
messages it has still to send, the try, `res` of `ubx_wait_ack` and `out_res`.  Only
the innermost runs, `NextPass` being one pass of its loop; all other actions are
tasks and commands that run in the super-loop inside the wait.  `late` counts the
calls whose time is up: an outer wait began earlier and all last equally
long, so they expire from the outside in.

* `NextPass` tests the flag, and the time afterwards overrides it (`TryEnds`): an
  acknowledge that comes in the last pass counts as none.
* `Environment` fixes what surrounds a behaviour: whether answers come in time
  or may come late, and how many losses, runs of the UBX task and commands there are.
* `PollLut` has a poll of class CFG, which the receiver acknowledges like a setting,
  and one of any other class, which it does not.
* `zfb` loads the parameters again, the mode among them, before it looks at the
  coordinates (`zed_f9p_deploy_base`, `deploy_base_invalid`); a base sets the mode it
  was begun with at its end (`SetupEnds`).  So the mode changes under set-ups that wait.
  Outside the modes of a base the coordinates are (0, 0), which is not valid.
* `deploy_base_invalid` is `zfb` that sends nothing: it fails when a parameter is
  missing and returns *true* when the coordinates are not valid.
* `ubx_set_rate` fails at once for a period of 25 ms or less (`Sendable`); the rover's other
  messages are sent all the same.
* Ghosts: `heard`, an acknowledge was parsed since the last try; `doubt`, the
  settings of a set-up for which the acknowledge of another message can have been
  taken, since one was on its way when the setting was last sent or was asked for in the
  setting's own wait, and those a reset inside a wait undid; `none`, the mode was
  `NONE` since the set-up began.
* The tables of settings keep their order; in the runs they have one or two
  settings for some thirty.
* A refusal (NAK) is parsed and ignored, hence `Refuses` only loses a message.

### The bus: `SpiBus`

An access is a sequence of transfers under one chip select, and a transfer the
steps of `spi_wait_write_wait` or `spi_wait_read_wait` (equal but for the
direction), one read or write of a shared variable each, since the interrupt may
come between any two.  `Combine` is how each driver joins the results of its
transfers: the radio ANDs them, `tcan4550_write_tx_buff` keeps the last, and the
chip select macro of the CAN driver overwrites them.  A wait may give up at any
time, and the transfer goes on; the last test of `it_cnt` (`LastTestFails`) and the giving
up (`TxTimeOut`) are two steps, and the interrupt may come between them.
`SPI_transfer` refuses a transaction while another runs, and on an idle bus those it finds
fault with, such as one of no bytes (`TransferRefused`).  Ghosts: `moved`, `clean`, `wrapped`,
`raced` (an interrupt came between the last test and the giving up), `late` (a wait gave
up on a transfer and no access started on an idle bus since) and `refused`
(`SPI_transfer` refused on an idle bus and took nothing since).

## 4. Runs, bounds and what they show

| Run | Instance | Properties |
|---|---|---|
| `link_oneway` | base sends 3 chunks to a rover, 3 tries as in the code, serial numbers modulo 3, 1 SPI fault, 1 restart of the base | `TypeOK`, `InOrderOnce`, `FreshAck`, `GivesUpAfterAllTries`, `IdleMeansSettled` |
| `link_duplex` | 2 chunks one way and 1 the other, or 2 console commands of `ping`, `chat` with and without acknowledge, `mute`; 2 tries | `InOrderOnce`, `MatchedAckMeansDelivered`, `GivesUpAfterAllTries` |
| `link_live` | 2 chunks and a ping, or a chunk and 2 mute commands, or a chat line with lifetime 2; fair tasks, 2 tries | `RelayedAtMostLifetimeTimes`, `Settles`, `QueueDrains`, `FallsSilent` |
| `stream` | 3 frames with payloads of 2 or 5 bytes, a preamble in each, chunks of 5, payload limit 6, 1 restart of the receiver | `TypeOK`, `Resynchronises`, `NothingStays` |
| `fs_atomic` | 2 identifiers, 2 files, pages of two items, 2 power failures | `TypeOK`, `Fits`, `SetIsAtomic`, `StaysFormatted`, `OnlyActivePageWritten` |
| `boot` | `APP_LAYNCH_TRY` 5 as in the code, 8 power failures | `TypeOK`, `LaunchesBounded`, `StopsOnlyAfterResets`, `HangingAppIsStoppedUnlessFull` |
| `uart` | 3 messages, each RTCM3, UBX or NMEA, with each other's start bytes inside; a FIFO of 1 byte; 1 overrun and 1 switch of a task, or 2 switches | `TypeOK`, `CorrectionFound`, `UbxFrameFound`, `SentenceFound` |
| `ubx` | tables of 1 or 2 settings and the reset, 2 tries, 6 environments with up to 2 losses, 2 polls, 2 commands | `TypeOK`, `HeardSinceSent`, `SuccessMeansInForce`, `RoverConfirmedOnlyUnderNone`, `SetupsReturn` |
| `spi` | accesses of 1, 2 and 4 transfers by two drivers and the console, a counter modulo 5 | `TypeOK`, `TrueMeansMoved`, `UnderOwnSelect`, `DoneFlagComesBack`, `MovedIsReported`, `AccessesReturn` |
| `v_*` | see section 7 | one each |

Link.

* `InOrderOnce`: what the application gets ascends strictly.  Three chunks with
  serial numbers modulo 3 wrap, so the branch that refuses a smaller number is
  exercised.  It holds for two boards whose receiver does not restart: a
  restart of the receiver sets `prev_s_num` to 0 and lets a retransmission in
  again, so the run lets only the base restart.
* `MatchedAckMeansDelivered`: when the acknowledge that ended a wait carried
  `expected_ser_num`, the frame did reach the peer's application.  It is the
  property that joins the machines of both boards.  It fails when serial
  numbers wrap (a frame with a wrapped number is acknowledged but refused), so
  it is checked with a modulus the behaviours do not reach, 16.  That an
  acknowledge with a *different* number ends the wait too is what the code does;
  nothing promises otherwise, so no property is claimed for that case.
* All the link's invariants are proved too (section 6).
* `Settles`, `QueueDrains`, `FallsSilent`: see section 5.
* `RelayedAtMostLifetimeTimes`: two boards hear a line of lifetime 2, and nothing
  else to send (`LoneLine`), at most three times between them.  Flow control is
  not the reason: `tbfp_proc_full` relays before flow control is asked, so
  every duplicate of the line is relayed anew, under a new serial number.  The
  reason is that one `tx_frame` holds line, relay and acknowledge: a relay is never
  retransmitted, since the acknowledge behind it overwrites it, and when a relay is
  back at the speaker the line it answers is no longer in `tx_frame` either.
  With another acknowledged frame under way the machine would retransmit whatever
  then is in `tx_frame`, a relay included, and the bound is not claimed.

Two tries instead of three in `link_duplex` and `link_live` keep the state
space small; with two there are already a first, a middle and a last state of
`retx_cnt`, and `link_oneway` has three.

Stream.  Payloads are `<<1, 0>>` and `<<165, 0, 1, 0, 3>>`: the second reads as a
preamble with a header whose length may be plausible, so a machine that lost a
frame's start takes it for one.  Frames of 9 and 12 bytes and chunks of 5 put the
cut into header, payload and CRC.  Three frames are a broken one, the one that
the machine may swallow, and the one that must be found.

* `Resynchronises`: a frame that arrived whole is found, unless a stray preamble,
  of a torn frame or within a payload, came less than the longest frame before
  it.  With the real limits one torn frame can cost up to about 1 kB of following
  frames, and a stream that keeps putting stray preambles within that distance
  may cost more.
* `TypeOK` here says that a misread length never takes the machine out of
  `rx_frame`.
* `NothingStays`: every byte leaves the queue.

UART.  `CorrectionFound`, `UbxFrameFound` and `SentenceFound` say the same of the
three machines: a stray start byte hides a frame only within the longest frame
of its protocol.  The correction of the run holds a dollar sign, both UBX sync
bytes and a length, and its last byte is a first sync byte; the UBX frame holds a
preamble of RTCM3; the real lengths are scaled down (a length field modulo 8, a
UBX buffer of 10, a sentence of 12) so that three messages are longer than a longest
frame of any protocol and the machines come back within the behaviour.  A FIFO
of one byte lets an overrun hit any byte; a longer one only delays the loop.

UBX.  The environments are: answers in time with two losses; with a loss and two
polls, of which the second is acknowledged; with a loss, a poll and a command in the
set-up; with two commands, one of them perhaps in the other's wait; answers that may be
late with a loss and two polls; and with a command.

* `HeardSinceSent`: whatever sends a message clears the flag for all nested waits,
  so no wait counts an acknowledge parsed before its own message was last sent.
  That the acknowledge *belongs* to the message is not promised: a late
  acknowledge of the message before, or one of a poll or of a nested set-up, counts.
* `SuccessMeansInForce` is what then remains of a reported success: every setting is in
  force in the receiver except those in `doubt`.  It is claimed with polls, nested
  set-ups and late answers going on; a poll that is acknowledged puts in doubt only the
  setting in whose wait it was sent, or with whose message it was on its way.  Not claimed is what the
  code does not do: a base with invalid coordinates reports success with nothing sent.
* `RoverConfirmedOnlyUnderNone`: a rover set-up waits for acknowledges with the parser
  switched off; only the ZED-F9P task, and only in mode NONE, switches it on again.
  Where the mode is not NONE at any moment of the set-up each message is sent all its
  times and the set-up reports failure.  The mode may become NONE in its waits, by a
  `zfb` that loads it.
* `SetupsReturn`: waits, nested ones included, end.

SPI.  Two drivers with a select line each and the console without; accesses
of one, two and four transfers; five values of `it_cnt` wrap within two accesses.

* `TrueMeansMoved` starts from an idle bus: an access that starts while a late
  transfer runs may take that one's interrupt for its own, and so on for each
  following transfer of the same access.  It is claimed for the radio and the
  console, whose results are the transfers'.
* `UnderOwnSelect`: while a transfer runs that a wait gave up on, bytes do move under
  another select line; this ends with the first access that starts on an idle bus.
* `DoneFlagComesBack`: a transaction refused on an idle bus leaves `it_done` false, and
  every wait for it lasts its whole bound, until a transfer is taken; nothing else
  leaves the flag false.
* `MovedIsReported`: a transfer that did end is reported as failed at the wrap of the
  counter, or when its interrupt came after the last test of it, and in no other case.

Flash.  Two identifiers, so that a set of one can disturb the other; one is the
reboot counter that every start writes.  Items of four cells and pages of nine
give two items per page, hence a full page, a turn, and a set without room.  Two
power failures: one can leave a torn item or two active pages and the next can
strike while that is being repaired.  The two files have equal length and are
symmetric.  With files of any length the store is *not* atomic: `v_short`.  `Fits` says
what is needed: where `HasSpace` lets `mm_set` begin, the room holds the header too and
lies where `mm_get_next` looks.  The code does not see to it; here the lengths do, since
items and pages are whole numbers of four cells.  `OnlyActivePageWritten` and
`SetIsAtomic` hold under that condition and only there.  **The firmware does not meet it**: its
files of 1, 2, 4 and 8 bytes (`param_ids.c`) make items of 8, 9, 11 and 15 bytes, so a page
can come to have room for a file and not for its header, and `mm_set` then writes over the end
of the page, in page 1 onto the marker of page 2.  `v_short` shows the other half of the hazard, an
item that no scan finds; the write over the end has no run of its own.

Boot.  Six launches lead to giving up; eight resets at arbitrary moments are more
than that, so a launch sequence can be cut at every step and again in the next.

Deadlock is checked in every run but `ubx`, where receiver, user and link may all
come to rest, and `uart`, where the receiver stops after its last message.  None
occurs.

## 5. Fairness

`TbfpLink!Fairness`: weak fairness of the SX1262 task without a hang, of the
retransmit task with its time-out run out, and of the end of a frame on air, per
board.  The super-loop calls every task for ever and time passes, a transmitted
frame ends because the chip says so.  Nothing is assumed of reception (every
frame may be lost), of the console, or of faults.  With `tx_mute` the machine waits in
`IDLE` with tries left for as long as the operator keeps it so; `Settles`,
`QueueDrains` and `FallsSilent` therefore ask that the transmitter does not stay
muted (`Unmuted`), and cover a mute that ends at any moment.

`TbfpStream!FairSpec`: the LoRa task runs (a heartbeat every five seconds), a
chunk leaves the queue when the conditions for it hold, and an arrived chunk is
processed.  Nothing is assumed of arrival or of RTCM3.

`Boot!FairSpec`: the processor executes (power on, the steps of the bootloader),
the watchdog resets a hanging application, and the flash task turns a full page
wherever tasks run.  Nothing is assumed of the console.

`ZedF9P!Fairness`: the waits go on, time passes, the receiver takes what it is sent,
and every pass of a super-loop calls the UART task.  That last is strong fairness:
the task is switched on and off with the calls nested around it.  Nothing is assumed of
losses, polls or commands.

`SpiBus!FairSpec`: the task that makes an access runs.  Nothing is assumed of the
interrupt: every wait in the driver has a bound.

`FlashFs` has no liveness property: calls return because they are finite
sequences, and that a set *succeeds* in the end is not true of the code (see the
hazards on torn headers and on pages with a little room left).

## 6. Proofs

`TbfpLinkProofs` proves, for any finite set of boards, any `TBFP_RETX_TRY_MAX`
of at least 1, any serial number modulus above 1, any queues, console commands,
faults and restarts:

| Theorem | Statement |
|---|---|
| `InductiveInvariant` | `Spec => []IInv` |
| `TypeCorrect` | `Spec => []TypeOK` |
| `FreshAckHolds` | `Spec => []FreshAck` |
| `GivesUpAfterAllTriesHolds` | `Spec => []GivesUpAfterAllTries` |
| `IdleMeansSettledHolds` | `Spec => []IdleMeansSettled` |

The assumptions are those of `TbfpNode` and `TbfpLink` (`TryMaxAssumption`,
`SnModAssumption`, `BoardsAssumption`, `LoadsAssumption`, `BudgetAssumption`).

None of the three properties is inductive.  A frame is given up when `retx_cnt`
is 0, and that all tries were used then follows only if each try took exactly
one from `retx_cnt`, across SPI failures that start nothing, time-outs, and
frames that replace one another.  `IInv` says it of every board:

* `Accounted`: while the verdict is pending, `tries + retx_cnt` is
  `TBFP_RETX_TRY_MAX`, and `tries` never exceeds it; a settled frame that was not
  acknowledged has used all; the machine is out of `IDLE` or has tries left only
  while the verdict is pending;
* `AckedFresh`: in `WAIT_ACK` with `RX_ACK` latched, the acknowledge came after
  the state was entered, and so it did for every acknowledged verdict.

`Sound` is the two with the board's type.  Every handler of `TbfpNode` is total,
so the proof has one lemma per handler (`StartTxSound`, `RetxStartSound`,
`RetxIdleSound`, `RetxWaitTxDoneSound`, `RetxWaitAckSound`, ... up to
`sx1262_process`) that it maps a sound board to a sound board.
`RetxSameSound` disposes of the handlers that do not touch the machine.  The step lemma
then has one case per action, and in each only the board that acts (for `TxEnd`,
the boards that hear) has to be looked at.

The rest of the module is about two boards.  Nothing is delivered twice or out of
order; an acknowledge that matches was earned; a relayed line dies out:

| Theorem | Statement |
|---|---|
| `InOrderOnceHolds` | `Boards = {b, o} /\ NoRelay /\ ReceiversStay` imply `Spec => []InOrderOnce` |
| `MatchedAckOneWay` | `Boards = {b, o}`, `b \notin Restarting` imply `Spec /\ []NoWrap(b) => []Matched(b)` |
| `MatchedAckHolds` | `Boards = {b, o}`, `Restarting = {}` imply `Spec /\ [](NoWrap(b) /\ NoWrap(o)) => []MatchedAckMeansDelivered` |
| `RelayedAtMostHolds` | `Boards = {b, o}`, `Restarting = {}` imply `Spec => []RelayedAtMostLifetimeTimes` |

* `InOrderOnceHolds`.  The hypotheses are those under which the code keeps the
  promise: no line that asks to be relayed (a relay puts the other board's payload
  into `tx_frame`); no payload for a board that may restart (`prev_s_num` is 0 again
  and a retransmission passes).  `OrderInv` adds to `IInv` that for each direction
  there is a `Chain`: `tx_frame`, the frame on air and the frame at the receiver are
  the t-th, a-th and r-th frame the sender composed, d of which the receiver has
  taken, and `d <= r <= a <= t`; an older place holds an older payload, or the
  same frame; and what the receiver's application knows is older than all of them,
  except that the d-th frame may come again, with the serial number that is in
  `prev_s_num`.  No serial number is counted, so the wrap does not matter, and
  neither does the sender's restart: both only make a frame be refused.
* `MatchedAckOneWay`, `MatchedAckHolds`.  `NoWrap(b)` is
  `node[b].s_num + 4 < SN_MOD`: one turn of the SX1262 task composes at most four
  frames.  It is needed: the frame numbered 0 after the numbers come round is
  acknowledged and refused.  `Line` says that the newest serial number is that of
  `tx_frame` alone, wherever else a frame of the sender is; `Answer` that an
  acknowledge of the newest number, wherever it is, answers the frame given last to
  `tbfp_retx_start`, which the receiver then has delivered; `Way` joins them with the
  sender's machine.  The receiver may restart: it can only refuse less.
* `RelayedAtMostHolds`.  `LoneInv` says that the line is in one of three stages:
  not yet spoken; spoken (`Spoken`: the speaker's machine retransmits the line, the
  hearer refuses what it has heard, and no relay is in `tx_frame` when the machine
  transmits again); returned (`Returned`: the speaker has taken a relay, so it
  retransmits acknowledges, and one relay of lifetime 0 is left).  Serial numbers
  may come round.

`BootProofs` proves, for any `APP_LAYNCH_TRY` and any number of resets at any
moment:

| Theorem | Statement |
|---|---|
| `BootInvariant` | `Spec => []IInv` |
| `BootTypeCorrect` | `Spec => []TypeOK` |
| `LaunchesBoundedHolds` | `Spec => []LaunchesBounded` |
| `StopsOnlyAfterResetsHolds` | `Spec => StopsOnlyAfterResets` |

Both properties compare a ghost with the stored counter, which is not where the
launches happen: the counter is written before the launch, in the next start
after a reset, or by the console.  `IInv` therefore says, unless the counter could
not be written: `Fresh` (a board that never counted has launched nothing) and
`Excused` (the counter is at most the resets, and one less between reset and
count); and, unless the counter or the command could not be written, `Counted`
(the counter is at least the launches, and one more between count and launch).
`SetStores` is what both rest on: a set that is not missed has stored its value.

`SpiBusProofs` proves, for any width of the counter and any number of transfers
per access:

| Theorem | Statement |
|---|---|
| `SpiTypeCorrect` | `Spec => []TypeOK` |
| `TrueMeansMovedHolds` | `Spec => []TrueMeansMoved` |
| `UnderOwnSelectHolds` | `Spec => []UnderOwnSelect` |
| `DoneFlagComesBackHolds` | `Spec => []DoneFlagComesBack` |
| `MovedIsReportedHolds` | `Spec => []MovedIsReported` |

The invariant relates the counter read at the start of a call to the counter
now: in a clean access the two are equal until the call's own transfer ends,
unless the counter wrapped, and a running transfer is the call's own.  For
`DoneFlagComesBack` it says that the flag is true on an idle bus outside a call that has
cleared it, unless the last transaction was refused on an idle bus; for `MovedIsReported`
that a call which gives up after its transfer ended has wrapped or `raced`.

`ZedF9PProofs` proves, for any tables, tries, environments and depth of nesting:

| Theorem | Statement |
|---|---|
| `TypesHold` | `Spec => []TypeOK` |
| `HeardSinceSentHolds` | `Spec => []HeardSinceSent` |
| `RoverNeverConfirmed` | `Spec => []RoverConfirmedOnlyUnderNone` |
| `SuccessIsInForce` | `Spec => []SuccessMeansInForce` |

from `NamesAssumption` and `TablesAssumption`.

* `HeardSinceSentHolds`: a set flag means that every call in progress heard an
  acknowledge since its last try.
* `TypesHold` needs `AllAtWork`: what a call has left is the end of what it began
  with, so a reset is only ever the first message, and a call in progress has a
  message left.
* `RoverNeverConfirmed` needs `RoverUnheard`: as long as a rover set-up has not seen the
  mode `NONE`, the parser is off, the flag is clear and no try of it is acknowledged; and
  `NoneSeen`: while the mode is `NONE` every set-up in progress has seen it.  It
  is why `RoverCfgLut` must not be empty: a failed reset alone is not minded.
* `SuccessIsInForce` needs `ForceInv`, which follows a setting from its message to the
  report.  `TopAlone`: of a message not in doubt nothing but itself and its answer is
  under way, so the flag can have been set by its answer only.  `AnswersHold`: what was
  answered is in force, unless a reset was answered after it.  `SettledHold`: what a
  call has settled is in force or in doubt.  `ResetAhead`: while a reset is on its way,
  everything settled is in doubt, so that it undoes nothing that counts.  `Nested`: a
  call inside another left the other's message in doubt, and one that began with a
  reset all its messages.

`FrameStream` is the common part of the proofs about byte machines: a stream of
frames with bytes lost anywhere, and a machine that keeps a byte or lets go of all it
has (`Moves`).  `FrameInv` says of its frame in progress that it is the end of
what came, shorter than a longest frame and, unless it is the machine's own frame
on its way, begun by a stray start byte; and that each own frame that came whole
was recognised or is within a longest frame of a stray start.  `InOrder` says that the
bytes that came and those on their way ascend, so no byte comes twice.  `FedStep`
shows that a byte given to a machine keeps both, whatever the protocol.

| Module | Theorem | Statement |
|---|---|---|
| `UartPortProofs` | `TypesHold` | `Spec => []TypeOK` |
| | `CorrectionsAreFound` | `Spec => []CorrectionFound` |
| | `UbxFramesAreFound` | `Spec => []UbxFrameFound` |
| | `SentencesAreFound` | `Spec => []SentenceFound` |
| `TbfpStreamProofs` | `TypesHold` | `Spec => []TypeOK` |
| | `FramesAreFound` | `Spec => []Resynchronises` |

They hold for any messages or payloads that a frame can carry, any number of them, any
sizes of queue, chunk and frame (`SizesAssumption`; `PayloadsAssumption`,
`SizeAssumption`, `NumbersAssumption`).  Each module shows what `FrameStream` asks of its
machine, one state after the other (`Rtcm3Works`, `NmeaWorks`, `UbxWorks`,
`TbfpWorks`): how much of a frame a machine holds in each state (`Shape`), and that it
reads the length of an own frame right, which is why it waits for the check with
exactly the last byte.  `UartInv` and `StreamInv` put this together with the
bytes on their way: the receive FIFO behind the byte at `at`; the chunk, then the
transmit FIFO.  That the buffers hold is then the bound in `FrameInv`; for UBX that bound
is the longest frame the machine accepts, not its buffer (section 2).

`FlashFsProofs` proves, for any files, identifiers and page length of at least an
item and a marker, with power failing at any cell, any number of times:

| Theorem | Statement |
|---|---|
| `FlashTypeCorrect` | `Spec => []TypeOK` |
| `StaysFormattedHolds` | `Spec => StaysFormatted` |
| `OnlyActivePageWrittenHolds` | `Zeroable` implies `Spec /\ []Fits => OnlyActivePageWritten` |
| `SetIsAtomicHolds` | `Zeroable` implies `Spec /\ []Fits => SetIsAtomic` |

The hypotheses are those under which the code keeps the promise, and it checks none of
them.  `Zeroable`: `mm_flash_zero` takes every item, header included (a duplicate
it refuses is found again by every scan).  `Fits`: see section 4; without it
`OnlyActivePageWritten` and `SetIsAtomic` are false (section 7, `v_short`), and the firmware's
lengths do not ensure it: what is proved is that this is all that is missing.  From
`NoCallAssumption`: the value for no call is not a call.

For the first two the invariant is `TypeOK /\ Marked`.  `Marked` knows what is left of a call: nothing;
writes that stay behind the marker of the active page (`Calling`); the rest of
`mm_turn_page` (`Turning`), whose new marker is written and verified before the old page
is made passive; or the rest of `mm_flash_format` (`Formatting`), which begins only
where no page is active.  What makes it a proof is `Items`, a recursive function whose
value nothing but induction knows.  The library's induction theorems take an
operator, so the lemmas at the head of the module do without: a set of
counterexamples to a statement about offsets has a least member (`Least`, from the
well-foundedness of `<`), and there is none.  So `ItemsFunction` (the recursion
ends), `ItemsInRow` (what it finds are items, none inside another) and
`CopyAddresses` (a copy lies no farther behind its marker than the original behind
its own, so all copies fit).

For the next two it is `TypeOK /\ Working`: the pages are `Sound` and what is left of
the call in progress fits them.

* `Sound`: `Fenced`, no item of the first page is read on into the second; and
  `Headed`, before the first cell of any file of the active page there is a header or a torn
  one, so what a power failure leaves is never taken for an item.
* `Serving`: what is left of `mm_set` or `mm_invalidate`.  It is `Adding` (duplicates to
  be zeroed, header, file, old items), `Filling` (the header is written), `Dropping`
  (duplicates, then the item in force) or `Updated` (older items only).  `UpdateStep` shows
  that the file changes with the last cell of the file in `Filling` and with the first zero
  of the item in force in `Dropping`, never else, and never for another identifier.
* `Tidying`: what is left of `mm_get`'s duplicates, of `mm_turn_page` (`TurningNow`: erase,
  `Copying`, `Unmarking`) or of `mm_flash_format`.  `TidyingStep` shows that no `mm_get`
  sees any of it: the old page shows everything until the copy does (`CopiedItem`).

Each of these lemmas is about an operation done up to any cell, so a power failure is no
case of its own.  `WorkingInductive` then takes one action after the other: it keeps
`Working` and is `Begin`, `TakeEffect`, `Return`, `PowerFail` of `KvStore`, or a stutter.

Model-checked only:

* liveness (`Settles`, `QueueDrains`, `FallsSilent`, `NothingStays`,
  `HangingAppIsStoppedUnlessFull`, `SetupsReturn`, `AccessesReturn`), which is
  outside what TLAPS proves.

## 7. Where code and documents disagree

| Run | What it shows |
|---|---|
| `v_txdone` | `docs/FsmTbfpTxAck/tx_ack_fsm.dot` ignores TxDone in Idle.  The code latches it: a ping's TX_DONE takes the next acknowledged frame to `WAIT_ACK` while it is still on air. |
| `v_short` | The comment on `mm_set` says it is atomic.  An item that starts in the last bytes of a page is written and verified, the old item is zeroed, `mm_set` returns true, and no scan finds either. |
| `v_hang` | The comment on `boot_init` says hang-on protection.  With a full flash page the launch counter cannot be written; the bootloader jumps before its tasks run and the hanging application never runs them, so nothing ever makes room, and the launches go on for ever. |

Read in the code while modelling, without a run of their own:

* The same diagram ignores TxFrame in WaitAck and WaitTxDone (`tx_ack_fsm.dot:17`,
  `:21`).  `tbfp_retx_start` does not look at the state: a new acknowledged frame
  replaces the one in progress, which is never counted.  `link_duplex` covers what
  follows from it.
* `nmea_protocol.c:1174` says that coordinates older than 3 seconds are erased; the
  time-outs in `nmea_constants.h:12` and `:13` are 6 and 12 seconds in
  *microseconds* and are compared with milliseconds, which makes them thousand times
  longer.
* `mm_set` says that it ensures "enough space within selected page to fit new file"
  (`flash_fs.c:421`) and compares the room with the file without its header (section 4).
* `zed_f9p_deploy_base` returns true when the coordinates are not valid, and the
  command `zfb` then logs `RtkBaseStarted`.
* In `tcan4550_mram_fifo0_cfg` and `_fifo1_cfg` (`tcan4550_drv.c:515`, `:534`) a
  parenthesis is misplaced: the size of the whole FIFO, not of an element,
  is looked up in the table of element sizes, and the areas of the message RAM overlap.
* `tcan4550_get_fifo_cnt` tests for FIFO 0 twice (`:1459`, `:1465`) and never counts
  FIFO 1.

## 8. What is not modelled

* The bootloader's `main`, which calls `boot_try_app` after `sw_init`, is not in
  the repository; the order is taken from how `boot_init` and `boot_try_app`
  depend on each other.
* Deliberate destruction of the store (`mm_flash_erase` and a format by
  console command), the statistics of `mm_cnt_files`, and the limit of
  `mm_flash_zero` at run time (`MAX_FLASH_ZERO_SIZE` is in `FlashPages`; the runs
  set it above their items, since the firmware keeps no longer file).
* The byte FIFO beside the acknowledge machine: in `TbfpLink` the queue is a
  number of chunks, in `TbfpStream` the link below is abstract.
* The failure of `sx1262_init`, after which the LoRa task is switched off for
  good.
* The statistics in the flow control (`con_flow` and its truncation).
* The transmit side of the UARTs and the forwarding between them; UART0, which
  feeds the command line.
* The contents of NMEA sentences and UBX navigation frames, and with them the position
  mode and the age of coordinates.
* The CAN transceiver beyond its SPI accesses: buffers, FIFOs and modes are in the
  chip, and what the driver makes of them cannot be judged without a model of the
  chip that the repository does not hold.
* What else a `zfb` inside another set-up's wait loads anew: the constellations that decide
  which settings of a base's table are sent, and the measurement rate; each set-up
  keeps the table it began with.
* The command line: its commands are actions where they change state; line
  editing, history and output are not modelled.
* Bluetooth and the vendor's example applications (`project_zero*`, `cc26x2_ble*`, the
  roles under `bluetooth/`) are third-party code that the harvester does not
  change.
* Sensors, power, LED, board support, GNSS and calendar arithmetic, exercises and
  host tools: register accesses and pure functions without control state.

## 9. Plan

Order: the link first, since every other part serves it and its state machines
meet there; then the store that both programs rest on; then boot; then the
receiver's port and set-up, and the bus below the radio.  All modules of section 3
are done.  Left, in order:

1. An abstract link that promises what `InOrderOnce` says, `TbfpLink` shown to implement
   it, and `TbfpStream` over it with the sender's restart.
