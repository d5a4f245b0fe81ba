# Tetris on FPGA: TLA+ specifications, model checking and proofs

The repository holds a Tetris game for a DE10-Lite (MAX 10) board: SystemVerilog
for the game, the picture and the memory, and C for the USB keyboard, which runs on
a Nios II soft processor in the same FPGA, on Intel's board support package. This
directory holds TLA+ modules that model those parts, TLC configurations that check
them, and proofs about them that TLAPS checks. `PROJECT.json` maps every definition to
the source lines it models and lists runs, mutants, findings, hazards and theorems.

All file names below without a directory are under `src/pong/`; the C files are under
`src/pong/software/usb_kb/`, those named `alt_...` and `altera_...` under
`src/pong/software/usb_kb_bsp/`. The report, `src/Tetris-on-FPGA_Report.pdf`, describes a
later version of the game than the sources hold.

## 1. Inventory

    console <--cable--> JTAG UART <--+
                                     |  driver, file descriptors, alarms
    MAX3421E --SPI--> USB host (Nios II, C) --keycode PIO--> game engine
                                                                  ^
    50 MHz ----> picture timing -- vs, inverted, is frame_clk ----+
    keys ------> VRAM test machine --FIFOs--> SDRAM controller --pins--> SDRAM chip

| Component | State it keeps | Operations | Module |
|---|---|---|---|
| Game engine, `Game_Logic.sv` | divider `frame_count`, `move_clk`; columns and rows of the four squares; motions; `piece_count`; `Board` | frame edge (divider, MoveX_Block, and MoveY_Block on the edge of `move_clk`), key sampling, Reset | `GameLogic` |
| Picture timing, `VGA_controller.sv` | halved clock, two counters, two sync registers | clock edge, Reset | `VgaController` |
| SDRAM controller, `v/Sdram_Control/` | port machine, refresh and power-up timers, command arbiter, pin sequencer, two FIFOs | one clock; push, pop, load of an address | `SdramController` |
| VRAM test machine, `tetris.sv` | state, pause counter, request and data registers | 50 MHz edge, Reset | `TetrisVram` |
| USB host, `main.c`, `MAX3421E.c`, `transfer.c`, `HID.c` | task state, delay, device table, addresses, `main`'s variables, key code register | the steps of the main loop: chip set-up, interrupt poll, bus probe, acknowledgement, USB task, driver choice, keyboard poll | `UsbHost` |
| USB transfers, `transfer.c` | toggles, NAK and retry counters | control and IN transfers, transaction by transaction | `UsbTransfer` |
| HID class, `HID.c` | `bigbuf`, the entry of the device table, toggle and packet size of the interrupt endpoint | probes, polls | `HidDriver` |
| Register access, `MAX3421E.c`, `altera_avalon_spi.c` | byte counts and credits; the SPI core's registers | read and write of registers and FIFOs | `SpiMaster` |
| Console, `altera_avalon_jtag_uart_*.c` | two rings, interrupt enables, `host_inactive` | write, read, close, ioctl; interrupt, alarm | `JtagUart` |
| System clock, `alt_tick.c`, `alt_alarm_start.c` | tick counter, list of alarms | start, stop, tick | `AlarmList` |
| File descriptors, `alt_open.c` and others | descriptor table, `alt_max_fd` | open, close, locks, fcntl, redirection at boot | `FileTable` |
| Top level, `lab62.sv` | none | wiring | in the modules of the parts |

**How they interact.** `lab62.sv` feeds the inverted vertical sync to the game as
`frame_clk`; the game's frame is thus an event of the picture timing. The USB program
writes the key code to a PIO register; nothing handshakes, the last value stays. The game
would sample it whenever its `Clk` rises, but `lab62.sv:231` leaves that port open, so that only
the edge of Reset samples it. `tetris.sv` and the controller share two
dual-clock FIFOs and two load inputs; word counts cross the clock domains late.
The USB program talks to its chip register by register, over SPI; the chip and the
device act between any two of its steps, and the chip's interrupt pin is polled from the main
loop. The C program's only interrupts are those of the timer, which runs the alarms, and of
the console; both touch what the program's `printf` calls use, and nothing else.

**What is hard here, and what makes each part correct.**

* *Game engine.* Registers clocked by registers (`move_clk`), a motion sampled in one
  clock domain and used in another, Reset branches that depend on an edge that cannot
  come, and, with `Clk` open, a motion that is added at every frame until the next Reset: the
  piece walks through the walls, off the board and on again. Correct, all the same: piles
  have no holes, landed squares stay, pieces keep landing once Reset has been pressed; the
  whole is the column game of `ColumnDrop`.
* *Picture timing.* Pulses registered one clock ahead of the counters they belong to.
  Correct: it is one sweep with fixed pulses (`Raster`), and the frame edge falls
  into the blanking.
* *SDRAM controller.* Three machines with their own counters share the pins: the port
  machine forces a precharge at a fixed distance from an acknowledgement while the
  arbiter may start a refresh; addresses advance while new ones are loaded, also in
  the middle of an access. Correct: rows are opened and closed in turn and refreshes keep
  out of accesses, refreshes are not starved, the power-up sequence leaves every bank
  precharged (it does not) and the mode set, and to its user the controller is two queues before
  a memory (`VramPort`).
* *VRAM test machine.* It waits for exact FIFO counts that reach it late, while the
  controller reads ahead. Correct: what it wrote is in memory when it goes on, what it
  read is what it asked for, every sequence ends.
* *USB host.* Devices come and go between any two steps; interrupt bits are read,
  used and cleared in different steps; the task state is advanced by `++`; the device
  table outlives the device; `main` holds a copy of the device's class. Correct: no
  traffic during a bus reset, the right speed, the right driver, key codes from
  keyboards only, every enumeration ends.
* *Transfers and class probes.* Packets, handshakes and answers are lost; two retry
  counters share a loop; the toggle is saved with a success only; a probe that
  fails leaves its entry half filled. Correct: reads are intact, reports come once and in
  order, the device polled is the one probed, every transfer ends (but for one deadline
  that the clock does not reach).
* *Register access.* One access is several SPI commands whose flags must keep the
  chip selected. Correct: the chip sees one frame, replies are stored where they belong.
* *Console.* Interrupt routine and calls share two rings and the interrupt
  enables without a lock; a call must return when the host is gone. Correct: bytes in order
  and none lost, no interrupt left off that has work to do, calls return, bytes move while the host
  looks in.
* *Alarms.* Counter and times wrap. Correct: every alarm fires at its tick
  (`AlarmClock`).
* *File descriptors.* Locks and opens search part of a table; a failing open has
  already entered its device. Correct: a lock is granted to a sole user (it is not) and keeps others
  out, failures leave no trace.

## 2. Modules

An arrow is read "is extended by".

    GameLogic <- GameLogicRefinement (instantiates ColumnDrop) <- GameLogicProofs
    VgaController (instantiates Raster) <- VgaProofs
    SdramChip <- SdramController (instantiates VramPort) <- TetrisVram <- SdramProofs
    UsbHost <- UsbHostProofs
    UsbTransfer <- HidDriver <- HidProofs
    AlarmList (instantiates AlarmClock), SpiMaster <- BspProofs
    JtagUart <- JtagProofs
    FileTable <- FileProofs
    GameLogicRefinement, VgaController, SpiMaster, AlarmList, FileTable <- MCParts

Definitions whose comment begins with `Mutant of` (or ends with `mutant: ...`) are plausible bugs of
the code; no specification uses them. They show that the property they are listed
with in `PROJECT.json` would notice.

### MCParts

The five parts that share no variable with another are model-checked together, one at a
time: `part`, chosen at the start, is the one that moves, with its own fairness.
No step of one part reads what another keeps, so each behaves as it does alone, and a property over the
variables of one part holds in the run if and only if it holds in that part's specification. The one connection
there is, frame clock to game, is covered by frame edges at any time in the game and
`FramesKeepComing` in the picture.

### GameLogic

One action per clock edge. `FrameHeld`, `FrameCounted`, `FrameFall` and `FrameLand` are
the four things an edge of `frame_clk` does; `MoveY_Block` runs on `move_clk`, a
register the divider writes on the same edge, so its step is part of the frame's.
It reads columns that `MoveX_Block` writes in that very step; the hardware may let it
see the old or the new ones, and `SeenX` is that choice. The key held at the edge of Reset is
any of A, D and another.

* `Clk` is open, as in `lab62.sv:231`, the engine's only instance. `Input_Block` is then
  clocked by the edge of Reset alone (`PressReset`): before the first press nothing falls, and after
  it the bar walks as that press has told it, at every frame.
* The column registers wrap at their width (`XMod`); a column from `BoardBits` on is beyond the rows
  of `Board`: a write there is lost, and a read brings anything (`Beyond`), so a piece there may fall
  or land at any row.
* The four column registers are all there, though they always agree: that they do is
  part of the invariant.
* A Reset branch of the code that later assignments override, or whose edge cannot
  come while Reset is high, has no action of its own: the model has the effect.
* `color` and `piece_rotation` are left out; nothing reads the second.

`ColumnDrop` is the game seen from outside: a vertical bar that walks round the range of its
column register, and for each column of the board the row its pile starts at. The walls count only
when the bar is told where to go, at a press. `GameLogicRefinement` maps registers and `Board` to it.

### VgaController, Raster

Every always block; the sizes are constants, with an assumption that says what the
source's own (800 by 525, pulses and porches as in the file) satisfy. `Raster` is a single
position and two levels that are functions of it; the mapping is
`pos <- vc * (hpixels + 1) + hc`. Where the vertical pulse lies is a parameter of `Raster`, given the
place the code makes of it; what the comment says of that place is `PulseOnItsLines`.

### SdramChip, SdramController, VramPort

One action, `Tick`, is one 100 MHz clock of all of `Sdram_Control.v`,
`control_interface.v` and `command.v`: the records `ci`, `cm` and `ctl` are the
registers of the three, and `ControlInterface`, `Command`, `Controller` give their
next values. The parameters are the compiled ones: page mode, bursts of one word,
CAS latency 3. The host's actions push, pop and load, each at any time after power-up: a load may
come while an access is under way, which the code does not hinder either, and clears
the FIFO of its side. `SdramChip` is the chip, modelled
from the commands and latencies the controller uses. Of a bank that was never precharged nothing
is known (`Unknown`). `RowsInTurn` is about rows that accesses open and close, and says nothing of such a bank;
that there is none when refreshes and the mode command come is `PrechargesAll`, and it fails.

The side of a FIFO that sees the
other's count late sees it `FifoLag` clocks late: a line holds, for each i up to `FifoLag`, how
many events the last i clocks have brought, and what the other side does not know of
(`Pending`) is its last entry.

`VramPort` is a memory between a queue of words to write and a queue of words read ahead, each side
with the address it goes on at and the one last loaded, and one access at a time. An access
keeps the address it began with whatever is loaded meanwhile; a write whose
queue a load has emptied writes the word before once more; an address that is being loaded does not
advance. The mapping takes the place of the access (`Stage`) from the port machine's counter and the two masks, its
address from `mADDR`, and the next addresses from the registers, or from the inputs while they
are being loaded (`NextWrite`, `NextRead`).

### TetrisVram

The states of `tetris.sv`, where PWA..PWD and so on are one action with an index. The
50 MHz edge is every second 100 MHz edge (both come from PLLs fed by the same
oscillator). `lag` is the number of clocks from one side of a FIFO to the other. Since `write_req` lasts a 50 MHz clock, each word is pushed twice,
here as in the code. An event enters a line `lag` clocks from its end. The chip starts with zeroes where a real one holds anything;
no property depends on a cell the machine has not written.

Assumptions on the environment, each named in the module: `Settled` (nobody presses
the key within the about 100 ns that an access interrupted by Reset takes to end; the
controller itself has no such condition) and `PoweredUpDone`
(nor before the power-up sequence is over, some 200 microseconds).

### UsbHost

`pc` is the place in the main loop; every step of the program is an action, and the
environment (`Plug`, `Unplug`, `ResetEnds`, `DelayPasses`) acts between any two.

| `pc` | code |
|---|---|
| `init`, `initprobe`, `initack` | `MAX3421E_init` up to the probe, the probe, the clearing of the interrupt with `USB_init` |
| `poll` | `MAX3421E_Task`: the pin is read, then HIRQ |
| `probe`, `ack` | `MaxIntHandler`: the bus probe; the advance of the task state and the acknowledgement |
| `task` | `USB_Task`, one action per state |
| `main` | the rest of the loop's body: driver choice, keyboard poll, leaving RUNNING |

* A control transfer is one step with a result. It can succeed only if the bus is not
  being reset, the chip's speed is the device's, and the device has that address; then
  it may still fail. The device may have taken SET_ADDRESS although the transfer failed,
  and may not have although it succeeded, its acknowledgement being lost.
* Of the chip: only the connection interrupt is enabled; BUSEVENTIRQ is set when a bus
  reset is done (`MAX3421E.h:146`); the lines' change at the start or end of a reset
  may raise CONDETIRQ. The probe reads the lines as they are: the chip
  samples them when SAMPLEBUS is written, which the set-up does before its probe and WAIT_FOR_DEVICE
  in every turn of the loop without a device (`transfer.c:266`, `NothingToDo`).
* The two task states without a name, 2 and 5, are reachable by `usb_task_state++`
  (`MAX3421E.c:236`); the model has them.
* `settling` is where the clock stands to `usb_delay`. The clock in milliseconds is
  computed with a product that starts again every 71.6 minutes; `"wrap"` stands for a delay
  that lies beyond that point.
* `seen` is a history variable: what the last probe saw.
* Assumption on the environment, `NoTimeToSwap`: nobody exchanges the device for
  another one between the probe and the acknowledgement or within a bus reset (tens of
  milliseconds); the same device may lose and regain contact at any time.

### UsbTransfer, HidDriver

`UsbTransfer` is `XferCtrlReq`, `XferInTransfer` and the loop of `XferDispatchPkt` below
them. `stage` is the part of the transfer under way; each action is one bus transaction: it
is acknowledged, it fails with a result (`Fails`: the loop goes round `Again`, or returns),
or it brings a packet. The device (`dev`) has a toggle and a position for each of its two
endpoints and advances only when it hears the handshake, so a lost one makes it repeat. The
chip compares toggles and discards a repeated packet. `mute` is a chip that does not
finish transactions any more; a dispatch then ends at its deadline, if the clock gets there. The deadline is
five seconds after the start of the dispatch, for all its turns together, on a clock of milliseconds that is
back at zero every 71.6 minutes (`transfer.c:144`, 153); `reachable` says whether it lies before that, and is chosen
anew for every dispatch. A dispatch of a mute chip whose deadline is not reachable never
ends (`Stuck`). Result 0xf0 (`transfer.c:206`), a packet without RCVDAVIRQ, is left out: the
chip raises that flag with every packet it takes.

`HidDriver` puts the probes of `HID.c` on top: the head of the configuration, all of it, the
walk, the entry of the table, SET_CONFIGURATION and SET_PROTOCOL; then `main`'s polls. The
device's configuration is any sequence of interface, endpoint and other descriptors that
fits into `bigbuf`, or has one cell more. `bigbuf` keeps what earlier transfers
left, the failed ones included, and a probe that fails keeps what it has filled in. Where
`UsbHost` has a probe and a poll as one step, this module has all of them; both use
the same outcomes: the entry may be filled in although the probe fails.

### SpiMaster

The four functions of `MAX3421E.c` and the loops of `alt_avalon_spi_command`, against the
registers of the SPI core (`lab62_soc_spi_0.v`), which loads and shifts at any time. `frames` is what the chip
sees: one entry for each period of chip select. Bytes written are numbered by their place
in the access and replies by their place in the frame, so that a byte stored at the wrong
index, from the wrong frame or dropped shows. Reading no bytes (an empty packet) still
moves one and stores it before the array: `RepliesInPlace` is about reads of at least one byte, and
`StoresInArray`, about all of them, fails.

### JtagUart

The driver with interrupts, as it is built here (no operating system, the build not being
the small one). A call's steps are its reads and writes of what it shares with the interrupt
routine and the alarm. The routine's loop is one step per turn. The UART is what its Verilog shows the
driver: two FIFOs with thresholds, `pause_irq`, which the host's pause sets and any read of
the FIFO clears, and the mark of the host's activity. Bytes written are numbered modulo two
laps of the ring. `host_inactive` and `timeout` are not volatile; the package is compiled
with `-O0` (`usb_kb_bsp/Makefile:141`), so that the waiting loops do read them.

### AlarmList, AlarmClock

`AlarmClock` counts, for each alarm, the ticks that are left, without a limit. `AlarmList` is
the code: a counter modulo `WRAP`, times modulo `WRAP`, and the flag `rollover`. The
mapping computes what is left from time, counter and flag.

### FileTable

One action per call; `alt_open` is three of them by outcome. A descriptor is its device and
the three flags that matter. `Redirect` is `alt_open_fd`, which opens a descriptor, copies
it over a standard one and releases it. The device's own functions are outside.

## 3. Runs

Each passing run has at least one mutant for each of its properties. Deadlock is
checked in every run. The runs of the kind *violation* check what a comment
says, and TLC shows the code doing something else.

| Run | Question | Result |
|---|---|---|
| `parts` | Game, with `Clk` open: piles, landed squares, refinement of `ColumnDrop`, pieces keep landing. Picture: sync pulses, frame edge, sweep, progress. SPI: one frame per access, replies in place, the waiting loops end. Alarms: refinement of `AlarmClock`. Descriptors: flags, locks, failing calls | holds |
| `vga_pulse` | Is the vertical pulse on lines 490 and 491, as `VGA_controller.sv:98` says? | violated: it begins on line 489 |
| `spi_empty` | Does a read store into its array only, as `MAX3421E.c:101` says? | violated: a read of nothing stores a byte before it |
| `files_lock` | Is a lock granted only to a sole user, as `alt_fd_lock.c:43` says? | violated: the search stops before the highest descriptor |
| `sdram` | Rows in turn, the mode set at power-up, refresh, refinement of `VramPort`, over two banks with a host that loads, pushes and pops at any time | holds |
| `sdram_precharge` | Does the power-up sequence precharge all banks, as `command.v:414` says? | violated: bank 0 only |
| `tetris` | The test machine on the whole controller, several rows, Resets | holds |
| `tetris_reads` | Does each read get the word of the address it loaded? | violated: the second one gets the word behind the first |
| `usb` | Quiet reset, driver, speed, key codes, end of enumeration, with devices of all kinds | holds |
| `usb_clear` | Does a disconnection clear the device table? | violated: a left-over bus event skips the state that does |
| `hid` | Retry counters, intact reads, the driver of the device, reports in order, every transfer ends or waits for a deadline beyond the wrap | holds |
| `console` | Order and conservation of bytes, no interrupt left disabled, calls return, bytes move | holds |

**Bounds, and why they are enough.**

* *Game.* Two columns between the walls, a third of the board outside of them, as there are
  in the source, and a fourth beyond the board (`board_width = 1`, `BoardBits = 3`, `XMod = 4`), four rows,
  `frames_per_move = 1`: the bar passes both walls and both edges of the board, pieces of two and three
  rows land on one another, piles reach the top and are written over. Boards of any
  size are the subject of the proofs.
* *Picture.* Ten pixels and eleven lines with pulse and porches of at least one pixel or line each, so that every
  comparison of the code is reached from both sides. The theorems have every size that the
  assumption admits, and `vga_pulse`, at the sizes of the source, evaluates it for them.
* *SDRAM.* `REF_PER` is 29 clocks in place of 1024 so that refreshes fall on every
  phase of an access; `INIT_PER` only shortens the first wait. `MAX_ADDR` is small so
  that the wrap-around happens. `sdram` has two banks and short rows, `tetris` six rows
  in one bank: what differs between banks, and what differs between rows, is each in one
  run. One word value is enough in `sdram`, because the property is about which word is
  where and a word never written differs from it; `tetris` has four.
  `RefreshSlack` (18 clocks) is the longest an access in progress holds a refresh back.
  The timers of the controller are 16 bits wide (`TimerMod`), as in the code.
* *FIFO lag.* The run takes 3 and 6 clocks, the two ends of what a dual-clock FIFO with its
  synchronisers may take. All lags from 1 to 6, with Resets in every phase of the test
  machine, were checked too, and with them `VramInv`, the invariant of the proof; they add
  states (8 million) and no behaviour of another kind. `WordsWritten` and
  `FirstReadCorrect` have every lag.
* *USB host.* One device of each kind; the keyboard is low-speed and the others are not. Two
  slots of the table, so that it fills up. The proofs have any number of either.
* *Transfers and probes.* Limits of two for NAKs and retries: one of each can be survived,
  the second ends the transfer, and they mix. Each dispatch of a mute chip is tried with a deadline before
  and beyond the wrap. Packets of two cells and a buffer of four give
  transfers of one and two packets, complete and cut short. Three reports show a repeated,
  a skipped and a merged one. All configurations of up to four cells, and those of five.
* *SPI.* Up to eight bytes, the size of a report; no byte is treated differently from
  its neighbours but the first and the last.
* *Console.* Rings of three (two bytes fit), calls of up to three bytes so that a call
  must wait, FIFOs of one and two, so that both sides can be full; a time-out of two alarms.
  `Timeouts` holds the value that never ends. The theorems have rings of any size.
* *Alarms.* A counter of six with intervals up to four and results up to five: alarms on
  both sides of the wrap, due at it, and a full turn away. Any range is proved.
* *Files.* Seven descriptors, so that four can be opened beside the standard ones and run
  out; two devices and a file system. Any number is proved.

**Fairness.** The hardware models assume that the oscillator runs: the clock actions
are weakly fair. `Host` of the USB program is weakly fair, since the
main loop calls nothing that blocks in the modelled part; the chip ends a bus reset it was
told to do, and time passes. Likewise `Host` of `HidDriver` (the loop bounds every wait),
the program and the core of `SpiMaster` (the core shifts with the clock), and program,
interrupt and alarm of `JtagUart`. Nobody has to press, release or plug anything, and no
host has to look in: where a property needs that, it is its premise.
`FramesKeepComing` (in the run, `PictureKeepsComing`) is stated for runs in which Reset is
released for good, `PiecesKeepLanding` for those in which it is pressed at least once and then
released for good, since nothing falls before; `EnumerationEnds` for those in which the device stays.
`TransfersEnd` allows a mute chip with a deadline beyond the wrap, `CallsReturn` a read that waits
for a host that looks in and types nothing.

## 4. Proofs

All of them hold for every value of the constants that the named assumptions admit; TLC
evaluates the assumptions in the runs.

| Module | Theorem | States |
|---|---|---|
| `GameLogicProofs` | `TypeCorrect` | registers keep to their widths |
| | `PilesCorrect` | `PileInv`: every column is a pile, the piece a contiguous bar |
| | `NoHolesCorrect` | `NoHoles` |
| | `LandedStays` | no step clears a landed square |
| | `Refinement` | `GameSpec => PlaysColumnDrop`, with `Clk` open |
| | `MoveClkPulses` | `move_clk` is high for one frame, so the divider never wraps while it is |
| `VgaProofs` | `VgaTypeCorrect` | counters and registers keep to their ranges |
| | `SyncOutside` | no sync pulse in the picture |
| | `FrameEdgeBlanked` | the frame clock rises in the blanking, or on the edge of Reset |
| | `SweepRefinement` | `Spec => SweepsPicture` |
| `SdramProofs` | `RowsInTurnCorrect`, `TetrisRowsInTurn` | accesses open and close their rows in turn, and no refresh or mode command falls between, with a free host and with the test machine; nothing about banks never precharged |
| | `ModeIsSet` | the mode command of the power-up sequence is not lost |
| | `RefreshesServed` | a refresh starts within 18 clocks of its timer |
| | `ControllerTypes` | types; at most one word is read ahead |
| | `PortRefinement` | `Spec => ServesPort`, for a host that loads at any time |
| | `WordsWritten` | the test machine goes on only when its word is in memory at its address |
| | `FirstReadCorrect` | its first read captures the word at the address loaded |
| `UsbHostProofs` | `QuietReset` | no transfer is started during a bus reset |
| | `HostTypes` | types; which values the task state takes |
| | `DriverMatches` | `main` polls by the class of the entry polled |
| | `KeycodesFromKeyboard` | the key code changes only with a keyboard |
| | `SpeedCorrect` | the host talks to a probed device at its speed |
| `HidProofs` | `HidTypes` | types; the NAK and retry counters keep their limits |
| | `ReadsIntact` | a read without an error has delivered the device's data |
| | `ProbeRight` | the entry says what the device's configuration says |
| | `ReportsCorrect` | reports are taken once and in order |
| `BspProofs` | `AlarmTypeCorrect`, `AlarmRefinement` | types; `AlarmSpec => AlarmsOnTime` |
| | `FramesCorrect`, `RepliesCorrect` | one frame for each access, of the right bytes; no reply lost, those of a read of at least one byte in place |
| `JtagProofs` | `ConsoleTypes` | types |
| | `OutputOrder`, `InputKept` | what is between program and UART is what should be |
| | `KeptEnabled` | no interrupt disabled that has work to do; that it is pending is not claimed |
| `FileProofs` | `FileTypes` | types; free descriptors have no flags |
| | `NearlyAlone`, `OneHolder`, `LocksExclude` | who may be on a locked device |
| | `FailuresLeaveTable` | what a failing call leaves |

Where a type invariant is proved and says nothing of a hazard, the runs do not check it again; nor does `tetris` check the
pins, which `TetrisRowsInTurn` has for every lag and size.

**The game.** `NoHoles` is not inductive. A piece may slide *into* a pile and land there, so
one has to know that what is added to a column is a contiguous bar (`Contiguous`) in
one column (`Aligned`), and that a column is one pile (`Stacked`): then adding a
bar that touches the pile or the floor gives a pile. Beyond the board nothing is added, whatever the
read has brought. That is `PileInv`, and it needs no assumption about `Clk`; walls play no part in
it. The refinement rests on it: `Pile` is the first landed row of each column, and a landing changes it to the top
of the bar if that is higher.

**The picture.** None of the properties is inductive: the sync registers say nothing of
the counters' past. `IInv` adds that, but for the start after a reset, each register
is a function of the counters (`Registered`); the vertical pulse is registered on
the last column of a line and so begins and ends one column into its lines. The
refinement then needs that column and line make up one position:
`LinesInOrder` and `ColumnOfPosition` are the two facts about multiplication and remainder
it rests on.

**The SDRAM controller.** An access is a chain of eight clocks: the command in the arbiter, on the arbiter's
pins, at the chip, the open row, the move on both pins, the forced precharge. `Stages` says for each
of them where the port machine and the arbiter's delay counter are and what both sets of pins show; it is the
delay counter that keeps `command_done` up for the whole chain, and thus any refresh out of it, and the port machine
that acts on the address of the request until the row is closed. That an address is its bank, row and column is
`AddressSplit`, the only place where sizes matter. For power-up, `Sequence` bounds the arbiter's delay
by the sequence's own counter, so that it is idle 201 clocks after the first wait, and `PowerTimer` that
the refresh timer, loaded with `REF_PER + 200` during the wait, cannot run out before. `Pace` adds to this what a pending refresh
still waits for (`Left`): requested, it keeps accesses from starting, and every clock brings the arbiter one nearer to it.

**The port.** That the controller is a `VramPort` is the longest proof here. `PinInv` (the stages above) says where an access is; the
refinement needs to know which one it is, and that it is still the same when the word moves. `PortPhase` has the six phases
of the port (resting; a write or a read asked for, under way; a read done) with all flags of each; every clock goes from one to
the next (`PhaseStep`), so a write and a read never overlap. `Directed` says that the direction is decided once: the arbiter's
`rw_flag`, its output enable and the command on both sets of pins are those of the port's `Read`, although they are copied at
different clocks and a forced precharge and a refresh write the same registers. `Serving` is what the data needs: the mask is off when the word of a write comes to the chip, and what the chip's
pipeline holds in the clocks of a read is the content of the requested cell, since nothing writes in the meantime. Loads do not
disturb it: the requested address is a register of its own (`mADDR`), which they leave alone. With these, memory
changes in the fourth clock of a write and only there (`MemoryStep`), in the cell requested. `PhaseMarks` says which marks each phase has,
`QueueSteps` when a word leaves or enters a queue, and `NextAddresses` when an address advances; what a load does
to each of them is part of these lemmas. Each clock is then one step of an access or, any refresh among them, a
stutter of `VramPort` (`TickServes`). TLC checked `ServeInv`, the conjunction, before the proof.

**The test machine on the port.** `tetris.sv` loads an address while an access may be under way, and a Reset drops
its load inputs anywhere. What it needs is more than `VramPort` promises, because it depends on when
things happen. `VramInv` has the invariants of the port and of the lines (`Lines`, `Carried`) and adds, for each phase of the
state machine, where each side of the port stands. *Writing* (`WriteScript`): from the push to the capture the word is in
memory, in the chip's hands or in the queue, and in the last two cases the address register is still its own
(`WordComing`); the count that lets the machine go on is not zero in the clock in which the word is on its way, because the pop
stays on the line for at least one clock (`Lines`, `WriteIsOver`). That is all that is needed: the write's last
clocks may still run when the next address is loaded, for any lag, but they are over before the next push (`WritesOver`).
*Reading* (`ReadScript`, `FirstRead`): before the first load the controller has read a word
ahead. It does so while the machine writes its second word: the first word sets `flag`, the read is requested in
the clock between load and push of the next word, or was before, and a full read FIFO ends reading. So the load of
`PRA` meets no read, and the one read that follows it carries the loaded address (`Awaiting`). For the second read this fails: the
controller has read ahead again after `FRA` (run `tetris_reads`).

**The USB host.** `NoTrafficInReset` alone is not inductive: `usb_task_state++` in
the acknowledgement could turn WAIT_RESET_COMPLETE into WAIT_SOF while the reset is going on. The
strengthening, `ResetInv`, adds that a probe leaves only the states it can set or
WAIT_RESET_COMPLETE when the acknowledgement follows, and that while the task waits for the
reset a pending bus event means that it is over: RESET_DEVICE clears the old event, and the
chip sets a new one only at the end.

`DriverMatchesDevice` says that `main`'s copy of a class, made once, is that of the table entry
which the HID layer polls. `DriverInv` has the links of that chain: `TableInv`, that the used
slots are the first ones and the device at work has the last of them, so that the loop of
`GetDriverandReport`, which keeps the class of the last used entry, ends with that device
although errors leave entries behind; `FlagInv`, that after RUNNING the flag
that guards the copy is cleared before the enumeration can come to the table again; and
`ProbedInv`, the states a probe can leave. For the key code one needs in addition
`OwnerInv`: who answers at the address of a keyboard's entry is a keyboard, because
an address is lost with the plug. TLC checked `DriverInv` before it was proved.
The speed needs `SpeedInv`: the mode bit is right where a device has been probed and no
connection interrupt is pending, and during a bus reset, which leaves no time to exchange
devices; and the chip's own reset, which loses the bit, comes before the task has got to a bus
reset (`SetUpEarly`), so that the probe after it finds no reason to leave the bit alone.

**Transfers and probes.** The wire is a stop-and-wait protocol in both directions, and its
invariant is the same for the control reads (`DataInv`) and the polls (`ReportInv`): while the toggles
of device and chip are equal, the device holds the packet the host waits for, and what was taken is exactly what was
sent before; while they differ, the device repeats a packet that has been taken. For a read that
is all that is known, since a repeated packet is a toggle error and ends it; for polls the chip discards the repetition,
so the toggle saved at the end must be the right one even when the poll fails. That a read
ends with all of the data rests on two facts about lengths: a short packet is the last one (`ReadPacket`), and the count
asked for is not below what the device has (`ReadCall`). `ProbeInv` follows the walk over the
configuration: the first interface and the first endpoint after it are least elements of sets of positions, found in
the part of the configuration that `bigbuf` holds if they are there at all (`LeastElement`,
`SameLeast`); what lies beyond, or was left by an earlier transfer, is never taken for one. `CallInv` ties each place
in `HID.c` to the call under way. The four theorems share `Inv`, which is the conjunction, and which TLC checked first.

**Register access.** `AccessInv` gives for each place of `alt_avalon_spi_command` what the chip has seen so far and what
has been stored. Its core is that the credit allows one byte on its way: waiting, under way or answered, never two. So
a receive register that the core is about to overwrite is empty, a reply belongs to the byte just sent, and
the chip select is released only where the last command has none left. `NextByte` and `NextReply` are the two steps
by which the sequences grow.

**The console.** `OutputInOrder` ties positions in the ring to numbers of bytes. The copy is
the delicate part: between `WriteCopy` and `WritePublish` bytes lie beyond `tx_in` while
the routine moves `tx_out`. `CallInv` says what a call may rely on between its look at a ring and its use of
it: the room it saw may have grown meanwhile, never shrunk (`ChunkFits`), and so may the input
(`ChunkThere`). Lemmas on `Fill` and `Wrap` replace arithmetic modulo the ring's size, which the
prover does not do well.

**The alarms.** The invariant says what the flag `rollover` means: for an alarm in the list, its time
lies strictly below the counter if the flag is set and strictly above it if not. `TickedRight` shows that a tick keeps
this and that the ticks left decrease by one, the wrap included, or are what the callback returned.

**The descriptors.** `LocksExclude` needs `Marked`: `alt_max_fd` only grows, and all
open descriptors lie at or below it, so that the search of `alt_open` meets every lock. The search of `alt_fd_lock` stops
one short (`alt_fd_lock.c:61`): it misses the descriptor `alt_max_fd` itself, and a lock is granted that
should not be (`LockHolderAlone`, run `files_lock`). `LockNearlyAlone`, proved as `NearlyAlone`,
is what remains true: beside the holder of a lock there is at most one other, a higher one. Two
locks are excluded nevertheless: the one above would have found the holder.

**Only model-checked.** All liveness. Liveness under
fairness and `ENABLED` are beyond the prover, and so is induction over data. The latter is why a line counts
events instead of holding them: a sum over the line would be out of reach.

## 5. What the models show beside the runs, and do not claim

* *The open clock.* The piece does not stay between the walls: `lab62.sv:231` leaves `Clk` open, and the motion a Reset
  has sampled is added at every frame, wherever the piece is. Columns 12 to 15 and those beyond the board are
  entered. No property claims otherwise, and none is about keys: those pressed between two Resets are not seen.
* *The shape of pieces.* `Pieces` gives each square a column, but nothing loads it: all four squares are
  always in one column (`Aligned`).
* *Moving pieces.* MoveX_Block does not look at `Board`: a piece slides into landed squares. `PileInv`
  holds nevertheless.
* *Reset.* Neither Reset branch of MoveX_Block and MoveY_Block has an effect; a Reset does not
  restart the game.
* *Power-up.* The precharge of the power-up sequence, "Precharge All" in `command.v:414`, closes
  bank 0 only (lines 381 and 384; run `sdram_precharge`). The controller drops a power-up command if it is
  busy; that the one for the mode finds it idle is `ModeNotLost`.
* *Interrupts lost by the acknowledgement.* The handler clears the connection interrupt whatever
  has happened since its probe. The model has that window; no property denies it, and
  `EnumerationEnds` is stated for a device that the last probe has seen.
* *The settle time.* ATTACHED can be advanced to SETTLE without a new delay, by the same
  left-over bus event as in `usb_clear`. A delay beyond the wrap of the clock may never
  be over (`transfer.c:281`); it is the last premise of `EnumerationEnds`.
* *A held key after unplugging.* The key code register keeps its last value.
* *Reports that fill a packet.* If a mouse's reports fill its packets and have fewer than eight bytes, a
  poll runs on into the next reports (`transfer.c:217`); `OnePacketReports` excludes it.
* *A chip that hangs before the wrap.* If the chip stops answering and the deadline of the dispatch lies beyond the
  wrap of the millisecond clock, the loop at `transfer.c:153` never ends; `TransfersEnd` names the case.
* *Input that waits.* A routine that empties the FIFO in part, the ring being full, has cleared
  `pause_irq` by doing so. When a call makes room and enables the interrupt again, too few bytes to reach the
  threshold raise none: they wait in the FIFO until the host looks in again or sends more. `InputMoves` is stated for a
  host that does.
* *A host that was away for a moment.* A blocked write is cut short if `host_inactive` is not zero when
  room appears, although the time-out has not passed (`altera_avalon_jtag_uart_write.c:187`); it returns
  the count of what it accepted.
* *The longest alarm.* `alt_alarm_start` for 2^32 - 1 ticks would fire at once; the assumption on
  `Intervals` leaves it out.
* *The picture's content.* `lab62.sv` connects the game to `Color_Mapper` through names that are
  declared nowhere, thus through one-bit nets, and the mapper's colour depends on
  `DrawX` alone. There is nothing to relate the game and the picture by, but the frame clock.

## 6. Not modelled

* `Color_Mapper.sv` and `HexDriver.sv` are combinational tables and comparisons; there is no behaviour over
  time in them.
* `ball.sv`, `lab61.sv`, `v/RW_Test.v` and `sdr_data_path.v` are not in the built top level, or their outputs
  are unused. `src/Project/` has headers and declarations without behaviour.
* Generated and vendored parts: the Qsys system but for the JTAG UART, PLLs, EMIF, simulation models, and of the
  board support package the register definitions (`system.h`, `nios2.h` and other headers), start-up and
  cache code in assembly, interrupt dispatch, the profiler and the logging that are compiled
  out, the heap, and stubs that only return an error. They hold most of the repository's lines, and
  none of the state of the game.
* Data: the bytes of device and string descriptors, which reach the console only, and the formatting of numbers
  for the LEDs and digits. The bytes of a configuration are modelled by descriptor; that a length
  byte of zero stops the walk for ever (`HID.c:47`) is outside for that reason.
* Electrical timing: setup times, the chip's oscillator start (`MAX3421E.c:123` waits for it without a limit),
  start-of-frame packets.

## 7. Plan

Done, in this order: the game with its abstraction and proofs; the picture timing; the
SDRAM controller with chip and port; the test machine on it; the USB host with its
first proof; the proofs of the picture timing; transfers, probes and register access; alarms,
console and file descriptors with their proofs; the proofs that driver and speed are the device's; those of the
SDRAM controller's rows, power-up and refreshes; those of transfers, probes, reports and register access; the refinement of `VramPort`;
what the test machine writes and reads first, for every lag; the game as it is wired, with `Clk` open; loads of
addresses at any time; deadlines beyond the wrap of the clock; and, as runs of their own, the five places where a comment and the
code disagree beside the device table: pulse, power-up precharge, second read, empty read, lock.

What could come next: the picture timing composed with the game, and the second word a poll reads when reports fill their
packets.
