# A TLA+ verification of AES_acceleration

The repository is an AES-128 accelerator for a Nios II system on an FPGA: an
Avalon peripheral in VHDL (`hdl/`), the software that drives it and compares it
with software implementations (`software/aes_aca/`), an LED matrix to show the
result, and a generated system and board support package around them. This
directory holds its formal model: TLA+ modules, TLC configurations, and proofs
checked by TLAPS.

## 1. Inventory

| component | source | state | operations |
|---|---|---|---|
| iterative AES core | `hdl/aes_fsmd.vhd`, `pipe_reg.vhd` | FSM state, round counter, block and key accumulators, output register | clock edge in each of four states, reset |
| pipelined AES core | `hdl/aes_block.vhd` | ten data and ten key registers | clock edge, reset |
| round functions | `aes_stage*.vhd`, `shift_*.vhd`, `key_schedule.vhd`, `sbox.vhd` | none (combinational) | |
| accelerator | `hdl/aes_accelerator.vhd` | controller state, job registers and their copies, block buffer, key registers, a latch | register write and read, clock edge in each of seven states, reset |
| custom-instruction wrapper | `hdl/aes_custom.vhd` | FSM, two counters, word buffers | not in any file set, unfinished |
| test program | `software/aes_aca/main.c` | arrays on the stack, program counter | baseline, program registers, poll, check, display |
| software AES | `software/aes_aca/aes.c`, `aestab.c` | none | two key expansions, two encryptions, decryption |
| LED controller | `if_fullrgb_led96.vhd` | refresh FSM, counters, column shift register, SRAM | refresh, bus access |
| LED library | `leds96_rgb.c` | canvas, the LEDs | draw, shift |
| timers, text | `timer.c`, `utils.c` | two hardware timers | start, wait, elapsed, display text |
| button debouncer | `bounce_filter.vhd` | counters | not connected to the above |
| JTAG UART driver (BSP) | `altera_avalon_jtag_uart_*.c` | two circular buffers, interrupt enables, seconds the host was silent | write, read, close, ioctl, interrupt, alarm |
| file layer (BSP) | `alt_open.c`, `alt_get_fd.c`, `alt_fd_lock.c`, ... | device and file system lists, pool of descriptors | open, close, lock, unlock, redirect, fcntl, calls |
| system clock and time (BSP) | `alt_tick.c`, `alt_alarm_start.c`, `alt_*tod.c`, `altera_avalon_timer_ts.c`, `alt_busy_sleep.c` | tick counter, list of alarms, time set | tick, start and stop alarms, set and get time, timestamp, sleep |
| flash and SPI drivers (BSP) | `altera_avalon_epcs_*.c`, `epcs_commands.c`, `altera_avalon_spi.c` | address mode; the device | write, erase, read, query; a transaction |
| performance counter (BSP) | `altera_avalon_performance_counter.c`, `perf_print_*.c` | counters in hardware | begin, end, read, report |
| interrupts and start-up (BSP) | `alt_iic*.c`, `alt_irq_handler.c`, `alt_main.c`, `alt_sys_init.c` | handler table, enable masks | register, enable, disable, dispatch; start, exit |
| heap, profiler, printers, caches (BSP) | `alt_sbrk.c`, `alt_gmon.c`, `alt_mcount.S`, `alt_*printf.c`, `alt_*cache*.c`, `alt_load.c` | heap end, lists of functions and arcs | sbrk, mcount, print, flush, load |

How they interact: the test program writes the accelerator's eight registers
through its Avalon slave, starts it with bit 0 of register 3 and polls `done` in
the same register. The accelerator's controller fetches a block as four words
through its Avalon master, which shares one single-ported on-chip memory with
the processor (there is no data cache), hands the block and the key registers to
the core over `start`/`ready`, and writes the result back word by word.
Everything runs on one clock and one reset.

The board support package (BSP) is Altera's HAL, generated for this system. Its parts
meet in the interrupts: the dispatcher calls the timer's routine, whose tick calls the
alarms, one of which belongs to the JTAG UART, whose own routine shares its buffers
with `write` and `read`, which the file layer calls. The generated `Makefile` builds
it with direct drivers, small drivers, no C++ and no exit, and without a system clock, so the
program uses the polled UART, the performance counter and little else. The models
are of the sources in all the configurations they provide for, those of this build
among them (`small`, `clock`, `config`, the `Direct*` operators).

What is hard in it: the controller and the core are two state machines that meet
over two wires; the processor may write any register at any clock of a running
job; the bus may stall either access for any time; a reset may come at any
moment, and it does not clear the `inc_addr` latch nor the memory; the length
counter wraps; the result is announced one clock before it is there. In the BSP it is
the interrupts, which come between any two accesses, counters read in halves or
past their wrap, and devices that go on by themselves. PROJECT.json lists these under
"hazards", each at its line.

What makes each component correct: the core computes the ten-round cipher of the
block and key it sampled, and always answers; the pipeline keeps neighbouring
blocks apart; the accelerator enciphers what is in memory, under one key, the
right number of blocks, to the right addresses, and reports `done` neither early
nor late; the program ends with a verdict that is about the hardware's result; the
byte-level rounds of hardware and software are the same function; the LED
controller shows on every column the colours of that column's own LEDs while the
bus reads and writes; the LED library puts pixels where its comments say; waits
last as long as they are asked to. In the BSP: no byte is lost between program and
host, a descriptor has one owner, an alarm goes off in its tick, the flash holds what
was written and nothing else changed, a handler is called with its own context, and
every call returns.

## 2. Modules

| module | role |
|---|---|
| `CipherRounds` | the chaining of ten rounds, over arbitrary round functions |
| `CipherUnit` | abstract specification of a cipher core |
| `AesFsmd` | the iterative core |
| `AesFsmdProofs` | its theorems |
| `AesBlock`, `AesBlockProofs` | the pipelined core and its theorems |
| `AesAccelerator` | slave, controller, master, memory, composed with the core (`Core == INSTANCE AesFsmd`) |
| `AesAcceleratorProofs` | its theorems |
| `HwDriver`, `HwDriverProofs` | main() composed with the accelerator; its theorems, on those of the accelerator |
| `SymbolicCipher` | values of the round functions for TLC |
| `Bytes`, `HdlRounds` | the combinational round functions of `hdl/` on bytes |
| `SoftwareAes` | `aes.c` and `aestab.c`, a step per loop iteration |
| `CipherComparison` | both, with the core as a TLC instance of `AesFsmd` on real bytes |
| `LedRefresh` | the LED controller, its SRAM and the bus |
| `LedCanvas` | the canvas of `leds96_rgb.c` |
| `LedMatrix` | the font and the shifts of `leds96_rgb.c`, the loops of `utils.c` |
| `LedProofs` | theorems about `LedRefresh`, which it extends, `LedMatrix` and `LedCanvas` |
| `OneShotTimer` | `timer.c` on a counting interval timer |
| `JtagUart` | the JTAG UART driver, its device and the host |
| `HalFiles` | device lists, descriptors, locks, and which call gives what |
| `SystemClock`, `TimeOfDay` | tick and alarm list; setting and reading the time |
| `Timestamp`, `BusySleep` | the timestamp of the interval timer; the busy loop |
| `EpcsFlash` | the flash driver and the serial device |
| `SpiMaster` | a transaction of the SPI master |
| `SerialProofs` | theorems about `JtagUart`, which it extends, `SpiMaster` and `EpcsFlash` |
| `PerfCounter` | the performance counter, its readings and its report |
| `TimersProofs` | theorems about `SystemClock`, which it extends, `OneShotTimer`, `Timestamp`, `TimeOfDay`, `PerfCounter` and `BusySleep` |
| `Interrupts` | enabling, registering, dispatching |
| `Startup` | reset to main to exit |
| `Heap` | `sbrk` |
| `HalProofs` | theorems about `Interrupts`, which it extends, `Heap`, `HalFiles` and `Caches` |
| `Profiler` | `mcount` with profiled interrupt handlers |
| `Printf` | `alt_printf` and the printer of the log |
| `Caches` | the cache flushes, `alt_load`, `alt_uncached_malloc` |
| `MC*` | values of the constants, and the bounded processor of `MCAesAccelerator` |
| `MCAesCores`, `MCLibrary`, `MCHal` | several components of one kind in one run |

A proof module of several components extends one and has the others as instances; their
variables are declared in one row, but no theorem speaks of more than one component.

A step of a hardware module is one rising clock edge, with what happens on the
ports in that cycle as parameters, or an assertion of reset. The two processes
of each VHDL entity that describe next state and datapath are merged: each
action is one `case` branch of both. Signals that are combinational are operators
(`ready`, `done`, `am_address`, ...), registers are variables with their VHDL
names without `_reg`; `result_reg`, which nothing writes, is left out.
Variables that are not registers are history variables, written by the model and
read only by properties: `job` (what was accepted), `blocks` (how many were
written), `fed` (what entered the pipeline).

* **AesFsmd** `Idle`, `Load`, `Count`, `CountLast`, `Done` are the states of
  `CP_NSL`/`DP_RMUX`, `CountLast` the case `cnt_reg = 9`. `key_acc` is
  overwritten at every edge, as in the source. `Reset` is `rst_b`.
* **AesBlock** `Clock` moves all twenty registers; nothing stalls it.
* **AesAccelerator** `Clock(op)` is one edge: `SlaveWrite(op)` (the slave port),
  `Core!Clock` (the core on the wires `start_aes`, `keys`, `datas`) and
  `Controller(op)`, all from the same pre-state. `ReadWait`/`ReadGrant` and
  `WriteWait`/`WriteGrant` are the two values of `am_waitRequest`. `IncAddr(op)`
  is the latch, transparent in the very cycle of a control write.
  `HeldReadData` says whether the interconnect still shows a read word one clock
  after the grant; if not, the controller finds any word of the memory there.
* **HwDriver** `SetUp`, `Baseline`, `Program` (one register write of lines 81-89
  per step), `Poll`, `Check`; `Tick` is an edge without an access and `Restart`
  the common reset of processor and accelerator. A register access takes the edge
  at which it happens; a computation on memory is one step, at a time when the
  accelerator is idle. The software encryption and decryption are taken as the
  cipher and its inverse.

* **SoftwareAes** runs `aes_keyexpand128`, `ExpandKey`, `aes_blockenc_SWacc`,
  `aes_blockenc_NOacc` and `Decrypt` in that order on one key and block. The S-box
  and its inverse are the tables of `aestab.c`; the other tables, which are
  multiples of them, are written as formulas: a wrong entry in one of those tables
  would not be seen by the run (comparing the file with the formulas entry by entry shows none).
  `HdlRounds` translates `sbox.vhd`
  gate by gate: elements of GF(2^2), GF(2^4) and GF(2^8) are the numbers their
  bits spell. **CipherComparison** runs the software first, then one job of the
  core (`Core!Clock` of `AesFsmd`, with the operators of `HdlRounds` as its
  parameters), then `Decrypt` of the core's result.
* **LedRefresh** one operator per VHDL process (`Counters`, `NextLedAddr`,
  `LoadColumn`, `Memory`, `Waitrequest`), all applied by `Clock` to the same
  pre-state. A word is the address it was written to and a version; an entry of
  `reg_col` is the word and channel that were looked up, and whether the value was
  doubled. The `DONT_CARE` of the memory when a word is read while it is written
  is a nondeterministic choice.
* **LedCanvas** the loops that clip or count (bitmaps, rectangles) are a step per
  pixel; the ones that touch each pixel by itself are one step. One channel of a
  colour stands for the three. Coordinates are signed, and a pixel of the canvas is addressed
  as the word 8x + y from its start, as in C: a corner above the canvas leads
  into the columns before (`PixelAt`), one before the array or past it into `stray`, the
  words written outside; what lies at those words is not modelled. **LedMatrix** copies one LED
  register per step.
* **OneShotTimer** every register access is a step, and `Tick`, the timer counting,
  may happen any number of times between two. The timer is hardware outside of the
  repository, modelled from the accesses; it is run in one-shot mode only, as
  `timer.c` never sets CONT. The two timers differ by address and frequency;
  one is modelled.

* **JtagUart** `write` is `WriteCopy` (space and memcpy), `WriteAdvance` (`tx_in`),
  `WriteKick` (the interrupt enable), `WriteSpin` and `WriteInactive` (the wait), and
  likewise `Read*`; `Isr*` are the parts of the interrupt routine, `Second` is the
  alarm. The routine may come between any two steps of the caller and runs to its
  end. Bytes are numbered. `host_inactive` and `timeout` are not volatile in the
  source; the model reads them anew in every round of the wait, which a compiler
  need not do (`WriteSpinHoisted` is a build that does not, and then `CallsReturn` fails).
* **HalFiles** a call is one step (the build is single-threaded). **SystemClock** walks
  the list one alarm per step, callbacks in between; a callback starts and
  stops alarms, but not the one that is next in the list (see below). **TimeOfDay**
  keeps the 32-bit product of `settimeofday` and the 64-bit one of `gettimeofday`; its tick
  counter wraps, and the history variable `wrapped` says that it has since the last setting.
* **EpcsFlash** a command sent to the device is a step or, for the bytes of a page, its
  sending and its start; the device finishes by itself and goes on through a reset of the
  processor. A change of the address mode sends a write enable first, and the device may
  take the latch back with the change or leave it (`LatchAfterMode`). A byte is the set of its ones.
* **SpiMaster**, **PerfCounter**, **Timestamp** a register access per step, the hardware
  moving in between. **BusySleep** an iteration of the loops per step; its `hoisted`
  says whether the compiler loads the loop's register once for all passes.
* **Interrupts** reads, changes and writes `alt_irq_active` and `ienable` in separate
  steps. **Profiler** steps through the look-up of function, arc and count; an
  interrupt may come at each. `torn` counts what a handler's increments lose between the load and
  the store of one, `raced` notes a second call that reads the sampler's flag before the first has
  cleared it. **Startup** is the list of operations the macros expand
  to in a configuration. **Caches** a cache instruction per step.

`SymbolicCipher` gives the round functions values for TLC: a block is named by
the operations that made it, and bytes carry the name of their block and their
position, so two values are equal only if they were computed in the same way
from the same words. What TLC shows with it, and everything proved, is about
sequencing and data movement, not about the arithmetic of the rounds.

Operators commented `mutant` are plausible wrong versions of the definition after
them; nothing uses them, and PROJECT.json says which property fails when one
takes that definition's place.

## 3. What the runs show

| run | question | states |
|---|---|---|
| `cores` | does the iterative core, with `start`, key and block changing at every clock and resets at any time, stay in step (`InStep`), implement `CipherUnit` (`ImplementsUnit`) and always finish (`BusyEnds`)? does the pipeline keep back-to-back blocks with changing keys apart (`StagesInStep`)? | 2268 |
| `accelerator` | three register writes at any clocks, resets, stalls: do controller and core match (`Handshake`), is the block read the one in memory (`BlockFetched`), the block written its ciphertext under one key (`WritesCiphertext`), is a stalled bus request held (`MasterHolds`)? are blocks counted right, for length 0 too (`BlocksCounted`), where do words go (`Scattered`), is `done` only reported after delivery (`Delivered`)? | 81034 |
| `driver` | main() with up to two resets at any moment: does the accelerator run the job programmed (`JobAsProgrammed`) under one key (`OneKey`), is the result there when `done` is seen (`ResultReady`), does the program get to "Correct!" (`ReportsCorrect`)? | 509 |
| `cipher` | do the S-box circuit and the S-box table agree on every byte (`SboxIsTable`), the two key expansions and the on-the-fly key schedule (`KeysAgree`), the two encryptions and the core after every round (`RoundsAgree`)? does `Decrypt` retrace the states (`DecryptRetraces`)? | 594 |
| `led` | with bus reads and writes and a reset at any clock: does each displayed column hold its own LEDs' colours (`ColumnShown`), does a read get the word stored (`ReadsStored`) and get it in the end (`ReadAnswered`), are reset and column selection separated by a dead cycle (`DeadCycle`), is every column shown again and again (`Refreshed`)? | 199262 |
| `library` | is the matrix a window of twelve columns over picture, text and background after every shift, in both directions (`ScreenIsWindow`)? does a bitmap go down the columns, a rectangle fill its pixels, and do the calls change nothing else, on the canvas or outside, unless the corner is left of or above it (`CanvasDrawn`)? after any timer calls: does a wait last its delay (`WaitsLongEnough`) and return (`WaitReturns`), is the elapsed time one between call and return (`GlobalInMs`)? | 592858 |
| `hal` | the BSP, one component at a time: are bytes kept between program, buffers, FIFOs and host, and on SPI (`BytesKept`)? has a descriptor one owner (`DescriptorsOwned`) and is a locked device left alone (`LockExcludes`)? are alarms on time (`AlarmOnTime`) and times right (`TimeKept`: time of day, performance counter, timestamp, busy sleep)? does the flash hold what was written, after resets too (`FlashAsWritten`)? do printers print what the format says (`PrintedBack`)? do caches and memory agree after a flush (`MemoryCoherent`)? are handlers registered and enabled as asked, at start-up too (`HandlersAsAsked`)? does the profiler count every call, but for increments an interrupt cuts in two, and start its sampler once, and does `sbrk` give no byte twice (`CallsRecorded`)? do calls return (`CallsReturn`)? | 781779 |
| `ledreads` | is a read that follows a read at once answered with its own word? No: with the first one's. | |
| `timerelapsed` | does `timer_elapsed` return milliseconds? No: it divides by an address. | |
| `canvasalpha` | does a transparent bitmap leave the canvas alone? No: it blends with LED x+y. | |
| `exclusive` | is a device only locked when no other descriptor refers to it? No: the highest descriptor is not looked at. | |
| `settod` | does `gettimeofday` right after `settimeofday` return the time set? No, once 2^32 microseconds have passed: the product has wrapped. | |

The last five are expected to fail; PROJECT.json has them as findings. None shows
in the demo: the processor leaves a cycle between its reads, `timer_elapsed` and
the alpha bitmap are not called, and the build has neither descriptors nor a clock.

`MCAesCores`, `MCLibrary` and `MCHal` put components that do not interact into one run:
the initial state chooses one (`part`), the properties are those of the components,
each asked of its own part. In `MCHal` the components share a row of variables.
`exclusive` and `canvasalpha` are the same two modules with one part only (`FilesSpec`,
`CanvasSpec`).

Smaller disagreements of code and comments, met while modelling; the demo is
exposed to none of them but the last:

* main.c:81 comments a control write of 0 with "stop accelerator". Such a write only
  clears the latch `inc_addr`; a running job goes on (`SlaveWrite`, `Controller`).
* `aes_accelerator_hw.tcl:132` declares `readLatency 0`, read data in the cycle of the
  grant; the controller samples it one clock later (`ReadEnd`). `HeldReadData` is
  the assumption that the interconnect still shows the word; with FALSE,
  `BlockFetched` fails.
* `if_fullrgb_led96.vhd:100` wants at least 25 cycles of reset, line 101 takes the
  minimum of 25 and a microsecond; lines 341-342 reserve the SRAM "from cycles 0 to
  24", but in `TRANS1` the period counter is 0 only if the display period is a power
  of two. `GenericsAssumption` in `LedRefresh` states both needs; `ColumnShown` fails
  for generics without them (a 20 MHz clock, a frame rate giving three PWM periods).
* `utils.c:35`: `utils_display_text` "stops once the last character has been shifted
  in". It shifts 24 columns of background behind it (`BlanksOf`).
* `leds96_rgb.c:216-253`: the loops of the two rectangles and the test of a pixel (line 65 for a
  single LED, too) clip on the right and below only. A corner left of the canvas writes words
  before the array, or registers of another column or device; a corner above
  it writes the last pixels of the columns before (`StaysInside`, `RectangleFilled`).
* `alt_tick.c:96`: the tick counter wraps after 2^32 ticks, though alt_alarm.h:107 calls it the
  "elapsed number of system clock ticks since reset". `gettimeofday` takes it as that and
  jumps back by a whole turn of the counter, 50 days at a tick a millisecond (`TimeKept`).
* `alt_sbrk.c:46-48` "does not perform any bounds checking"; lines 83-97 do, and
  refuse what does not fit with -1. `Heap` has the check, and `BlocksApart` relies on it.
* `alt_mcount.S:120-122` increments a count with interrupts on: calls that a handler counts in the
  same record between the load and the store are lost (`torn`; `CallsRecorded` accounts for every other call).
* `alt_close.c`: a close whose driver answers -EWOULDBLOCK (the JTAG UART with
  O_NONBLOCK and bytes left) frees the descriptor all the same; descriptors 0 to 2 are
  never freed, so a lock taken on one outlives its close.
* `alt_alarm_start.c`: with `nticks` = 2^32-1 the alarm time is the present and no
  rollover is noted, so the alarm goes off in the next tick. `alt_tick.c:104` has the
  next entry before the callback: a callback that stops that alarm sends the walk to
  itself (`StopsNext` TRUE, with which `AlarmOnTime` fails).
* `altera_avalon_epcs_flash_controller.c`: a write that reaches past the end of the device
  returns 0 without having written the rest. `altera_avalon_spi.c`: with nothing to
  write and nothing to read the loop never ends.
* `alt_irq_handler.c:141`: an interrupt that goes away before it is looked up leaves the
  dispatcher in its loop. `alt_irq_enable` and `alt_irq_disable` ignore the priority mask.
* `alt_gmon.c:153` "must be able to cope with reentrancy": between lines 167 and 170 a
  profiled handler starts the sampler a second time, and the same alarm is put in the
  list twice (`SamplerStarted`: in this way only). Line 139 does not look for the -1 of `sbrk`.
* `alt_busy_sleep.c:112`: a delay that is a multiple of the largest loop ends with a loop
  that starts at 0 and runs through 2^32 counts. Its asm changes a register it
  declares as input only; a compiler that loads it once makes the further passes
  as long (`hoisted`). `SleptAsAsked` says exactly how much longer.
* `altera_avalon_timer_ts.c`: after a full period `alt_timestamp` returns 0 by the comment of line 58
  and -1 by that of line 94. The code returns 0, as the timer has reloaded its period;
  `TimestampTrue` says so.
* `alt_dcache_flush_no_writeback` with a start inside a line also discards what was stored
  behind the region.
* The report of the performance counter prints clocks cut to 32 bits (line 134).

Things the runs make visible that are not failures of a stated intention: with
`inc_addr` set the address advances 16 bytes per *word*, so the four words of a
block land 20 bytes apart and consecutive blocks 64 bytes apart (`Scattered`);
a length of 0 means 2^16 blocks; main.c never sets `inc_addr`, so its 256 blocks
are one block enciphered 256 times; the baseline leaves the same ciphertext in
`outputdata` that the accelerator should write, so the final check would not
notice an accelerator that writes nothing. `ResultReady` therefore also asks for
the number of blocks the hardware has written.

### Bounds

* `AddrMod` 128 and `LenMod` 2 (4 in `driver`) stand for 2^32 and 2^16: addresses wrap
  in a job with increment, and length 0 wraps the counter and then runs to the end,
  two blocks later.
* `MaxOps` 3 register writes: one to start, the others anywhere
  before or in a job: a control write toggling the latch, a key word, the
  destination, the length. The initial value of the latch is arbitrary, so no
  write is spent on it. Three suffice for a write before a start and one after it
  or two in the same job; the theorems below hold for any number.
* Stalls are unbounded: a request may wait any number of edges.
* `HwDriver` runs three blocks (256 in the program) and at most `MaxRestarts` = 2
  resets; the free behaviour of the core and the pipeline needs no bound.
* `CipherComparison`: six pairs of key and block (the vector of main.c, zeros, ones,
  one bit, and two that go through many table entries); `SboxIsTable` covers all
  256 bytes. A sample of the 2^256 inputs: rounds that differ in a table, an index
  or a constant differ on such vectors at once.
* `LedRefresh`: `C_PWM_BITS` 5 for 15, so that a display takes 32 clocks; the frame
  rate is scaled so that `C_PWM_CYCLES` is 1, as it is with the defaults. The
  load needs 25 clocks, so the width of the PWM counter may not be smaller. One
  address on the bus, 13, second row of the second column (the load goes
  through all 96), one version of a word beside the initial one, one reset.
  `BackToBack` FALSE is a master that leaves a cycle between reads.
* `LedCanvas`: two calls in a row of any routine, three colours (opaque, transparent,
  in between), rectangles inside, over a corner, empty, outside, starting left of the canvas and above it,
  three bitmaps.
  `LedMatrix`: four texts, among them the empty one, one with characters
  on both sides of the gap of the font table and one without a glyph.
* `OneShotTimer`: registers of 2 bits for 16 (`Half` 4 for 2^16), 3 ticks to a millisecond, delays of 1,
  2 and 5 ms (15 of 16 ticks: both halves of the period count), three calls, which
  give a wait after a timer left running, timed out or stopped.
* `JtagUart`: buffers of 3 (2048), FIFOs of 1 (256), threshold 0, 4 bytes in the two
  directions together, writes of 2 and of 3, a cable that is pulled or plugged in once: buffers and FIFOs
  fill, with a writer waiting, empty and wrap. The FIFO holds one byte, so that a
  writer waits within the bound of the bytes; the loops over its space are then short.
  Both drivers, with and without a clock, time-outs of 1, 2 and never.
* `HalFiles`: 5 descriptors, three of them the streams, two devices and a file system:
  the pool gets full, a driver may refuse. The state space is complete.
* `SystemClock`: words modulo 4, six ticks, three alarms: alarms beyond the wrap, and
  callbacks that stop themselves, start and stop others. `TimeOfDay`: words modulo 32, 12
  fractions to a second, four rates; the counter wraps any number of times.
* `EpcsFlash`: 2 blocks of 2 pages of 2 bytes, 3 calls, 2 resets; writes that start and end
  within a page, cross blocks, run past the end, begin outside. `SpiMaster`: up to 3
  bytes each way.
* `PerfCounter`, `Timestamp`: halves of base 3, 8 and 11 ticks: carries in any place.
  `BusySleep`: words of 16, 3 iterations to a microsecond: all delays of the word.
* `Interrupts`: 2 interrupts, 2 handlers, 3 calls. `Profiler`: 2 functions, 2 callers, 3
  calls of program and handler, slabs of 3 records. `Heap`: 18 bytes, 4 calls.
  `Startup`: all configurations, 2 objects, one tick.
* `Printf`: words of 2 digits of base 16 (8), 11 directives, 4 values (0, two powers of
  two, the largest), formats of two directives. `Caches`: 3 lines of 2 words, 2
  slots, one store and one call of every region: lines share a slot.
* `AesBlock` is run with two keys and one block. The registers carry the name of
  block and key, so a mixture is seen as soon as the keys of neighbours differ.

### Fairness

* `driver`: `WF` of `Tick` and `Cpu`, `cores`: `WF` of the clock: the clock runs
  and the processor executes. Neither stops in this system.
* `SF` of a grant: an Avalon master that keeps its request is granted in the end
  although the processor shares the memory. The arbiter Qsys generates is
  round-robin. It is strong fairness because a grant is possible only in
  `ST_READ` and `ST_WRITE`.
* `LedRefresh`: `WF(Clock)`. `OneShotTimer`: `WF(Tick)` (a running timer counts) and
  `WF(Step)` (the processor executes).
* `JtagUart`: `WF` of the interrupt routine, the alarm and the program's own steps (the
  processor executes), and of a connected host that polls and takes what there is;
  nothing is assumed of plugging it in. `SpiMaster`: `WF` of the core and of the loop.
* Nothing is assumed of resets or of the processor's accesses. `cipher` and the other
  parts of `library` and `hal` check no liveness and assume no fairness.

## 4. What is proved

With TLAPS, for every value of the constants that these assumptions allow; TLC
evaluates each of them on the runs.

| assumption | what it asks, and why the code justifies it |
|---|---|
| `ModAssumption`, `OpsAssumption` | `AddrMod` > 0, `LenMod` > 1; a register write carries data of its register's type, whatever else it is |
| `BlockAssumption`, `MemoryAssumption` | a block is four words; `AddrMod` is a multiple of 4 and at least 16 (2^32), a memory has one word for every four addresses |
| `LayoutAssumption`, `VectorAssumption` | `inputdata` and `outputdata` lie within the memory and share no word, the length is neither 0 nor 2^16; plaintext and key are four words of four bytes, as in main.c |
| `HeldReadData` | the interconnect still shows a word one clock after it granted the read: a hypothesis only of the theorems that name it |
| `GenericsAssumption` | the generics of the LED controller leave room for reset and column load |
| `TextsAssumption`; `ColoursAssumption` of `LedMatrix` | a text is a sequence of character codes; the colours of text and background differ from each other and from the old picture (so that a LED tells where it came from; the code only copies them) |
| `ColoursAssumption`, `ImagesAssumption`, `RectanglesAssumption` of `LedCanvas` | colours and pixels of images are colours; corners and sides of a rectangle are signed, between -10000 and 10000, so that no sum of two overflows: inside the canvas, across any of its borders, or outside |
| `DelaysAssumption` | a tick is no longer than a millisecond, and a delay fits the counter |
| `ClockAssumption`, and `StopsNext` = FALSE in `CallbacksOnTime` | the header of the list is no alarm; delays and periods are less than a round of the tick counter (with one of 2^32-1 ticks the alarm goes off at once, section 3); and no callback stops the alarm linked after its own, for which the theorem is false (section 3) |
| `TimestampAssumption`, `TimeAssumption`, `SleepAssumption` | widths and rates are positive, rates at most a million; a microsecond is at least one loop, the word is even and a loop fits its signed half |
| `Measurable` | sections are numbered from 0, and no measurement is longer than the two words of its counter (64 bits: ten thousand years at 50 MHz) |
| `JtagAssumption` | a circular buffer has more than one slot, the interrupt threshold is below the depth of the FIFO, as on the device, and the default time-out is between 2 and the largest `int` less 2 |
| `MaxLength` in Nat | lengths of SPI transactions are naturals |
| `FilesAssumption`, `StreamsAssumption` | there are more than the three standard descriptors; a device has the calls its record lists. For the streams only: they are not `/dev/null`, and their driver has neither `fstat` nor `lseek`, as in the UARTs that the generator gives them |
| `IrqAssumption`, `HeapAssumption` | interrupt numbers are naturals, handlers are not `None` (the null pointer); heap bounds and increments are naturals (`sbrk` is modelled giving memory out, not taking it back) |
| `FlashAssumption` | blocks are whole pages, and the sizes are positive; a write has any offset, on the device or not, and any data |
| `CachesAssumption`, `SectionsAssumption` | sizes are positive; the sections that `alt_load` finds lie in memory, and none is put where another is loaded from or put, or where it is itself loaded from unless it is in place already, as the linker lays them out |

Round functions, blocks, keys, memories, lengths and the number of register
writes, calls and resets are arbitrary.

* `AesFsmdProofs`: `TypeCorrect`, `AccumulatorsInStep`, and `CoreIsCipherUnit`,
  the refinement of `CipherUnit`. The invariant is `IInv == TypeOK /\ InStep`.
  `InStep` says that with `cnt = n` both accumulators are those of n rounds of
  `job`; its last conjunct, that `cnt` is 0 outside `ST_CNT`, is what makes it
  inductive, since `ST_LOAD` uses rcon(`cnt`). `ClockInv` proves it for any
  values on the ports, so that the accelerator can use it.
* `AesBlockProofs`: `PipelineInStep` and `Throughput`. `StagesInStep` is
  inductive as it stands; register i follows from register i-1 by lemma `Chain`.
* `AesAcceleratorProofs`: `TypeCorrect`, `NeverOutOfStep` (`Handshake`),
  `WritesBackCiphertext`, `CountsBlocks`, the action property `RequestsHeld`
  (`MasterHolds`), and, below, `WordsScattered`, `BlockAsInMemory` and
  `DoneMeansDelivered`. The invariant `Inv` adds to the properties the core's own
  invariant (used through `INSTANCE AesFsmdProofs`) and `BlockHeld`: while the
  core works, the block it sampled is still in `datas`. Without `BlockHeld` the
  last conjunct of `WritesCiphertext` is not inductive, because the ciphertext
  appears when the core leaves `ST_DONE` and the link from it to `datas` was
  made at `ST_LOAD`. `CoreEdge` summarises what one edge does to the core by its
  state; `HandshakeStep`, `CountStep` and `TypeStep` go through the controller's
  actions.

* `LedProofs`, about the controller: `TypeCorrect`, `ResetApartFromSelection` (`DeadCycle`),
  `ReadsGetTheWord` (`ReadsStored`, for a master that does not read twice in a row) and
  `DisplaysItsOwnColumn` (`ColumnShown`), for every frame rate and PWM width that
  `GenericsAssumption` allows, the 15 bits of the source included, any addresses and
  versions, and any number of resets. `ReadsStored` needs no
  invariant but the types: the window at count 25 decides it in one step. `ColumnShown` needs `LoadInv`, which follows the load
  through its five counters: in state `RST` with period count p, `reg_led_addr` is at row
  (p+1)/3, `q` holds the word of row p/3, the gamma register the colour p-1, and the
  upper p-1 entries of `reg_col` the colours before it (`InRst`); at count 24 those
  are all 24 (`Loaded`). `RstColors` is one count of it. A write of the bus may
  change a word behind the load; `StoredIn` allows for it and is kept by every clock
  (`MemoryKeeps`, `PortReads`).

* Still `AesAcceleratorProofs`: `WordsScattered` (`Scattered`) is about addresses modulo
  an arbitrary `AddrMod`. `OnCourse` says where the two address registers are
  after any number of words of the job, `CounterReset` that the word counter is 0
  between blocks; lemmas `Remainder` to `AddWrapped` are the arithmetic of a sum that
  wraps at every step or once at the end. `BlockAsInMemory` (`BlockFetched`)
  follows a word through `Fetching`: in `READ_END` the read data are the word that was
  requested. It assumes `HeldReadData`; without it the statement is false.
  `DoneMeansDelivered` (`Delivered`) needs `Delivering`, that the words of the block
  written so far lie in their places; `WordsApart` keeps the next write off them.
* `HwDriverProofs`: `RunsTheProgrammedJob` (`JobAsProgrammed`), `OneKeyForAll` (`OneKey`),
  `ReadyWhenDone` (`ResultReady`), and `NeverReportsError`, which no run lists since
  `ReportsCorrect` covers it there. `DriverInv` adds to the accelerator's invariants
  `Progress`: before the access number n the registers of the accesses before it hold
  what was written (`Programmed`) and the controller is idle, and once the start was
  written the job is the program's (`TheJob`), until a reset. The first theorem needs
  no more. The other three need `Shared`, where input and output
  lie in the memory: each write of the accelerator stores the word that already is there
  (`StoredAgain`), and a fetched block is the input because it is the memory
  (`Fetching`), so they assume `HeldReadData`.
* `LedProofs`, about the library: `TextIsWindow` (`ScreenIsWindow`), for texts of any length
  and character codes, all four routines. `ScreenOK` compares the matrix
  in the middle of a shift with the window it is to become: a register shows `Window` at
  `shifts`, or at `shifts + 1` if the loop has passed it (`Moved`). `Counted` is the
  sum of text columns and blanks that have entered, `Looping` the places the nested
  loops can be at, `Incoming` that `data` still holds the rows that have yet to enter. `FontRegular` is an
  evaluation of the table: in every byte the last three bits are 0, so that the
  shift by two in the code loses no pixel. `CanvasAsDrawn` (`TypeOK`, `BitmapByColumns`,
  `RectangleFilled`, `StaysInside`): for a bitmap, `Bitmapping` relates the loops over words and
  bits to the running position, `32 * i + j = 8 * x + y`; for a rectangle `Filling` says which
  pixels are past the loops; `Between` that a blend lies between its two colours. With a corner
  above the canvas two rows of a rectangle may meet in one pixel: `CoveredAgain` says that
  a second blend keeps what the first promised, `WordOfPixel` that words and pixels of the
  canvas correspond. What is written outside needs a negative corner: with both
  coordinates at least 0 every word is one of the 96.
* `TimersProofs`, about the system clock: `CallbacksOnTime` (`AlarmOnTime`), for every set of
  alarms and width of the tick counter, any order of starts and stops. The
  difficulty is `alt_tick`'s walk of a list which the callbacks
  change under it. `IInv` therefore says that a ranking r of the alarms exists
  along which the links, forwards and backwards, are a chain through exactly the started ones
  (`ListOK`, `Chained`): an insertion at the head takes a rank below all others, a
  removal none. `Pending(r)` is what the walk has yet to visit; of those alarms the
  invariant promises `InTurn` (due now or later), of the others `Ahead` (due
  later), where `Timed` and `rollover` relate the wrapped time to the tick that is due, whatever
  number of rounds the counter has made.
* `TimersProofs`, about `timer.c`: `WaitsExactly` (`WaitsLongEnough`) and `ElapsedInTheCall`
  (`GlobalInMs`), for registers of any width. `Counting` says that a timer that was
  started and runs has `count + since` equal to its period, and one that ran out has
  counted exactly one tick more; `SetUp` that nothing runs between the stop and the start
  of a set-up, so that no old timeout survives it. `Reading` follows
  `__timer_elapsed`: the snapshot, put together of two halves (`Halves`, `Joined`), is the time
  of one moment of the call.
* `TimersProofs`, about those who tell the time, together the four parts of `TimeKept`:
  `TimestampsTrue` (`StampReading`: the snapshot is the count of a tick between the call and now, and the
  program reads its halves from the snapshot, not from the counter), `TimeGoesOn`
  (until the counter wraps the time is that given and the ticks since; after a wrap the ticks of
  its turns are missing, but no time below 0 is given. The offset kept is that of the last
  setting, `Offset`; `TimeIsKept` takes both products apart into whole seconds and fractions,
  `Normalised` shows that the second borrowed is there, or that 0 is given for want of it),
  `SectionsTimed` (`Consistent`: both words are read while the measurement is stopped; `Listed`: a report
  lists the times of one moment), `SleepsAsAsked` (`BigLoops`, `NoBigLoop`: the iterations done
  and those that the register still stands for are a constant of the call, with 0 standing for
  a whole word; `SleepOver` sums them up against what was asked).
* `SerialProofs`, about the JTAG UART: `BytesInOrder` (`TypeOK`, `WrittenInOrder`, `ReadInOrder`) and
  `NeverAsleep` (`Armed`), for all sizes of buffers, FIFOs and writes, both drivers, and any number
  of bytes. Bytes are numbered, and the invariant says where a run of
  numbers lies: host, FIFO and circular buffer hold consecutive runs, up to those that a
  writer has copied and not yet passed on (`Copied`) or a reader copied and not yet freed (`Freeing`);
  `Ring` is a run in a circular buffer. `Awake` strengthens `Armed` to the moments
  in the middle of a call and of the interrupt routine.
* `SerialProofs`, about SPI: `ExchangedInOrder` (`Exchange`). The driver has one credit, so
  one byte at most is under way, and it is in one of four places (`Nowhere`, `SpiHeld`,
  `Shifted`, `Back`); hence the receiver cannot overrun.
* `SerialProofs`, about the EPCS flash: `WritesAsAsked` (`FlashAsWritten`), for every
  geometry, request and number of calls and resets. The invariant `FlashIInv` has three
  layers. `Position` and `OtherBlocks` place the call in its write: the blocks below its own
  are as they are to be, those above as they were. `Comparing`, `Erasing` and `Writing` say
  how far its own block is, which depends on whether the device has yet to do what the
  command says (`ToSend`) or has done it. `Commanding` and `Modes` say that the device takes
  each command: idle, latched, in the driver's address mode. `Underway` holds without a call
  too: an operation a reset has left in the device is within one block of the last write,
  and a driver that comes up meanwhile finds the device busy and does not register it. The
  proof showed that the property had to be stated for writes that begin on the device: one
  that begins before it writes nothing, its last bytes included, and returns 0.
* `HalProofs`: `InterruptsAsAsked` (`HandlersAsAsked` of `Interrupts`). A call's
  read, change and write of the mask are separate steps, and a handler makes the same
  calls. `Sections` says that interrupts are off exactly in the dispatcher and
  between a disable and its restore, nested sections of a registration included, and
  that what will be restored is right; `MaskKept` that `ienable` is what was asked for and
  that `alt_irq_active` lags behind only in the one call between its two steps;
  `TablePaired` that handler and context of an entry belong together but for the one
  registration between its writes.
* `HalProofs`: `MemoryGivenOnce` (`BlocksApart`). `EndCurrent`: the end a call has read is
  the end there is, since interrupts are off from its reading to its writing
  (`HeapSections`).
* `HalProofs`: `FilesOwned` (`DescriptorsOwned`, `StreamsAsDirect`) and the action property
  `LocksExclude` (`LockExcludes`), for pools of any size and any devices. The invariant `FsIInv`
  adds `GoodPool` (the streams are always open; no descriptor that is locked or on a device lies above
  `alt_max_fd`, so that a search up to it sees all locks) and, until `alt_io_redirect` has
  ended, `AsBooted`. `GivenOut` and `GivenBack` say what an open, with its search, its driver's answer and
  its undoing, does to the pool; each call is a step of the model, so they are lemmas and
  not parts of the invariant.
* `HalProofs`: `FlushesReachMemory` (`MemoryCoherent`), for every size of lines and caches,
  region and section. `StoresKept` is inductive. In a loop over a region, `Walking` says
  that the lines behind the address are clean; at its end, `RegionCleaned` says that the
  loop has met each line, with the one more that a start inside a line needs (`Cleaned`). A
  flush of all is a loop over lines in a row, and `EverySlotTaken` says that these take each
  slot once (`CacheCleaned`). `Copying` follows `alt_load`: the sections done and the words
  done of the present one are in their place (`InPlace`), the words to come unharmed where
  they are loaded from.

Theorems without a property in PROJECT.json state a type invariant, a consequence, or a
property that a run checks through an instance of the module: `StagesInStep` in
`MCAesCores`; `ScreenIsWindow`, `CanvasDrawn`, `WaitsLongEnough` and `GlobalInMs` in
`MCLibrary`; `BytesKept`, `DescriptorsOwned`, `LockExcludes`, `AlarmOnTime`, `TimeKept`,
`FlashAsWritten`, `MemoryCoherent`, `HandlersAsAsked` (its part about interrupts) and
`CallsRecorded` (its part about the heap) in `MCHal`.

Only model-checked:

* liveness, which is out of the prover's reach: `BusyEnds`, `ReportsCorrect`,
  `ReadAnswered`, `Refreshed`, `WaitReturns`, `CallsReturn`;
* `cipher`: `HdlRounds`, `SoftwareAes` and `CipherComparison` are on concrete bytes and use
  `Bitwise`, whose operators are recursive;
* of the BSP `PrintedBack` and the part of `CallsRecorded` about the profiler, which compare a run of
  steps with what a recursion over digits or a sum over lists gives, so that a proof for every input
  would need induction over data; and the part of `HandlersAsAsked` about start-up, whose model is
  a list of operations fixed by the configuration; TLC visits every configuration, with two objects.

## 5. Not modelled, and the plan

Done: the accelerator with its cores, its program and both ciphers; the LED
controller, its library, text and timer; and of the board support package every
driver and service that keeps state, in the configurations its sources provide for.

Not modelled:

* `aes_custom.vhd`, the custom-instruction wrapper: unfinished. It is in no file set and
  in no system, takes the operands at the indices 0, 2 and 4, counts a load in
  every clock that a state waits (line 144), and delivers no last word. There is no
  behaviour it promises, so there is nothing to hold it against.
* `bounce_filter.vhd`: two shift registers, connected to nothing in the AES design.
* `main.c`'s printing and its measurements; in the LED controller the comparison of a
  duty cycle with the PWM counter and the contents of the gamma table; the three
  channels of `leds96_rgb.c` as three.
* Of the BSP: the DMA interfaces (there is no device), the exception and
  instruction-emulation entries in assembler, the one-line system calls that return
  an error, `alt_times`, the sampling of the program counter and the stack check of the
  profiler, the hooks of the log, `alt_remap_cached`, the generated headers, of
  which the models take constants.
* `qsys_top.qsys` and the `config.*` files are descriptions of the generated
  interconnect. The models use the address map, the reset connections, the timer's
  fixed period and the absence of a data cache.

What is left:

1. An abstract specification of an engine that enciphers a queue of blocks from one
   place to another, refined by `AesAccelerator`.
2. `utils.c` with its waits, over `LedMatrix` and `OneShotTimer`.
