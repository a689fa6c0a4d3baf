-------------------------------- MODULE MCHal --------------------------------
(***************************************************************************)
(* The components of the board support package, one at a time.  Init       *)
(* chooses which ("part"); the variables x1 .. x23 are those of the chosen *)
(* component, in the order in which it declares them, and those it does    *)
(* not need stay 0.                                                        *)
(***************************************************************************)
EXTENDS Integers, Sequences, TLC

(* The files: a device that fails no open, one whose driver may, a         *)
(* filesystem with one file.                                               *)
Jtag == <<"dev", "jtag">>
Log == <<"dev", "log">>
ZipFs == <<"mnt">>
Zipped == <<"mnt", "f">>
MCDevices == {Jtag, Log}
MCFilesystems == {ZipFs}
MCFiles == {Jtag, Log, Zipped}
MCStreams == <<Jtag, Jtag, Jtag>>
MCCalls ==
  (Jtag :> {"read", "write"}) @@ (Log :> {"write", "open", "close"})
  @@ (<<"dev", "null">> :> {"write"})
  @@ (ZipFs :> {"open", "read", "write", "lseek", "fstat", "close"})

(* The writes to the flash: within a block, into the next, past the end,   *)
(* behind it, before the start, none.                                      *)
MCRequests ==
  LET O == {}  A == {1}  B == {2}  E == {1, 2}
  IN { [offset |-> 1, src |-> <<A, O, B>>], [offset |-> 3, src |-> <<B, E, A, A, O, B>>],
       [offset |-> 6, src |-> <<A, B, A>>], [offset |-> 8, src |-> <<A>>],
       [offset |-> -1, src |-> <<A, B, A>>],
       [offset |-> 0, src |-> <<A>>], [offset |-> 4, src |-> <<>>] }

(* The directives of a format: a sign, a field filled with spaces or with  *)
(* zeros, larger and smaller than what is in it; those of alt_printf.      *)
MCDirectives ==
  LET D(zero, width, long, letter) ==
        [zero |-> zero, width |-> width, long |-> long, letter |-> letter]
  IN { D(FALSE, 0, FALSE, "x"), D(TRUE, 5, FALSE, "d"), D(FALSE, 12, TRUE, "i"), D(FALSE, 2, FALSE, "u"),
       D(TRUE, 4, FALSE, "X"), D(FALSE, 0, FALSE, "o"), D(FALSE, 3, FALSE, "c"), D(FALSE, 4, FALSE, "s"),
       D(FALSE, 0, FALSE, "c"), D(FALSE, 0, FALSE, "s"), D(FALSE, 0, FALSE, "%") }

(* The sections alt_load finds: one to copy, one that is in place.         *)
MCSections == <<[from |-> 0, to |-> 3, end |-> 5], [from |-> 2, to |-> 2, end |-> 3]>>

-----------------------------------------------------------------------------
VARIABLES part,
  x1, x2, x3, x4, x5, x6, x7, x8, x9, x10, x11, x12, x13, x14, x15, x16,
  x17, x18, x19, x20, x21, x22, x23

after17 == <<x18, x19, x20, x21, x22, x23>>
after15 == <<x16, x17, after17>>
after14 == <<x15, after15>>
after13 == <<x14, after14>>
after10 == <<x11, x12, x13, after13>>
after9 == <<x10, after10>>
after8 == <<x9, after9>>
after6 == <<x7, x8, after8>>
after5 == <<x6, after6>>
allvars == <<part, x1, x2, x3, x4, x5, after5>>

Zero17 == x18 = 0 /\ x19 = 0 /\ x20 = 0 /\ x21 = 0 /\ x22 = 0 /\ x23 = 0
Zero15 == x16 = 0 /\ x17 = 0 /\ Zero17
Zero14 == x15 = 0 /\ Zero15
Zero13 == x14 = 0 /\ Zero14
Zero10 == x11 = 0 /\ x12 = 0 /\ x13 = 0 /\ Zero13
Zero9 == x10 = 0 /\ Zero10
Zero8 == x9 = 0 /\ Zero9
Zero6 == x7 = 0 /\ x8 = 0 /\ Zero8
Zero5 == x6 = 0 /\ Zero6

-----------------------------------------------------------------------------
Uart == INSTANCE JtagUart WITH
  BufLen <- 3, Depth <- 1, WriteThreshold <- 0, DefaultTimeout <- 2,
  IntMax <- 4, Timeouts <- {1, 2}, WriteSizes <- {2, 3}, MaxBytes <- 4,
  MaxPlugs <- 1,
  small <- x1, clock <- x2, timeout <- x3, host_inactive <- x4,
  irq_enable <- x5, rx_in <- x6, rx_out <- x7, tx_in <- x8, tx_out <- x9,
  rx_buf <- x10, tx_buf <- x11, control <- x12, ac <- x13, wfifo <- x14,
  rfifo <- x15, isr <- x16, app <- x17, connected <- x18, plugs <- x19,
  sent <- x20, seen <- x21, told <- x22, got <- x23

Hal == INSTANCE HalFiles WITH
  ALT_MAX_FD <- 5, Calls <- MCCalls, Devices <- MCDevices,
  Filesystems <- MCFilesystems, Files <- MCFiles, Streams <- MCStreams,
  dev_list <- x1, fs_list <- x2, pool <- x3, boot <- x4, owned <- x5

Sys == INSTANCE SystemClock WITH
  Alarms <- {"a", "b", "c"}, alt_alarm_list <- "head", W <- 4, Delays <- {0, 2},
  Periods <- {0, 1, 3}, StopsNext <- FALSE, MaxTicks <- 6,
  rate <- x1, nticks <- x2, total <- x3, next <- x4, previous <- x5,
  time <- x6, rollover <- x7, tick <- x8, due <- x9, fired <- x10

Day == INSTANCE TimeOfDay WITH
  W <- 32, US <- 12, Rates <- {0, 3, 4, 5}, Seconds <- {0, 1, 9}, Fractions <- {0, 5, 11},
  nticks <- x1, tick_rate <- x2, resettime <- x3, given <- x4, wrapped <- x5

Flash == INSTANCE EpcsFlash WITH
  Blocks <- 2, BlockSize <- 4, PageSize <- 2, ChunkSize <- 3,
  FourBytes <- BOOLEAN, Bits <- {1, 2}, Requests <- MCRequests,
  MaxCalls <- 3, MaxResets <- 2,
  mem <- x1, big <- x2, wel <- x3, wip <- x4, addr4 <- x5,
  four_bytes_mode <- x6, registered <- x7, call <- x8, cmd <- x9,
  req <- x10, before <- x11, returned <- x12, calls <- x13, resets <- x14

Spi == INSTANCE SpiMaster WITH
  MaxLength <- 3, Stale <- {99},
  write_length <- x1, read_length <- x2, merge <- x3, toggle <- x4,
  pc <- x5, credits <- x6, sent <- x7, zeros <- x8, ignored <- x9,
  read_data <- x10, status <- x11, txdata <- x12, shift <- x13,
  rxdata <- x14, selected <- x15, exchanged <- x16, overrun <- x17

Perf == INSTANCE PerfCounter WITH
  Sections <- {0, 1}, HALF <- 3, MaxClocks <- 8,
  time <- x1, starts <- x2, on <- x3, elapsed <- x4, reading <- x5, report <- x6

Irq == INSTANCE Interrupts WITH
  Irqs <- {0, 1}, Handlers <- {"g", "h"}, None <- "none", MaxCalls <- 3,
  pie <- x1, ienable <- x2, line <- x3, alt_irq_active <- x4, alt_irq <- x5,
  proc <- x6, isr <- x7, asked <- x8, served <- x9, calls <- x10

Prof == INSTANCE Profiler WITH
  Functions <- {1, 2}, Callers <- {3, 4}, SlabRecords <- 3,
  HeapRecords <- 11, MaxCalls <- 3,
  memory <- x1, fn_head <- x2, slab_ptr <- x3, slab_size <- x4,
  heap_end <- x5, proc <- x6, called <- x7, torn <- x8, calls <- x9,
  ticking <- x10, pcsample_need_init <- x11, alarms <- x12, raced <- x13

Prn == INSTANCE Printf WITH
  Nibbles <- 2, Directives <- MCDirectives, Values <- {0, 16, 128, 255},
  printer <- x1, asked <- x2, fmt <- x3, args <- x4, state <- x5,
  spec <- x6, v <- x7, p <- x8, out <- x9

Stamp == INSTANCE Timestamp WITH
  Half <- 3, FREQ <- 5, MaxTicks <- 11,
  freq <- x1, pc <- x2, lower <- x3, result <- x4, period <- x5,
  count <- x6, running <- x7, snap <- x8, since <- x9, atCall <- x10

Sleep == INSTANCE BusySleep WITH
  W <- 16, LoopsPerUs <- 3,
  asked <- x1, pc <- x2, us <- x3, big_loops <- x4, i <- x5,
  register <- x6, hoisted <- x7, spent <- x8

Cache == INSTANCE Caches WITH
  Lines <- 3, LineSize <- 2, Slots <- 2, Sections <- MCSections,
  MaxStores <- 1, MaxCalls <- 1,
  mem <- x1, view <- x2, dcache <- x3, icache <- x4, code <- x5,
  pc <- x6, call <- x7, i <- x8, stores <- x9, calls <- x10

Brk == INSTANCE Heap WITH
  Start <- 2, Limit <- 20, Increments <- {0, 3, 8}, MaxCalls <- 4,
  heap_end <- x1, pie <- x2, proc <- x3, blocks <- x4, refused <- x5, calls <- x6

Boot == INSTANCE Startup WITH
  Objects <- 2, MaxTicks <- 1,
  config <- x1, todo <- x2, pie <- x3, ienable <- x4, line <- x5,
  asserting <- x6, handlers <- x7, tick_rate <- x8, nticks <- x9,
  ts_freq <- x10, second <- x11, devices <- x12, streams <- x13,
  objects <- x14, dtors <- x15

ASSUME Assumptions ==
  /\ Uart!JtagAssumption /\ Hal!FilesAssumption /\ Hal!StreamsAssumption /\ Sys!ClockAssumption /\ Day!TimeAssumption
  /\ Flash!FlashAssumption /\ Perf!PerfAssumption /\ Irq!IrqAssumption
  /\ Prn!PrintfAssumption /\ Stamp!TimestampAssumption /\ Sleep!SleepAssumption
  /\ Cache!CachesAssumption /\ Cache!SectionsAssumption /\ Brk!HeapAssumption /\ Boot!StartupAssumption

-----------------------------------------------------------------------------
HalInit ==
  \/ part = "uart" /\ Uart!Init
  \/ part = "files" /\ Hal!Init /\ Zero5
  \/ part = "alarms" /\ Sys!Init /\ Zero10
  \/ part = "day" /\ Day!Init /\ Zero5
  \/ part = "flash" /\ Flash!Init /\ Zero14
  \/ part = "spi" /\ Spi!Init /\ Zero17
  \/ part = "perf" /\ Perf!Init /\ Zero6
  \/ part = "irq" /\ Irq!Init /\ Zero10
  \/ part = "mcount" /\ Prof!Init /\ Zero13
  \/ part = "printf" /\ Prn!Init /\ Zero9
  \/ part = "stamp" /\ Stamp!Init /\ Zero10
  \/ part = "sleep" /\ Sleep!Init /\ Zero8
  \/ part = "caches" /\ Cache!Init /\ Zero10
  \/ part = "heap" /\ Brk!Init /\ Zero6
  \/ part = "startup" /\ Boot!Init /\ Zero15

HalNext ==
  \/ part = "uart" /\ Uart!Next /\ UNCHANGED part
  \/ part = "files" /\ Hal!Next /\ UNCHANGED <<part, after5>>
  \/ part = "alarms" /\ Sys!Next /\ UNCHANGED <<part, after10>>
  \/ part = "day" /\ Day!Next /\ UNCHANGED <<part, after5>>
  \/ part = "flash" /\ Flash!Next /\ UNCHANGED <<part, after14>>
  \/ part = "spi" /\ Spi!Next /\ UNCHANGED <<part, after17>>
  \/ part = "perf" /\ Perf!Next /\ UNCHANGED <<part, after6>>
  \/ part = "irq" /\ Irq!Next /\ UNCHANGED <<part, after10>>
  \/ part = "mcount" /\ Prof!Next /\ UNCHANGED <<part, after13>>
  \/ part = "printf" /\ Prn!Next /\ UNCHANGED <<part, after9>>
  \/ part = "stamp" /\ Stamp!Next /\ UNCHANGED <<part, after10>>
  \/ part = "sleep" /\ Sleep!Next /\ UNCHANGED <<part, after8>>
  \/ part = "caches" /\ Cache!Next /\ UNCHANGED <<part, after10>>
  \/ part = "heap" /\ Brk!Next /\ UNCHANGED <<part, after6>>
  \/ part = "startup" /\ Boot!Next /\ UNCHANGED <<part, after15>>

(* The fairness of the two components that wait for something; the same as  *)
(* in their own specifications.                                            *)
UartSteps(step) == part = "uart" /\ step /\ UNCHANGED part
SpiSteps(step) == part = "spi" /\ step /\ UNCHANGED <<part, after17>>

HalSpec ==
  /\ HalInit /\ [][HalNext]_allvars
  /\ WF_allvars(UartSteps(Uart!Isr))
  /\ WF_allvars(UartSteps(Uart!Second))
  /\ WF_allvars(UartSteps(Uart!Write \/ Uart!Read \/ Uart!Close))
  /\ WF_allvars(UartSteps(Uart!HostTake))
  /\ WF_allvars(UartSteps(Uart!HostPoll))
  /\ WF_allvars(SpiSteps(Spi!Load))
  /\ WF_allvars(SpiSteps(Spi!Shift))
  /\ WF_allvars(SpiSteps(Spi!Transaction))

(* The file layer alone.                                                   *)
FilesSpec == HalInit /\ part = "files" /\ [][HalNext]_allvars

-----------------------------------------------------------------------------
(* Properties: those of the components.                                    *)

(* The JTAG UART neither loses, repeats nor reorders a byte in either      *)
(* direction, between program, circular buffers, interrupt routine, FIFOs  *)
(* and host, and leaves none behind with its interrupt turned off.  An SPI *)
(* transaction exchanges the bytes it was asked to and loses none.         *)
BytesKept ==
  /\ part = "uart" => Uart!TypeOK /\ Uart!WrittenInOrder /\ Uart!ReadInOrder /\ Uart!Armed
  /\ part = "spi" => Spi!Exchange

(* A write or a close of the JTAG UART returns, unless it waits for a host *)
(* that is gone and is never given up; an SPI transaction returns.         *)
CallPending ==
  \/ part = "uart" /\ Uart!Waits
  \/ part = "spi" /\ ~Spi!Done
CallReturned ==
  \/ part = "uart" /\ Uart!Returns
  \/ part = "spi" /\ Spi!Done
CallsReturn == CallPending ~> CallReturned

(* A file descriptor is in use from the open that returned it to its       *)
(* close, on the device that was opened, and the standard streams go where *)
(* the build with direct drivers has them go.                              *)
DescriptorsOwned ==
  part = "files" => Hal!DescriptorsOwned /\ Hal!StreamsAsDirect

(* Once a device is locked no open of it succeeds until it is unlocked.    *)
LockExcludes == [][part = "files" => Hal!NotLocked]_allvars

(* A lock of a device is granted to its only descriptor, as alt_fd_lock    *)
(* promises.                                                               *)
ExclusiveAlone == [][part = "files" => Hal!LockedAlone]_allvars

(* Alarms go off in the tick they are due, however the tick counter wraps, *)
(* and though callbacks stop and start alarms in the list that alt_tick    *)
(* walks: any of them but the one linked after their own.                  *)
AlarmOnTime == part = "alarms" => Sys!AlarmOnTime

(* Whatever tells the time tells it right: the time of day goes on from    *)
(* the time that was set, until the tick counter wraps, which takes it     *)
(* back by all the ticks of a word; a reading or a report of the           *)
(* performance counter is the time that was measured; a timestamp is the   *)
(* ticks since the start, or 0 after a full period; and a busy sleep is no *)
(* shorter than it was asked to be.                                        *)
TimeKept ==
  /\ part = "day" => Day!TimeKept
  /\ part = "perf" => Perf!SectionTimes
  /\ part = "stamp" => Stamp!TimestampTrue
  /\ part = "sleep" => Sleep!SleptAsAsked

(* A write to the flash that returned has written what was asked, and no   *)
(* write, finished or cut short by a reset, touches the blocks of others.  *)
FlashAsWritten == part = "flash" => Flash!FlashAsWritten

(* Both printers print what the directives of the format promise, each     *)
(* with its own argument.                                                  *)
PrintedBack == part = "printf" => Prn!PrintedBack

(* After a flush the processor, its memory and what it fetches agree about *)
(* the region, and no store is lost that was not discarded.                *)
MemoryCoherent == part = "caches" => Cache!MemoryCoherent

(* No enabling or disabling of an interrupt by program or handler is lost, *)
(* and a handler is called with its own context and when enabled; from     *)
(* reset to main no interrupt comes without its handler, and main finds    *)
(* what the drivers of the build have set up.                              *)
HandlersAsAsked ==
  /\ part = "irq" => Irq!HandlersAsAsked
  /\ part = "startup" => Boot!StartedUp

(* The profiler counts every call, with an interrupt in any place, but for *)
(* the increments the interrupt cuts in two, and starts its sampler once,  *)
(* or twice if an interrupt comes between the test and the clear of its    *)
(* flag; the memory sbrk gives out is given out once and lies in the heap. *)
CallsRecorded ==
  /\ part = "mcount" => Prof!CallsRecorded /\ Prof!SamplerStarted
  /\ part = "heap" => Brk!BlocksApart
=============================================================================
