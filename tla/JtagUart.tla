------------------------------ MODULE JtagUart ------------------------------
(***************************************************************************)
(* The driver of the JTAG UART, stdin and stdout of the program, in both   *)
(* of its builds: the small one, which polls the device and is what this   *)
(* system is configured with, and the fast one, which moves the bytes      *)
(* between two circular buffers and the device in an interrupt routine and *)
(* gives up on a host that has been silent for timeout seconds.            *)
(*                                                                         *)
(* One processor: the interrupt routine and the alarm preempt the caller   *)
(* between any two of its steps, never each other; the device and the host *)
(* at the far end of the cable move all the time.  Bytes are numbered, so  *)
(* that a lost, repeated or reordered one is seen.                         *)
(***************************************************************************)
EXTENDS Integers, Sequences, FiniteSetsExt

CONSTANTS
  BufLen,          \* ALTERA_AVALON_JTAG_UART_BUF_LEN
  Depth,           \* length of the FIFOs of the device
  WriteThreshold,  \* of the device: WI is raised at this many bytes or fewer
  DefaultTimeout,  \* ALTERA_AVALON_JTAG_UART_DEFAULT_TIMEOUT, seconds
  IntMax,          \* INT_MAX
  Timeouts,        \* what the program asks of TIOCSTIMEOUT
  WriteSizes,      \* of the program's writes, in bytes
  MaxBytes,        \* bounds the bytes of both directions together
  MaxPlugs         \* bounds how often the cable is pulled or plugged in

JtagAssumption ==
  /\ BufLen \in Nat /\ BufLen > 1
  /\ Depth \in Nat /\ WriteThreshold \in Nat /\ Depth > WriteThreshold
  /\ DefaultTimeout \in Nat /\ IntMax \in Nat
  /\ 1 < DefaultTimeout /\ DefaultTimeout <= IntMax - 2
  /\ Timeouts \subseteq Int /\ WriteSizes \subseteq Nat \ {0}

VARIABLES
  small, clock,             \* the build; whether there is a system clock
  timeout, host_inactive, irq_enable,
  rx_in, rx_out, tx_in, tx_out, rx_buf, tx_buf,
  control, ac, wfifo, rfifo,    \* the device: RE and WE, AC, its FIFOs
  isr,                          \* the interrupt routine and its locals
  app,                          \* the call in progress and its locals
  connected, plugs, sent, seen, \* the host: seen is what it took
  told, got                     \* bytes reported written; bytes read

buffers == <<rx_in, rx_out, tx_in, tx_out, rx_buf, tx_buf>>
settings == <<small, clock, timeout>>
device == <<control, ac, wfifo, rfifo>>
host == <<connected, plugs, sent, seen>>
user == <<told, got>>
vars == <<settings, host_inactive, irq_enable, buffers, device, isr, app, host, user>>

IsrOff == [pc |-> "off", wi |-> FALSE, space |-> 0, avail |-> FALSE]
Again == [IsrOff EXCEPT !.pc = "control"]
Idle == [op |-> "none", pc |-> "idle", left |-> 0, done |-> 0, at |-> 0, n |-> 0, nonblock |-> FALSE]
Slots == 0 .. BufLen - 1
Wrap(i) == i % BufLen

\* altera_avalon_jtag_uart_init; without a system clock alt_alarm_start fails.
Init ==
  /\ small \in BOOLEAN /\ clock \in BOOLEAN
  /\ timeout = IF clock THEN DefaultTimeout ELSE IntMax
  /\ host_inactive = 0
  /\ irq_enable = IF small THEN {} ELSE {"RE"}
  /\ rx_in = 0 /\ rx_out = 0 /\ tx_in = 0 /\ tx_out = 0
  /\ rx_buf = [i \in Slots |-> 0] /\ tx_buf = [i \in Slots |-> 0]
  /\ control = irq_enable /\ ac = FALSE /\ wfifo = <<>> /\ rfifo = <<>>
  /\ isr = IsrOff /\ app = Idle
  /\ connected \in BOOLEAN /\ plugs = 0 /\ sent = 0 /\ seen = <<>>
  /\ told = 0 /\ got = <<>>

-----------------------------------------------------------------------------
(* The device and the host.                                                *)

RI == "RE" \in control /\ rfifo # <<>>
WI == "WE" \in control /\ Len(wfifo) <= WriteThreshold
WSPACE == Depth - Len(wfifo)

HostTake ==
  /\ connected /\ wfifo # <<>>
  /\ seen' = Append(seen, Head(wfifo)) /\ wfifo' = Tail(wfifo)
  /\ UNCHANGED <<settings, host_inactive, irq_enable, buffers, control, ac, rfifo, isr, app,
                 connected, plugs, sent, user>>

Written == told + IF app.op = "write" THEN app.left + app.done ELSE 0

HostSend ==
  /\ connected /\ sent + Written < MaxBytes /\ Len(rfifo) < Depth
  /\ sent' = sent + 1 /\ rfifo' = Append(rfifo, sent + 1)
  /\ UNCHANGED <<settings, host_inactive, irq_enable, buffers, control, ac, wfifo, isr, app,
                 connected, plugs, seen, user>>

HostPoll ==
  /\ connected /\ ~ac
  /\ ac' = TRUE
  /\ UNCHANGED <<settings, host_inactive, irq_enable, buffers, control, wfifo, rfifo, isr, app,
                 host, user>>

HostPlug ==
  /\ plugs < MaxPlugs
  /\ plugs' = plugs + 1 /\ connected' = ~connected
  /\ UNCHANGED <<settings, host_inactive, irq_enable, buffers, device, isr, app, sent, seen, user>>

-----------------------------------------------------------------------------
(* altera_avalon_jtag_uart_irq, an access to the device per step.          *)

IsrEnter ==
  /\ ~small /\ isr.pc = "off" /\ (RI \/ WI)
  /\ isr' = Again
  /\ UNCHANGED <<settings, host_inactive, irq_enable, buffers, device, app, host, user>>

IsrControl ==
  /\ isr.pc = "control"
  /\ isr' = IF RI \/ WI
            THEN [pc |-> IF RI THEN "receive" ELSE "transmit", wi |-> WI, space |-> WSPACE, avail |-> TRUE]
            ELSE IsrOff
  /\ UNCHANGED <<settings, host_inactive, irq_enable, buffers, device, app, host, user>>

AfterReceive == IF isr.wi THEN [isr EXCEPT !.pc = "transmit", !.avail = FALSE] ELSE Again

\* There is room: take a byte, or learn that there is none.
IsrReceive ==
  /\ isr.pc = "receive" /\ Wrap(rx_in + 1) # rx_out
  /\ IF rfifo = <<>>
     THEN /\ isr' = AfterReceive
          /\ UNCHANGED <<rx_buf, rx_in, rfifo>>
     ELSE /\ isr' = [isr EXCEPT !.avail = Len(rfifo) > 1]
          /\ rx_buf' = [rx_buf EXCEPT ![rx_in] = Head(rfifo)]
          /\ rx_in' = Wrap(rx_in + 1)
          /\ rfifo' = Tail(rfifo)
  /\ UNCHANGED <<settings, host_inactive, irq_enable, rx_out, tx_in, tx_out, tx_buf,
                 control, ac, wfifo, app, host, user>>

IsrReceiveFull ==
  /\ isr.pc = "receive" /\ Wrap(rx_in + 1) = rx_out
  /\ irq_enable' = IF isr.avail THEN irq_enable \ {"RE"} ELSE irq_enable
  /\ control' = IF isr.avail THEN irq_enable' ELSE control
  /\ isr' = AfterReceive
  /\ UNCHANGED <<settings, host_inactive, buffers, ac, wfifo, rfifo, app, host, user>>

IsrTransmit ==
  /\ isr.pc = "transmit" /\ isr.space > 0 /\ tx_out # tx_in
  /\ wfifo' = Append(wfifo, tx_buf[tx_out])
  /\ tx_out' = Wrap(tx_out + 1)
  /\ isr' = [isr EXCEPT !.space = @ - 1]
  /\ UNCHANGED <<settings, host_inactive, irq_enable, rx_in, rx_out, tx_in, rx_buf, tx_buf,
                 control, ac, rfifo, app, host, user>>

IsrTransmitted ==
  /\ isr.pc = "transmit" /\ (isr.space = 0 \/ tx_out = tx_in)
  /\ irq_enable' = IF isr.space > 0 THEN irq_enable \ {"WE"} ELSE irq_enable
  /\ control' = IF isr.space > 0 THEN irq_enable' ELSE control
  /\ isr' = Again
  /\ UNCHANGED <<settings, host_inactive, buffers, ac, wfifo, rfifo, app, host, user>>

\* altera_avalon_jtag_uart_timeout, called by the alarm every second.
Second ==
  /\ ~small /\ clock /\ isr.pc = "off"
  /\ IF ac
     THEN control' = irq_enable /\ ac' = FALSE /\ host_inactive' = 0
     ELSE /\ host_inactive' = IF host_inactive < IntMax - 2 THEN host_inactive + 1 ELSE host_inactive
          /\ UNCHANGED <<control, ac>>
  /\ UNCHANGED <<settings, irq_enable, buffers, wfifo, rfifo, isr, app, host, user>>

-----------------------------------------------------------------------------
(* The calls.  The program writes on from where the last call got to.  The *)
(* caller moves when the interrupt routine does not.                       *)

Running(op, pc) == isr.pc = "off" /\ app.op = op /\ app.pc = pc
Goto(pc) == app' = [app EXCEPT !.pc = pc]

Call(op, pc, counts) ==
  /\ Running("none", "idle")
  /\ \E left \in counts, nonblock \in BOOLEAN :
       app' = [Idle EXCEPT !.op = op, !.pc = pc, !.left = left, !.nonblock = nonblock]
  /\ UNCHANGED <<settings, host_inactive, irq_enable, buffers, device, isr, host, user>>

CallWrite == Call("write", IF small THEN "poll" ELSE "space", WriteSizes \cap 1 .. MaxBytes - told - sent)
CallRead == Call("read", IF small THEN "poll" ELSE "look", 1 .. 2)
CallClose == ~small /\ Call("close", "drain", {0})

Return ==
  /\ app' = Idle
  /\ told' = IF app.op = "write" THEN told + app.done ELSE told

SpaceToTheBrim(in, out) ==     \* mutant: a full buffer looks empty
  IF in < out THEN out - in
  ELSE IF out > 0 THEN BufLen - in ELSE BufLen - 1 - in

\* What may be copied without passing the end of the buffer or tx_out.
Space(in, out) ==
  IF in < out THEN out - 1 - in
  ELSE IF out > 0 THEN BufLen - in ELSE BufLen - 1 - in

\* The pointers are read and the bytes copied, ahead of tx_in.
WriteCopy ==
  /\ Running("write", "space")
  /\ LET n == Min({Space(tx_in, tx_out), app.left})
     IN /\ tx_buf' = [i \in Slots |->
                        IF i \in tx_in .. tx_in + n - 1 THEN told + app.done + 1 + (i - tx_in)
                        ELSE tx_buf[i]]
        /\ app' = [app EXCEPT !.at = IF n = 0 THEN tx_out ELSE 0, !.n = n, !.pc = IF n = 0 THEN "kick" ELSE "advance"]
  /\ UNCHANGED <<settings, host_inactive, irq_enable, rx_in, rx_out, tx_in, tx_out, rx_buf,
                 device, isr, host, user>>

WriteAdvance ==
  /\ Running("write", "advance")
  /\ tx_in' = Wrap(tx_in + app.n)
  /\ app' = [app EXCEPT !.done = @ + app.n, !.left = @ - app.n, !.n = 0,
                        !.pc = IF app.left = app.n THEN "kick" ELSE "space"]
  /\ UNCHANGED <<settings, host_inactive, irq_enable, rx_in, rx_out, tx_out, rx_buf, tx_buf,
                 device, isr, host, user>>

\* Interrupts are off for the update of irq_enable.
WriteKick ==
  /\ Running("write", "kick")
  /\ irq_enable' = irq_enable \union {"WE"} /\ control' = irq_enable'
  /\ IF app.left = 0 \/ app.nonblock
     THEN Return
     ELSE Goto("spin") /\ UNCHANGED told
  /\ UNCHANGED <<settings, host_inactive, buffers, ac, wfifo, rfifo, isr, host, got>>

WriteSpinHoisted ==            \* mutant: host_inactive is not looked at again
  /\ Running("write", "spin")
  /\ app.at # tx_out
  /\ Goto("inactive")
  /\ UNCHANGED <<settings, host_inactive, irq_enable, buffers, device, isr, host, user>>

\* The loop ends when a byte has left the buffer or the host is given up;
\* host_inactive and timeout are not volatile, but taken to be read again.
WriteSpin ==
  /\ Running("write", "spin")
  /\ ~(app.at = tx_out /\ host_inactive < timeout)
  /\ Goto("inactive")
  /\ UNCHANGED <<settings, host_inactive, irq_enable, buffers, device, isr, host, user>>

WriteInactive ==
  /\ Running("write", "inactive")
  /\ IF host_inactive > 0 THEN Return ELSE Goto("space") /\ UNCHANGED told
  /\ UNCHANGED <<settings, host_inactive, irq_enable, buffers, device, isr, host, got>>

ReadCopy ==
  /\ Running("read", "look")
  /\ LET some == IF rx_in >= rx_out THEN rx_in - rx_out ELSE BufLen - rx_out
         n == Min({some, app.left})
     IN /\ got' = got \o [i \in 1 .. n |-> rx_buf[rx_out + i - 1]]
        /\ app' = [app EXCEPT !.at = IF n = 0 THEN rx_in ELSE 0, !.n = n, !.done = @ + n, !.left = @ - n,
                     !.pc = IF n > 0 THEN "advance"
                            ELSE IF app.done > 0 THEN "arm"
                            ELSE IF app.nonblock THEN "return" ELSE "spin"]
  /\ UNCHANGED <<settings, host_inactive, irq_enable, buffers, device, isr, host, told>>

ReadAdvance ==
  /\ Running("read", "advance")
  /\ rx_out' = Wrap(rx_out + app.n)
  /\ app' = [app EXCEPT !.n = 0, !.pc = IF app.left > 0 THEN "look" ELSE "arm"]
  /\ UNCHANGED <<settings, host_inactive, irq_enable, rx_in, tx_in, tx_out, rx_buf, tx_buf,
                 device, isr, host, user>>

ReadSpin ==
  /\ Running("read", "spin")
  /\ ~(app.at = rx_in /\ host_inactive < timeout)
  /\ Goto("late")
  /\ UNCHANGED <<settings, host_inactive, irq_enable, buffers, device, isr, host, user>>

ReadLate ==
  /\ Running("read", "late")
  /\ Goto(IF app.at = rx_in THEN "return" ELSE "look")
  /\ UNCHANGED <<settings, host_inactive, irq_enable, buffers, device, isr, host, user>>

ReadArm ==
  /\ Running("read", "arm")
  /\ irq_enable' = irq_enable \union {"RE"} /\ control' = irq_enable'
  /\ Return
  /\ UNCHANGED <<settings, host_inactive, buffers, ac, wfifo, rfifo, isr, host, got>>

ReadNothing ==
  /\ Running("read", "return")
  /\ Return
  /\ UNCHANGED <<settings, host_inactive, irq_enable, buffers, device, isr, host, got>>

\* altera_avalon_jtag_uart_close; without blocking it returns at once.
Drained == tx_out = tx_in \/ host_inactive >= timeout
Close ==
  /\ Running("close", "drain")
  /\ Drained \/ app.nonblock
  /\ Return
  /\ UNCHANGED <<settings, host_inactive, irq_enable, buffers, device, isr, host, got>>

\* TIOCSTIMEOUT; INT_MAX, no system clock, stays.
SetTimeout ==
  /\ ~small /\ Running("none", "idle") /\ timeout # IntMax
  /\ \E t \in Timeouts : timeout' = IF t >= 2 /\ t < IntMax THEN t ELSE IntMax - 1
  /\ UNCHANGED <<small, clock, host_inactive, irq_enable, buffers, device, isr, app, host, user>>

\* The small driver: a pass of its loop a step.
SmallWrite ==
  /\ Running("write", "poll") /\ WSPACE > 0
  /\ wfifo' = Append(wfifo, told + app.done + 1)
  /\ IF app.left = 1
     THEN app' = Idle /\ told' = told + app.done + 1
     ELSE app' = [app EXCEPT !.left = @ - 1, !.done = @ + 1] /\ UNCHANGED told
  /\ UNCHANGED <<settings, host_inactive, irq_enable, buffers, control, ac, rfifo, isr, host, got>>

SmallRead ==
  /\ Running("read", "poll")
  /\ IF rfifo # <<>>
     THEN /\ got' = Append(got, Head(rfifo)) /\ rfifo' = Tail(rfifo)
          /\ app' = IF app.left = 1 THEN Idle ELSE [app EXCEPT !.left = @ - 1, !.done = @ + 1]
     ELSE /\ app.done > 0 \/ app.nonblock
          /\ app' = Idle /\ UNCHANGED <<got, rfifo>>
  /\ UNCHANGED <<settings, host_inactive, irq_enable, buffers, control, ac, wfifo, isr, host, told>>

-----------------------------------------------------------------------------
Isr == IsrEnter \/ IsrControl \/ IsrReceive \/ IsrReceiveFull \/ IsrTransmit \/ IsrTransmitted
Write == WriteCopy \/ WriteAdvance \/ WriteKick \/ WriteSpin \/ WriteInactive \/ SmallWrite
Read == ReadCopy \/ ReadAdvance \/ ReadSpin \/ ReadLate \/ ReadArm \/ ReadNothing \/ SmallRead

Next ==
  \/ HostTake \/ HostSend \/ HostPoll \/ HostPlug
  \/ Isr \/ Second
  \/ CallWrite \/ CallRead \/ CallClose \/ SetTimeout
  \/ Write \/ Read \/ Close

(* The processor runs, the alarm goes off every second, and a host that is *)
(* connected polls and takes what there is.                                *)
Fairness ==
  /\ WF_vars(Isr) /\ WF_vars(Second) /\ WF_vars(Write \/ Read \/ Close)
  /\ WF_vars(HostTake) /\ WF_vars(HostPoll)

Spec == Init /\ [][Next]_vars /\ Fairness

-----------------------------------------------------------------------------
TypeOK ==
  /\ small \in BOOLEAN /\ clock \in BOOLEAN /\ timeout \in 2 .. IntMax
  /\ host_inactive \in 0 .. IntMax - 2
  /\ {rx_in, rx_out, tx_in, tx_out} \subseteq Slots
  /\ irq_enable \subseteq {"RE", "WE"} /\ control \subseteq {"RE", "WE"}
  /\ Len(wfifo) <= Depth /\ Len(rfifo) <= Depth

(* The bytes of a circular buffer, from out up to in.                      *)
Held(buf, out, in) == [i \in 1 .. Wrap(in - out + BufLen) |-> buf[Wrap(out + i - 1)]]

(* Nothing the program wrote is lost, repeated or overtaken on its way     *)
(* through the circular buffer and the FIFO to the host, and what a call   *)
(* reported as written, a call cut short by a silent host or by O_NONBLOCK *)
(* included, is what was taken from the caller.                            *)
WrittenInOrder ==
  LET way == seen \o wfifo \o Held(tx_buf, tx_out, tx_in)
      ahead == IF app.op = "write" THEN app.done ELSE 0
  IN way = [i \in 1 .. told + ahead |-> i]

(* Every byte the host sent is read once and in order: the interrupt       *)
(* routine never overruns the reader.                                      *)
ReadInOrder ==
  LET pending == IF app.op = "read" /\ app.pc = "advance" THEN app.n ELSE 0
  IN got \o Held(rx_buf, Wrap(rx_out + pending), rx_in) \o rfifo = [i \in 1 .. sent |-> i]

(* Neither direction goes to sleep: the receive interrupt is off only      *)
(* while there is something to read, or a reader is about to turn it on;   *)
(* the transmit interrupt is off only when there is nothing to send, or a  *)
(* writer is about to turn it on.                                          *)
Armed ==
  ~small /\ isr.pc = "off" =>
    /\ "RE" \in control \/ rx_in # rx_out \/ (app.op = "read" /\ app.done > 0)
    /\ "WE" \in control \/ tx_in = tx_out \/ (app.op = "write" /\ app.pc \in {"space", "advance", "kick"})

(* A blocking write and a close return: the host takes the bytes, or it is *)
(* given up.  Without a clock, or with the small driver, they wait for the *)
(* host for ever.                                                          *)
Waits == app.op \in {"write", "close"}
Returns == app.op = "none" \/ (~connected /\ (small \/ timeout >= IntMax - 1))
WritersReturn == Waits ~> Returns
=============================================================================
