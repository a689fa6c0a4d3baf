----------------------------- MODULE LedRefresh -----------------------------
(***************************************************************************)
(* if_fullrgb_led96.vhd: the controller of the 12 x 8 LED matrix.  A step  *)
(* is a rising edge of clk, or an assertion of reset.  Each column is      *)
(* blanked, reset and then displayed; while the LED lines are in reset the *)
(* colours of the next column go from the SRAM through the gamma table     *)
(* into a shift register.                                                  *)
(*                                                                         *)
(* A word of the SRAM is the address it was written to and a version, so   *)
(* that a colour shows where it came from.  An entry of reg_col is the     *)
(* colour that was looked up and whether its duty cycle was doubled; the   *)
(* comparison of the entries with the PWM counter is left out.  The master *)
(* on the other side of the Avalon port is part of the model: it keeps a   *)
(* read request until it is accepted.                                      *)
(***************************************************************************)
EXTENDS Integers

CONSTANTS
  CLK_FREQ, FRAME_RATE,   \* the generics of the entity
  C_PWM_BITS,             \* 15 in the source, smaller in the runs
  Addresses,              \* what the master reads and writes
  Versions,               \* of the words it writes
  BackToBack,             \* a read may follow another without an idle cycle
  MaxResets               \* bounds the resets of a behaviour

C_ROWS == 8
C_COLUMNS == 12
Entries == 1 .. 3 * C_ROWS      \* of the column register, each of 16 bits
Lesser(a, b) == IF a < b THEN a ELSE b
C_PERIOD_RST == Lesser(25, CLK_FREQ \div 1000000)
C_MAX_PERIOD == ((CLK_FREQ \div FRAME_RATE) \div C_COLUMNS) - 1
C_PWM_CYCLES == (C_MAX_PERIOD - C_PERIOD_RST - 2) \div 2^C_PWM_BITS
C_DISPLAY_PERIOD == 2^C_PWM_BITS * C_PWM_CYCLES
C_PERIOD_WIDTH == CHOOSE w \in 0 .. 31 :
                    2^w >= C_DISPLAY_PERIOD /\ \A v \in 0 .. w - 1 : 2^v < C_DISPLAY_PERIOD

(* What the load of a column needs: a reset phase of 25 cycles, although    *)
(* f_min makes 25 the most it can be, and a period counter that wraps to 0 *)
(* at the end of the display, so that the SRAM is reserved in TRANS1.  The *)
(* default generics give both.                                             *)
ASSUME GenericsAssumption ==
  /\ C_PERIOD_RST = 25
  /\ C_DISPLAY_PERIOD \in Nat /\ C_DISPLAY_PERIOD > C_PERIOD_RST
  /\ C_DISPLAY_PERIOD = 2^C_PERIOD_WIDTH
ASSUME AddressesAssumption == Addresses \subseteq 0 .. 127

VARIABLES
  state, reg_period_cnt, reg_sel_col, reg_col_cnt, reg_led_addr,
  reg_gamma_cnt, reg_gamma_addr, reg_col, reg_waitrequest,
  sram,             \* the words of the dual-port memory
  q,                \* s_ram_rddata, what its read port shows
  bus,              \* the request of the master
  written,          \* history: addresses written since the last TRANS1
  resets

vars == <<state, reg_period_cnt, reg_sel_col, reg_col_cnt, reg_led_addr,
          reg_gamma_cnt, reg_gamma_addr, reg_col, reg_waitrequest,
          sram, q, bus, written, resets>>

Idle    == [op : {"idle"}, addr : Addresses]
Reads   == [op : {"read"}, addr : Addresses]
Writes  == [op : {"write"}, addr : Addresses, version : Versions]
Request == Idle \cup Reads \cup Writes

Word(addr, version) == [addr |-> addr, version |-> version]
Unknown == Word(-1, 0)          \* what no address holds

Init ==
  /\ state = "TRANS1"
  /\ reg_period_cnt = 0
  /\ reg_sel_col = C_COLUMNS - 1        \* the position of the bit that is set
  /\ reg_col_cnt = 0
  /\ reg_led_addr = 0
  /\ reg_gamma_cnt = 0
  /\ reg_gamma_addr = [word |-> Unknown, channel |-> "blue"]
  /\ reg_col = [n \in Entries |-> [color |-> reg_gamma_addr, doubled |-> FALSE]]
  /\ reg_waitrequest = TRUE
  /\ sram = [a \in 0 .. 127 |-> Word(a, 0)]
  /\ q = Unknown
  /\ bus \in Idle
  /\ written = {}
  /\ resets = 0

-----------------------------------------------------------------------------
(* Outputs.                                                                *)

LED_reset == state = "RST"
Selected == IF state = "DISPLAY" THEN {reg_sel_col} ELSE {}    \* LED_SelC_n
as0_waitrequest == bus.op # "write" /\ reg_waitrequest

(* LED number of row r in the selected column, and its colour registers.   *)
LedAt(r) == reg_sel_col + C_COLUMNS * r
Shown(r) == [blue |-> reg_col[3 * r + 1], green |-> reg_col[3 * r + 2],
             red |-> reg_col[3 * r + 3]]

-----------------------------------------------------------------------------
(* What each process does at a rising edge.                                *)

AfterRstToDisplay ==                    \* mutant: no dead cycle after reset
  CASE state = "TRANS1" -> "RST"
    [] state = "RST" -> IF reg_period_cnt = C_PERIOD_RST - 1 THEN "DISPLAY" ELSE "RST"
    [] state = "TRANS2" -> "DISPLAY"
    [] state = "DISPLAY" ->
         IF reg_period_cnt = C_DISPLAY_PERIOD - 1 THEN "TRANS1" ELSE "DISPLAY"

next_stateAtPeriod ==                   \* mutant: the display never ends
  CASE state = "TRANS1" -> "RST"
    [] state = "RST" -> IF reg_period_cnt = C_PERIOD_RST - 1 THEN "TRANS2" ELSE "RST"
    [] state = "TRANS2" -> "DISPLAY"
    [] state = "DISPLAY" ->
         IF reg_period_cnt = C_DISPLAY_PERIOD THEN "TRANS1" ELSE "DISPLAY"

next_state ==
  CASE state = "TRANS1" -> "RST"
    [] state = "RST" -> IF reg_period_cnt = C_PERIOD_RST - 1 THEN "TRANS2" ELSE "RST"
    [] state = "TRANS2" -> "DISPLAY"
    [] state = "DISPLAY" ->
         IF reg_period_cnt = C_DISPLAY_PERIOD - 1 THEN "TRANS1" ELSE "DISPLAY"

NextGammaCnt == IF state = "RST" THEN (reg_gamma_cnt + 1) % 3 ELSE 0

Counters ==
  /\ state' = next_state
  /\ reg_period_cnt' = IF state \in {"RST", "DISPLAY"}
                       THEN (reg_period_cnt + 1) % 2^C_PERIOD_WIDTH ELSE 0
  /\ reg_sel_col' = IF state = "TRANS1" THEN (reg_sel_col + 1) % C_COLUMNS ELSE reg_sel_col
  /\ reg_gamma_cnt' = NextGammaCnt
  /\ reg_col_cnt' = IF state # "TRANS2" THEN reg_col_cnt
                    ELSE IF reg_col_cnt = 11 THEN 0 ELSE reg_col_cnt + 1

NextLedAddrEarly ==                     \* mutant: while blue is looked up
  IF reg_period_cnt >= 24 THEN reg_col_cnt
  ELSE IF reg_gamma_cnt = 0 THEN (reg_led_addr + 12) % 128 ELSE reg_led_addr

NextLedAddr ==
  IF reg_period_cnt >= 24 THEN reg_col_cnt
  ELSE IF reg_gamma_cnt = 1 THEN (reg_led_addr + 12) % 128 ELSE reg_led_addr

Channel == <<"blue", "green", "red">>

(* The look-up works on the address registered one edge before, so it is   *)
(* the colour of the previous count that is shifted in.                    *)
LoadColumn ==
  /\ reg_gamma_addr' = [word |-> q, channel |-> Channel[reg_gamma_cnt + 1]]
  /\ reg_col' = IF state = "RST" /\ reg_period_cnt <= 25
                THEN [n \in Entries |-> IF n # 3 * C_ROWS THEN reg_col[n + 1]
                                        ELSE [color |-> reg_gamma_addr,
                                              doubled |-> reg_gamma_cnt \in {1, 2}]]
                ELSE reg_col

s_sram_addr == IF reg_period_cnt < 25 THEN reg_led_addr ELSE bus.addr

(* Port A writes, port B reads; reading the word that is being written     *)
(* gives "DONT_CARE".                                                      *)
Memory ==
  /\ sram' = IF bus.op = "write"
             THEN [sram EXCEPT ![bus.addr] = Word(bus.addr, bus.version)] ELSE sram
  /\ IF bus.op = "write" /\ bus.addr = s_sram_addr
     THEN q' \in {sram[s_sram_addr], sram'[s_sram_addr], Unknown}
     ELSE q' = sram[s_sram_addr]
  /\ written' = (IF state = "TRANS1" THEN {} ELSE written)
                  \cup (IF bus.op = "write" THEN {bus.addr} ELSE {})

WaitrequestAnyTime ==                   \* mutant: no window for the column load
  reg_waitrequest' = ~(bus.op = "read")

WaitrequestInReset ==                   \* mutant: for as long as reset lasts
  reg_waitrequest' = ~(bus.op = "read" /\ state = "RST" /\ reg_period_cnt >= 25)

Waitrequest ==
  reg_waitrequest' = ~(bus.op = "read" /\ reg_period_cnt >= 25)

(* The master keeps a request that is not accepted.                        *)
Master ==
  bus' \in IF bus.op = "read" /\ as0_waitrequest THEN {bus}
           ELSE IF bus.op = "read" /\ ~BackToBack THEN Request \ Reads
           ELSE Request

Clock ==
  /\ Counters
  /\ reg_led_addr' = NextLedAddr
  /\ LoadColumn
  /\ Memory
  /\ Waitrequest
  /\ Master
  /\ UNCHANGED resets

(* reset is asynchronous and leaves the SRAM and the column register alone; *)
(* the master is reset with the controller.                                *)
Reset ==
  /\ resets < MaxResets
  /\ resets' = resets + 1
  /\ state' = "TRANS1"
  /\ reg_period_cnt' = 0
  /\ reg_sel_col' = C_COLUMNS - 1
  /\ reg_col_cnt' = 0
  /\ reg_led_addr' = 0
  /\ reg_gamma_cnt' = 0
  /\ reg_waitrequest' = TRUE
  /\ bus' \in Idle
  /\ UNCHANGED <<reg_gamma_addr, reg_col, sram, q, written>>

Next == Clock \/ Reset

(* The clock never stops.                                                  *)
Spec == Init /\ [][Next]_vars /\ WF_vars(Clock)

-----------------------------------------------------------------------------
(* Properties.                                                             *)

SramWord == [addr : -1 .. 127, version : Versions \cup {0}]
Color == [word : SramWord, channel : {"blue", "green", "red"}]

TypeOK ==
  /\ state \in {"TRANS1", "RST", "TRANS2", "DISPLAY"}
  /\ reg_period_cnt \in 0 .. 2^C_PERIOD_WIDTH - 1
  /\ reg_sel_col \in 0 .. C_COLUMNS - 1 /\ reg_col_cnt \in 0 .. C_COLUMNS - 1
  /\ reg_led_addr \in 0 .. 127
  /\ reg_gamma_cnt \in 0 .. 2        \* the fourth case of the case statement is dead
  /\ reg_gamma_addr \in Color
  /\ reg_col \in [Entries -> [color : Color, doubled : BOOLEAN]]
  /\ reg_waitrequest \in BOOLEAN
  /\ sram \in [0 .. 127 -> SramWord] /\ q \in SramWord
  /\ bus \in Request

(***************************************************************************)
(* While a column is displayed, the registers of every row hold the three  *)
(* channels of that row's LED in that column and of no other LED, green    *)
(* and blue doubled ("for green and blue the value must be doubled", line  *)
(* 235): five counters and two delays of the load have to line up.  The    *)
(* colour is the one in the SRAM, unless it was written meanwhile.         *)
(***************************************************************************)
ColumnShown ==
  state = "DISPLAY" =>
    \A r \in 0 .. C_ROWS - 1, ch \in {"blue", "green", "red"} :
      LET entry == Shown(r)[ch]
      IN  /\ entry.color.channel = ch
          /\ entry.doubled <=> ch # "red"
          /\ \/ entry.color.word = sram[LedAt(r)]
             \/ LedAt(r) \in written /\ entry.color.word.addr \in {LedAt(r), -1}

(***************************************************************************)
(* "Between each transition we deactivate every signal for 1 cycle to      *)
(* ensure that the RGB_reset signal cannot be activated along with a       *)
(* column selection" (lines 309-311).                                      *)
(***************************************************************************)
DeadCycle ==
  [][ /\ LED_reset => Selected' = {}
      /\ Selected # {} => ~LED_reset'
      /\ Selected # {} /\ Selected' # {} => Selected = Selected' ]_vars

(***************************************************************************)
(* When a read is accepted, s_ram_rddata is the word at its address,       *)
(* although the column load shares the read port.                          *)
(***************************************************************************)
ReadsStored ==
  bus.op = "read" /\ ~as0_waitrequest => q = sram[bus.addr]

(***************************************************************************)
(* A read is held up by the column load, never for good: it ends, unless a *)
(* reset takes the master away.                                            *)
(***************************************************************************)
ReadAnswered ==
  (bus.op = "read" /\ as0_waitrequest) ~> (bus.op # "read" \/ ~as0_waitrequest)

(* Every column is displayed again and again, whatever the bus does.       *)
Refreshed == \A c \in 0 .. C_COLUMNS - 1 : []<>(c \in Selected)
=============================================================================
