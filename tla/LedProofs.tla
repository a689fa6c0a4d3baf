----------------------------- MODULE LedProofs -----------------------------
(***************************************************************************)
(* The LED matrix.  The controller, for every frame rate that              *)
(* GenericsAssumption allows, every address and word of the master, and    *)
(* any number of resets; the text the library runs over the matrix, which  *)
(* is the instance Matrix, for every text; and its canvas, the instance    *)
(* Canvas, for all colours, images, bitmaps and rectangles.  The three     *)
(* share no behaviour: every theorem is about one of them.                 *)
(***************************************************************************)
EXTENDS LedRefresh, SequenceTheorems, TLAPS

-----------------------------------------------------------------------------
(* The controller.                                                         *)

LEMMA PeriodWraps ==
  /\ 2^C_PERIOD_WIDTH = C_DISPLAY_PERIOD
  /\ C_DISPLAY_PERIOD \in Nat /\ C_DISPLAY_PERIOD > 25
  /\ C_PERIOD_RST = 25
<1>1. 2^C_PERIOD_WIDTH = C_DISPLAY_PERIOD
  BY Zenon, GenericsAssumption
<1>2. C_DISPLAY_PERIOD \in Nat /\ C_DISPLAY_PERIOD > C_PERIOD_RST /\ C_PERIOD_RST = 25
  BY Zenon, GenericsAssumption
<1> HIDE DEF C_DISPLAY_PERIOD, C_PERIOD_RST
<1> QED BY <1>1, <1>2

(* A count of the reset phase, its row and its channel.                    *)
LEMMA ColorCount ==
  ASSUME NEW p \in 0 .. 24
  PROVE  /\ p \div 3 \in 0 .. 8 /\ (p + 1) \div 3 \in 0 .. 8
         /\ p % 3 \in 0 .. 2 /\ (p + 1) % 3 = ((p % 3) + 1) % 3
         /\ (p + 2) \div 3 = IF p % 3 = 1 THEN (p + 1) \div 3 + 1 ELSE (p + 1) \div 3
         /\ p >= 1 => ((p - 1) % 3 # 2 <=> p % 3 \in {1, 2})
  OBVIOUS

-----------------------------------------------------------------------------
(* Types.                                                                  *)

LEMMA InitTypes == Init => TypeOK
<1>1. 0 \in 0 .. 2^C_PERIOD_WIDTH - 1
  BY PeriodWraps
<1> QED BY <1>1 DEF Init, TypeOK, Idle, Request, Color, SramWord, Word, Unknown, C_COLUMNS

LEMMA ClockTypes == TypeOK /\ Clock => TypeOK'
<1> SUFFICES ASSUME TypeOK, Clock PROVE TypeOK'
  OBVIOUS
<1> USE DEF TypeOK, Clock
<1>1. reg_period_cnt' \in 0 .. 2^C_PERIOD_WIDTH - 1
  <2> DEFINE M == 2^C_PERIOD_WIDTH
  <2>1. M \in Nat /\ M > 25
    BY PeriodWraps
  <2>2. reg_period_cnt' = IF state \in {"RST", "DISPLAY"}
                          THEN (reg_period_cnt + 1) % M ELSE 0
    BY DEF Counters
  <2>3. reg_period_cnt \in Int
    BY <2>1
  <2> HIDE DEF M
  <2>4. reg_period_cnt' \in 0 .. M - 1
    BY <2>1, <2>2, <2>3
  <2> QED BY <2>4 DEF M
<1>2. state' \in {"TRANS1", "RST", "TRANS2", "DISPLAY"}
  BY DEF Counters, next_state
<1>3. reg_sel_col' \in 0 .. C_COLUMNS - 1 /\ reg_col_cnt' \in 0 .. C_COLUMNS - 1
  BY DEF Counters, C_COLUMNS
<1>4. reg_led_addr' \in 0 .. 127
  BY DEF NextLedAddr, C_COLUMNS
<1>5. reg_gamma_cnt' \in 0 .. 2
  BY DEF Counters, NextGammaCnt
<1>6. reg_gamma_addr' \in Color
  BY DEF LoadColumn, Channel, Color
<1>7. reg_col' \in [Entries -> [color : Color, doubled : BOOLEAN]]
  BY DEF LoadColumn, Entries, C_ROWS
<1>8. reg_waitrequest' \in BOOLEAN
  BY DEF Waitrequest
<1>9. bus' \in Request
  BY DEF Master, Request
<1>10. sram' \in [0 .. 127 -> SramWord] /\ q' \in SramWord
  <2>1. bus.addr \in 0 .. 127
    BY AddressesAssumption DEF Request, Idle, Reads, Writes
  <2>2. bus.op = "write" => Word(bus.addr, bus.version) \in SramWord
    BY <2>1 DEF Request, Idle, Reads, Writes, Word, SramWord
  <2>3. sram' \in [0 .. 127 -> SramWord]
    BY <2>1, <2>2 DEF Memory
  <2>4. s_sram_addr \in 0 .. 127
    BY <2>1 DEF s_sram_addr
  <2>5. Unknown \in SramWord
    BY DEF Unknown, Word, SramWord
  <2> QED BY <2>3, <2>4, <2>5 DEF Memory
<1> QED BY <1>1, <1>2, <1>3, <1>4, <1>5, <1>6, <1>7, <1>8, <1>9, <1>10

LEMMA ResetTypes == TypeOK /\ Reset => TypeOK'
<1>1. 0 \in 0 .. 2^C_PERIOD_WIDTH - 1
  BY PeriodWraps
<1> QED BY <1>1 DEF Reset, TypeOK, Idle, Request, C_COLUMNS

(* Every counter, the shift register and the memory keep their types: the  *)
(* period counter wraps at 2^C_PERIOD_WIDTH, the LED address at 128.       *)
THEOREM TypeCorrect == Spec => []TypeOK
<1>1. TypeOK /\ UNCHANGED vars => TypeOK'
  BY DEF TypeOK, vars
<1>2. TypeOK /\ [Next]_vars => TypeOK'
  BY <1>1, ClockTypes, ResetTypes DEF Next
<1> QED BY InitTypes, <1>2, PTL DEF Spec

-----------------------------------------------------------------------------
(* Reset and selection, and the reads.                                     *)

(* The two transition states keep the reset of the lines away from any     *)
(* selected column, and the selection moves only while nothing is selected. *)
THEOREM ResetApartFromSelection == Spec => DeadCycle
<1> DEFINE Apart == /\ LED_reset => Selected' = {}
                    /\ Selected # {} => ~LED_reset'
                    /\ Selected # {} /\ Selected' # {} => Selected = Selected'
<1>1. ASSUME TypeOK, Clock PROVE Apart
  <2>1. /\ state = "RST" => state' \in {"RST", "TRANS2"}
        /\ state = "DISPLAY" => state' \in {"DISPLAY", "TRANS1"} /\ reg_sel_col' = reg_sel_col
    BY <1>1 DEF Clock, Counters, next_state
  <2> QED BY <2>1 DEF LED_reset, Selected
<1>2. ASSUME TypeOK, Reset PROVE Apart
  BY <1>2 DEF Reset, LED_reset, Selected
<1>3. ASSUME UNCHANGED vars PROVE Apart
  BY <1>3 DEF vars, LED_reset, Selected
<1>4. TypeOK /\ [Next]_vars => [Apart]_vars
  BY <1>1, <1>2, <1>3 DEF Next
<1> QED BY TypeCorrect, <1>4, PTL DEF Spec, DeadCycle

(* A read is accepted one edge after its address was at the read port: the *)
(* window that opens at count 25 gives it the port, and a master that does *)
(* not read twice in a row cannot take the answer for a later address.     *)
THEOREM ReadsGetTheWord == ASSUME ~BackToBack PROVE Spec => []ReadsStored
<1>1. Init => ReadsStored
  BY DEF Init, Idle, ReadsStored
<1>2. ASSUME TypeOK, Clock PROVE ReadsStored'
  <2> SUFFICES ASSUME (bus.op = "read")', ~as0_waitrequest' PROVE (q = sram[bus.addr])'
    BY DEF ReadsStored
  <2>1. bus.op = "read" /\ reg_period_cnt >= 25
    BY <1>2 DEF Clock, Waitrequest, as0_waitrequest
  <2>2. bus' = bus
    <3>1. \A b \in Request \ Reads : b.op # "read"
      BY DEF Request, Idle, Writes
    <3> QED BY <1>2, <2>1, <3>1 DEF Clock, Master
  <2>3. sram' = sram /\ q' = sram[bus.addr]
    <3>1. s_sram_addr = bus.addr
      <4>1. ~(reg_period_cnt < 25)
        BY <1>2, <2>1, PeriodWraps DEF TypeOK
      <4> QED BY <4>1 DEF s_sram_addr
    <3> QED BY <1>2, <2>1, <3>1 DEF Clock, Memory
  <2> QED BY <2>2, <2>3
<1>3. Reset => ReadsStored'
  BY DEF Reset, Idle, ReadsStored
<1>4. ReadsStored /\ UNCHANGED vars => ReadsStored'
  BY DEF vars, ReadsStored, as0_waitrequest
<1>5. TypeOK /\ ReadsStored /\ [Next]_vars => ReadsStored'
  BY <1>2, <1>3, <1>4 DEF Next
<1> QED BY <1>1, <1>5, TypeCorrect, PTL DEF Spec

-----------------------------------------------------------------------------
(* The column load.                                                        *)

(* w was stored for LED a: it is there now, or was written over meanwhile. *)
StoredIn(w, a, mem, wr) == w = mem[a] \/ (a \in wr /\ w.addr \in {a, -1})

(* e is the n-th colour that the load of column c takes.                   *)
IsColor(e, n, c, mem, wr) ==
  /\ e.channel = Channel[(n % 3) + 1]
  /\ StoredIn(e.word, c + 12 * (n \div 3), mem, wr)
IsEntry(e, n, c, mem, wr) ==
  IsColor(e.color, n, c, mem, wr) /\ (e.doubled <=> n % 3 # 2)

NextColumn == (reg_sel_col + 1) % 12

Homes == \A a \in 0 .. 127 : sram[a].addr = a

InTrans1 ==
  state = "TRANS1" => /\ reg_period_cnt = 0 /\ reg_gamma_cnt = 0
                      /\ reg_col_cnt = NextColumn /\ reg_led_addr = reg_col_cnt

InRst ==
  state = "RST" =>
    /\ reg_period_cnt \in 0 .. 24 /\ reg_gamma_cnt = reg_period_cnt % 3
    /\ reg_col_cnt = reg_sel_col
    /\ reg_led_addr = reg_sel_col + 12 * ((reg_period_cnt + 1) \div 3)
    /\ StoredIn(q, reg_sel_col + 12 * (reg_period_cnt \div 3), sram, written)
    /\ reg_period_cnt >= 1 =>
         IsColor(reg_gamma_addr, reg_period_cnt - 1, reg_sel_col, sram, written)
    /\ \A m \in 1 .. 24 : m + reg_period_cnt >= 26 =>
         IsEntry(reg_col[m], m + reg_period_cnt - 26, reg_sel_col, sram, written)

Loaded ==
  state \in {"TRANS2", "DISPLAY"} =>
    \A m \in 1 .. 24 : IsEntry(reg_col[m], m - 1, reg_sel_col, sram, written)

InDisplay ==
  /\ state = "TRANS2" => reg_col_cnt = reg_sel_col
  /\ state = "DISPLAY" => /\ reg_col_cnt = NextColumn
                          /\ reg_period_cnt >= 25 => reg_led_addr = reg_col_cnt

LoadInv == TypeOK /\ Homes /\ InTrans1 /\ InRst /\ Loaded /\ InDisplay

LEMMA MemoryKeeps ==
  ASSUME LoadInv, Clock, state # "TRANS1", NEW a \in 0 .. 127, NEW w,
         StoredIn(w, a, sram, written)
  PROVE  StoredIn(w, a, sram', written')
<1>1. CASE bus.op = "write" /\ bus.addr = a
  <2>1. a \in written' /\ sram[a].addr = a
    BY <1>1 DEF LoadInv, Homes, Clock, Memory
  <2> QED BY <2>1 DEF StoredIn
<1>2. CASE ~(bus.op = "write" /\ bus.addr = a)
  <2>1. sram'[a] = sram[a]
    BY <1>2 DEF LoadInv, TypeOK, Clock, Memory
  <2>2. a \in written => a \in written'
    BY DEF Clock, Memory
  <2> QED BY <2>1, <2>2 DEF StoredIn
<1> QED BY <1>1, <1>2

(* What the port shows after an edge is stored at the address it had.      *)
LEMMA PortReads ==
  ASSUME LoadInv, Clock, reg_period_cnt < 25
  PROVE  StoredIn(q', reg_led_addr, sram', written')
<1>1. s_sram_addr = reg_led_addr /\ reg_led_addr \in 0 .. 127
  BY DEF s_sram_addr, LoadInv, TypeOK
<1>2. CASE bus.op = "write" /\ bus.addr = reg_led_addr
  <2>1. /\ sram[reg_led_addr].addr = reg_led_addr
        /\ sram'[reg_led_addr].addr = reg_led_addr
        /\ reg_led_addr \in written'
    BY <1>1, <1>2 DEF LoadInv, TypeOK, Homes, Clock, Memory, Word
  <2>2. q' \in {sram[reg_led_addr], sram'[reg_led_addr], Unknown}
    BY <1>1, <1>2 DEF Clock, Memory
  <2>3. Unknown.addr = -1
    BY DEF Unknown, Word
  <2> QED BY <2>1, <2>2, <2>3 DEF StoredIn
<1>3. CASE ~(bus.op = "write" /\ bus.addr = reg_led_addr)
  <2>1. q' = sram[reg_led_addr]
    BY <1>1, <1>3 DEF Clock, Memory
  <2>2. sram'[reg_led_addr] = sram[reg_led_addr]
    BY <1>1, <1>3 DEF LoadInv, TypeOK, Clock, Memory
  <2> QED BY <2>1, <2>2 DEF StoredIn
<1> QED BY <1>2, <1>3

LEMMA HomesKept == LoadInv /\ Clock => Homes'
<1> SUFFICES ASSUME LoadInv, Clock, NEW a \in 0 .. 127 PROVE sram'[a].addr = a
  BY DEF Homes
<1> QED BY DEF LoadInv, TypeOK, Homes, Clock, Memory, Word

LEMMA FromTrans1 ==
  ASSUME LoadInv, Clock, state = "TRANS1"
  PROVE  InTrans1' /\ InRst' /\ Loaded' /\ InDisplay'
<1>1. state' = "RST" /\ reg_period_cnt' = 0 /\ reg_gamma_cnt' = 0
  BY DEF Clock, Counters, next_state, NextGammaCnt
<1>2. reg_sel_col' = NextColumn /\ reg_sel_col' \in 0 .. 11
  BY DEF LoadInv, TypeOK, Clock, Counters, NextColumn, C_COLUMNS
<1>3. reg_col_cnt' = NextColumn
  BY DEF LoadInv, InTrans1, Clock, Counters
<1>4. reg_period_cnt = 0 /\ reg_led_addr = NextColumn /\ reg_led_addr' = NextColumn
  BY DEF LoadInv, InTrans1, Clock, NextLedAddr
<1>5. StoredIn(q', reg_led_addr, sram', written')
  BY <1>4, PortReads
<1>6. 0 % 3 = 0 /\ 0 \div 3 = 0 /\ (0 + 1) \div 3 = 0
  OBVIOUS
<1>7. NextColumn \in 0 .. 11 /\ NextColumn + 12 * 0 = NextColumn
  BY <1>2
<1>8. InRst'
  <2>1. \A m \in 1 .. 24 : ~(m + 0 >= 26)
    OBVIOUS
  <2> QED BY <1>1, <1>2, <1>3, <1>4, <1>5, <1>6, <1>7, <2>1 DEF InRst
<1> QED BY <1>1, <1>8 DEF InTrans1, Loaded, InDisplay

(* One count of the reset phase: the address goes on after the look-up of  *)
(* green, q and reg_gamma_addr follow it by one edge each, and the entry   *)
(* that is appended is the last but one.                                   *)
LEMMA RstColors ==
  ASSUME LoadInv, Clock, state = "RST"
  PROVE  /\ StoredIn(q', reg_sel_col + 12 * ((reg_period_cnt + 1) \div 3), sram', written')
         /\ IsColor(reg_gamma_addr', reg_period_cnt, reg_sel_col, sram', written')
         /\ \A m \in 1 .. 24 : m + reg_period_cnt >= 25 =>
              IsEntry(reg_col'[m], m + reg_period_cnt - 25, reg_sel_col, sram', written')
<1> DEFINE p == reg_period_cnt  c == reg_sel_col
<1>1. /\ p \in 0 .. 24 /\ reg_gamma_cnt = p % 3
      /\ reg_led_addr = c + 12 * ((p + 1) \div 3)
      /\ StoredIn(q, c + 12 * (p \div 3), sram, written)
      /\ p >= 1 => IsColor(reg_gamma_addr, p - 1, c, sram, written)
      /\ \A m \in 1 .. 24 : m + p >= 26 =>
           IsEntry(reg_col[m], m + p - 26, c, sram, written)
  BY DEF LoadInv, InRst
<1>2. c \in 0 .. 11
  BY DEF LoadInv, TypeOK, C_COLUMNS
<1>3. /\ p < 25 /\ p <= 25
      /\ p \div 3 \in 0 .. 8
      /\ p >= 1 => ((p - 1) % 3 # 2 <=> p % 3 \in {1, 2})
  BY <1>1, ColorCount
<1>4. StoredIn(q', c + 12 * ((p + 1) \div 3), sram', written')
  BY <1>1, <1>3, PortReads
<1>5. ASSUME NEW w, NEW n \in 0 .. 24, StoredIn(w, c + 12 * (n \div 3), sram, written)
      PROVE  StoredIn(w, c + 12 * (n \div 3), sram', written')
  <2>1. c + 12 * (n \div 3) \in 0 .. 127
    BY <1>2
  <2> QED BY <1>5, <2>1, MemoryKeeps
<1>6. reg_gamma_addr' = [word |-> q, channel |-> Channel[(p % 3) + 1]]
  BY <1>1 DEF Clock, LoadColumn
<1>7. IsColor(reg_gamma_addr', p, c, sram', written')
  BY <1>1, <1>5, <1>6 DEF IsColor
<1>8. reg_col' = [n \in 1 .. 24 |-> IF n # 24 THEN reg_col[n + 1]
                    ELSE [color |-> reg_gamma_addr, doubled |-> p % 3 \in {1, 2}]]
  BY <1>1, <1>3 DEF Clock, LoadColumn, Entries, C_ROWS
<1>9. ASSUME NEW m \in 1 .. 24, m + p >= 25
      PROVE  IsEntry(reg_col'[m], m + p - 25, c, sram', written')
  <2>1. CASE m = 24
    <3>1. p >= 1 /\ p - 1 \in 0 .. 24 /\ m + p - 25 = p - 1
      BY <1>1, <1>9, <2>1
    <3>2. IsColor(reg_gamma_addr, p - 1, c, sram', written')
      BY <1>1, <1>5, <3>1 DEF IsColor
    <3>3. reg_col'[m] = [color |-> reg_gamma_addr, doubled |-> p % 3 \in {1, 2}]
      BY <1>8, <2>1
    <3>4. reg_col'[m].color = reg_gamma_addr
      BY <3>3
    <3>5. reg_col'[m].doubled = (p % 3 \in {1, 2})
      BY <3>3
    <3>6. reg_col'[m].doubled <=> (p - 1) % 3 # 2
      BY <1>3, <3>1, <3>5
    <3>7. IsEntry(reg_col'[m], p - 1, c, sram', written')
      BY Zenon, <3>2, <3>4, <3>6 DEF IsEntry
    <3> QED BY Zenon, <3>1, <3>7
  <2>2. CASE m # 24
    <3>1. /\ m + 1 \in 1 .. 24 /\ (m + 1) + p >= 26
          /\ (m + 1) + p - 26 = m + p - 25 /\ m + p - 25 \in 0 .. 24
      BY <1>1, <1>9, <2>2
    <3>2. reg_col'[m] = reg_col[m + 1]
      BY <1>8, <2>2
    <3>3. IsEntry(reg_col[m + 1], m + p - 25, c, sram, written)
      BY <1>1, <3>1
    <3>4. IsEntry(reg_col[m + 1], m + p - 25, c, sram', written')
      BY <1>5, <3>1, <3>3 DEF IsEntry, IsColor
    <3> QED BY <3>2, <3>4 DEF IsEntry, IsColor
  <2> QED BY <2>1, <2>2
<1> QED BY <1>4, <1>7, <1>9

LEMMA FromRst ==
  ASSUME LoadInv, Clock, state = "RST"
  PROVE  InTrans1' /\ InRst' /\ Loaded' /\ InDisplay'
<1> DEFINE p == reg_period_cnt  c == reg_sel_col
<1>1. /\ p \in 0 .. 24 /\ reg_gamma_cnt = p % 3 /\ reg_col_cnt = c
      /\ reg_led_addr = c + 12 * ((p + 1) \div 3)
  BY DEF LoadInv, InRst
<1>2. c \in 0 .. 11
  BY DEF LoadInv, TypeOK, C_COLUMNS
<1>3. /\ reg_sel_col' = c /\ reg_col_cnt' = c
      /\ reg_gamma_cnt' = ((p % 3) + 1) % 3
      /\ state' = IF p = 24 THEN "TRANS2" ELSE "RST"
  <2>1. C_PERIOD_RST - 1 = 24
    BY PeriodWraps
  <2> QED BY <1>1, <2>1 DEF Clock, Counters, next_state, NextGammaCnt
<1>4. CASE p = 24
  <2>1. \A m \in 1 .. 24 : IsEntry(reg_col'[m], m - 1, c, sram', written')
    <3> SUFFICES ASSUME NEW m \in 1 .. 24
                 PROVE  IsEntry(reg_col'[m], m - 1, c, sram', written')
      OBVIOUS
    <3>1. m + p >= 25 /\ m + p - 25 = m - 1
      BY <1>4
    <3> QED BY <3>1, RstColors
  <2> QED BY <1>3, <1>4, <2>1 DEF InTrans1, InRst, Loaded, InDisplay
<1>5. CASE p # 24
  <2>1. p \in 0 .. 23 /\ p + 1 \in 1 .. 24 /\ (p + 1) - 1 = p /\ (p + 1) + 1 = p + 2
    BY <1>1, <1>5
  <2>2. reg_period_cnt' = p + 1
    <3>1. reg_period_cnt' = (p + 1) % C_DISPLAY_PERIOD
      BY PeriodWraps DEF Clock, Counters
    <3>2. C_DISPLAY_PERIOD \in Nat /\ p + 1 < C_DISPLAY_PERIOD
      BY <2>1, PeriodWraps
    <3> HIDE DEF C_DISPLAY_PERIOD
    <3> QED BY <2>1, <3>1, <3>2
  <2>3. reg_led_addr' = c + 12 * ((p + 2) \div 3)
    <3>1. reg_led_addr' = IF p % 3 = 1 THEN (reg_led_addr + 12) % 128 ELSE reg_led_addr
      BY <1>1, <2>1 DEF Clock, NextLedAddr
    <3>2. /\ (p + 1) \div 3 \in 0 .. 8
          /\ (p + 2) \div 3 = IF p % 3 = 1 THEN (p + 1) \div 3 + 1 ELSE (p + 1) \div 3
      BY <1>1, ColorCount
    <3> QED BY <1>1, <1>2, <2>1, <3>1, <3>2
  <2>4. reg_gamma_cnt' = (p + 1) % 3
    BY <1>1, <1>3, ColorCount
  <2>5. \A m \in 1 .. 24 : m + (p + 1) >= 26 =>
          IsEntry(reg_col'[m], m + (p + 1) - 26, c, sram', written')
    <3> SUFFICES ASSUME NEW m \in 1 .. 24, m + (p + 1) >= 26
                 PROVE  IsEntry(reg_col'[m], m + (p + 1) - 26, c, sram', written')
      OBVIOUS
    <3>1. m + p >= 25 /\ m + p - 25 = m + (p + 1) - 26
      BY <2>1
    <3> QED BY <3>1, RstColors
  <2>6. /\ StoredIn(q', c + 12 * ((p + 1) \div 3), sram', written')
        /\ IsColor(reg_gamma_addr', (p + 1) - 1, c, sram', written')
    BY <2>1, RstColors
  <2>7. InRst'
    BY <1>3, <2>1, <2>2, <2>3, <2>4, <2>5, <2>6 DEF InRst
  <2> QED BY <1>3, <1>5, <2>7 DEF InTrans1, Loaded, InDisplay
<1> QED BY <1>4, <1>5

(* The register stands still, and a write is recorded.                     *)
LEMMA RegisterStands ==
  ASSUME LoadInv, Clock, state \in {"TRANS2", "DISPLAY"}
  PROVE  /\ reg_sel_col' = reg_sel_col
         /\ \A m \in 1 .. 24 : IsEntry(reg_col'[m], m - 1, reg_sel_col, sram', written')
<1>1. reg_sel_col' = reg_sel_col /\ reg_col' = reg_col
  BY DEF Clock, Counters, LoadColumn
<1>2. ASSUME NEW m \in 1 .. 24
      PROVE  IsEntry(reg_col[m], m - 1, reg_sel_col, sram', written')
  <2>1. IsEntry(reg_col[m], m - 1, reg_sel_col, sram, written)
    BY DEF LoadInv, Loaded
  <2>2. reg_sel_col + 12 * ((m - 1) \div 3) \in 0 .. 127
    BY DEF LoadInv, TypeOK, C_COLUMNS
  <2> QED BY <2>1, <2>2, MemoryKeeps DEF IsEntry, IsColor
<1> QED BY <1>1, <1>2

LEMMA FromTrans2 ==
  ASSUME LoadInv, Clock, state = "TRANS2"
  PROVE  InTrans1' /\ InRst' /\ Loaded' /\ InDisplay'
<1>1. state' = "DISPLAY" /\ reg_period_cnt' = 0
  BY DEF Clock, Counters, next_state
<1>2. reg_sel_col' = reg_sel_col /\ Loaded'
  BY RegisterStands DEF Loaded
<1>3. reg_col_cnt' = NextColumn'
  BY <1>2 DEF LoadInv, TypeOK, InDisplay, Clock, Counters, NextColumn, C_COLUMNS
<1> QED BY <1>1, <1>2, <1>3 DEF InTrans1, InRst, InDisplay

(* The display ends when the period counter wraps; the address of the next *)
(* column waits in reg_led_addr from count 25 on.                          *)
LEMMA FromDisplay ==
  ASSUME LoadInv, Clock, state = "DISPLAY"
  PROVE  InTrans1' /\ InRst' /\ Loaded' /\ InDisplay'
<1> DEFINE p == reg_period_cnt  D == C_DISPLAY_PERIOD
<1>1. /\ reg_sel_col' = reg_sel_col /\ reg_gamma_cnt' = 0
      /\ reg_col_cnt' = reg_col_cnt /\ reg_col_cnt = NextColumn
      /\ NextColumn' = NextColumn
  BY DEF LoadInv, InDisplay, Clock, Counters, NextGammaCnt, NextColumn
<1>2. D \in Nat /\ D > 25
  BY PeriodWraps
<1>3. /\ state' = IF p = D - 1 THEN "TRANS1" ELSE "DISPLAY"
      /\ reg_period_cnt' = (p + 1) % D
  BY PeriodWraps DEF Clock, Counters, next_state
<1>4. p \in 0 .. D - 1
  BY PeriodWraps DEF LoadInv, TypeOK
<1>5. p >= 24 => reg_led_addr' = reg_col_cnt
  BY DEF Clock, NextLedAddr
<1> HIDE DEF D
<1>6. CASE p = D - 1
  <2>1. reg_period_cnt' = 0 /\ reg_led_addr' = reg_col_cnt
    BY <1>2, <1>3, <1>5, <1>6
  <2> QED BY <1>1, <1>3, <1>6, <2>1 DEF InTrans1, InRst, Loaded, InDisplay
<1>7. CASE p # D - 1
  <2>1. reg_period_cnt' = p + 1
    BY <1>2, <1>3, <1>4, <1>7
  <2>2. reg_period_cnt' >= 25 => reg_led_addr' = reg_col_cnt
    BY <1>4, <1>5, <2>1
  <2> QED BY <1>1, <1>3, <1>7, <2>2, RegisterStands DEF InTrans1, InRst, Loaded, InDisplay
<1> QED BY <1>6, <1>7

LEMMA LoadInit == Init => LoadInv
<1> SUFFICES ASSUME Init PROVE Homes /\ InTrans1 /\ InRst /\ Loaded /\ InDisplay
  BY InitTypes DEF LoadInv
<1>1. Homes
  BY DEF Init, Homes, Word
<1>2. InTrans1
  BY DEF Init, InTrans1, NextColumn, C_COLUMNS
<1> QED BY <1>1, <1>2 DEF Init, InRst, Loaded, InDisplay

LEMMA LoadReset == LoadInv /\ Reset => LoadInv'
<1> SUFFICES ASSUME LoadInv, Reset PROVE Homes' /\ (InTrans1 /\ InRst /\ Loaded /\ InDisplay)'
  BY ResetTypes DEF LoadInv
<1>1. Homes'
  BY DEF LoadInv, Homes, Reset
<1>2. InTrans1'
  BY DEF Reset, InTrans1, NextColumn, C_COLUMNS
<1> QED BY <1>1, <1>2 DEF Reset, InRst, Loaded, InDisplay

LEMMA LoadNext == LoadInv /\ [Next]_vars => LoadInv'
<1> SUFFICES ASSUME LoadInv, [Next]_vars PROVE LoadInv'
  OBVIOUS
<1>1. CASE Clock
  <2>1. state \in {"TRANS1", "RST", "TRANS2", "DISPLAY"}
    BY DEF LoadInv, TypeOK
  <2>2. InTrans1' /\ InRst' /\ Loaded' /\ InDisplay'
    BY <1>1, <2>1, FromTrans1, FromRst, FromTrans2, FromDisplay
  <2>3. TypeOK' /\ Homes'
    BY <1>1, ClockTypes, HomesKept DEF LoadInv
  <2> QED BY <2>2, <2>3 DEF LoadInv
<1>2. CASE Reset
  BY <1>2, LoadReset
<1>3. CASE UNCHANGED vars
  BY <1>3 DEF vars, LoadInv, TypeOK, Homes, InTrans1, InRst, Loaded, InDisplay, NextColumn,
              Request, Idle, Reads, Writes
<1> QED BY <1>1, <1>2, <1>3 DEF Next

(* At the display every entry is that of its row and channel, by Loaded;   *)
(* an entry of a row and a channel is one number of the load.              *)
LEMMA LoadShown == LoadInv => ColumnShown
<1> SUFFICES ASSUME LoadInv, state = "DISPLAY", NEW r \in 0 .. 7, NEW ch \in {"blue", "green", "red"}
             PROVE  LET entry == Shown(r)[ch]
                    IN  /\ entry.color.channel = ch
                        /\ entry.doubled <=> ch # "red"
                        /\ \/ entry.color.word = sram[LedAt(r)]
                           \/ LedAt(r) \in written /\ entry.color.word.addr \in {LedAt(r), -1}
  BY DEF ColumnShown, C_ROWS
<1>1. \A n \in 0 .. 23 : IsEntry(reg_col[n + 1], n, reg_sel_col, sram, written)
  <2> SUFFICES ASSUME NEW n \in 0 .. 23
               PROVE  IsEntry(reg_col[n + 1], n, reg_sel_col, sram, written)
    OBVIOUS
  <2>1. n + 1 \in 1 .. 24 /\ (n + 1) - 1 = n
    OBVIOUS
  <2>2. \A m \in 1 .. 24 : IsEntry(reg_col[m], m - 1, reg_sel_col, sram, written)
    BY DEF LoadInv, Loaded
  <2> QED BY <2>1, <2>2
<1>2. ASSUME NEW k \in 0 .. 2, ch = Channel[k + 1]
      PROVE  LET entry == reg_col[3 * r + k + 1]
             IN  /\ entry.color.channel = ch
                 /\ entry.doubled <=> k # 2
                 /\ StoredIn(entry.color.word, LedAt(r), sram, written)
  <2>1. /\ 3 * r + k \in 0 .. 23 /\ (3 * r + k) + 1 = 3 * r + k + 1
        /\ (3 * r + k) % 3 = k /\ (3 * r + k) \div 3 = r
    OBVIOUS
  <2> QED BY <1>1, <1>2, <2>1 DEF IsEntry, IsColor, LedAt, C_COLUMNS
<1>3. Channel[1] = "blue" /\ Channel[2] = "green" /\ Channel[3] = "red"
  BY DEF Channel
<1>4. CASE ch = "blue"
  <2>1. Shown(r)[ch] = reg_col[3 * r + 0 + 1]
    BY <1>4 DEF Shown
  <2> QED BY <1>2, <1>3, <1>4, <2>1 DEF StoredIn
<1>5. CASE ch = "green"
  <2>1. Shown(r)[ch] = reg_col[3 * r + 1 + 1]
    BY <1>5 DEF Shown
  <2> QED BY <1>2, <1>3, <1>5, <2>1 DEF StoredIn
<1>6. CASE ch = "red"
  <2>1. Shown(r)[ch] = reg_col[3 * r + 2 + 1]
    BY <1>6 DEF Shown
  <2> QED BY <1>2, <1>3, <1>6, <2>1 DEF StoredIn
<1> QED BY <1>4, <1>5, <1>6

(* While a column is displayed the register holds the colours of its own   *)
(* LEDs, whatever the master writes and whenever the controller is reset:  *)
(* the address leads the period counter by one count, q follows it by one, *)
(* the gamma table by two and the register by three.                       *)
THEOREM DisplaysItsOwnColumn == Spec => []ColumnShown
BY LoadInit, LoadNext, LoadShown, PTL DEF Spec

-----------------------------------------------------------------------------
(* Text on the matrix.                                                     *)

CONSTANTS Texts, Font, Back
VARIABLES pc, routine, text, position, blanks, i, j, data, leds, shifts
Matrix == INSTANCE LedMatrix

(* Every byte of the font ends in three zeros: "shifted by 2 bits" none of *)
(* its five pixels leaves the byte.                                        *)
Regular(v) ==
  /\ v \in Nat /\ v < 16777216
  /\ v % 8 = 0 /\ (v \div 256) % 8 = 0 /\ (v \div 65536) % 8 = 0

LEMMA FontRegular == \A n \in 1 .. 69 : Regular(Matrix!ASCII_3x5[n])
BY DEF Matrix!ASCII_3x5, Regular

LEMMA Centred ==
  ASSUME NEW v, Regular(v), NEW k \in 0 .. 3, NEW y \in 0 .. 7
  PROVE  Matrix!Bit(Matrix!Byte(v \div 4, k), y) <=> y <= 5 /\ Matrix!Bit(Matrix!Byte(v, k), y + 2)
<1>1. /\ Matrix!Byte(v, k) \in 0 .. 255 /\ Matrix!Byte(v, k) % 8 = 0
      /\ Matrix!Byte(v \div 4, k) = Matrix!Byte(v, k) \div 4
  <2>0. CASE k = 0 BY <2>0 DEF Regular, Matrix!Byte
  <2>1. CASE k = 1 BY <2>1 DEF Regular, Matrix!Byte
  <2>2. CASE k = 2 BY <2>2 DEF Regular, Matrix!Byte
  <2>3. CASE k = 3 BY <2>3 DEF Regular, Matrix!Byte
  <2> QED BY <2>0, <2>1, <2>2, <2>3
<1>2. \A n \in 0 .. 255 : n % 8 = 0 => (Matrix!Bit(n \div 4, y) <=> y <= 5 /\ Matrix!Bit(n, y + 2))
  <2> TAKE n \in 0 .. 255
  <2>0. CASE y = 0 BY <2>0 DEF Matrix!Bit
  <2>1. CASE y = 1 BY <2>1 DEF Matrix!Bit
  <2>2. CASE y = 2 BY <2>2 DEF Matrix!Bit
  <2>3. CASE y = 3 BY <2>3 DEF Matrix!Bit
  <2>4. CASE y = 4 BY <2>4 DEF Matrix!Bit
  <2>5. CASE y = 5 BY <2>5 DEF Matrix!Bit
  <2>6. CASE y = 6 BY <2>6 DEF Matrix!Bit
  <2>7. CASE y = 7 BY <2>7 DEF Matrix!Bit
  <2> QED BY <2>0, <2>1, <2>2, <2>3, <2>4, <2>5, <2>6, <2>7
<1> QED BY <1>1, <1>2

\* The column the shift takes from the table is the column of the character.
LEMMA FontColumn ==
  ASSUME NEW c \in Nat, NEW k \in 0 .. 3, NEW y \in 0 .. 7
  PROVE  Matrix!Bit(Matrix!Byte(Matrix!get_3x5_bmp(c), k), y) <=> Matrix!Pixel(c, k, y)
<1> DEFINE upper == IF c \in 97 .. 122 THEN c - 32 ELSE c
<1>1. CASE c \in 32 .. 126
  <2> DEFINE n == Matrix!IndexOf(c) + 1
  <2>1. n \in 1 .. 69 /\ Matrix!Codes[n] = upper /\ \A m \in 1 .. 69 : Matrix!Codes[m] = upper => m = n
    BY <1>1 DEF Matrix!IndexOf, Matrix!Codes
  <2> HIDE DEF n
  <2>2. Matrix!Pixels(c) = Matrix!ASCII_3x5[n]
    <3> HIDE DEF upper
    <3>1. (CHOOSE m \in 1 .. 69 : Matrix!Codes[m] = upper) = n
      BY <2>1
    <3> QED BY <2>1, <3>1 DEF Matrix!Pixels, upper
  <2>3. Matrix!get_3x5_bmp(c) = Matrix!ASCII_3x5[n] \div 4
    BY <1>1 DEF Matrix!get_3x5_bmp, n
  <2>4. Regular(Matrix!ASCII_3x5[n])
    BY <2>1, FontRegular
  <2> QED BY <2>2, <2>3, <2>4, Centred DEF Matrix!Pixel
<1>2. CASE c \notin 32 .. 126
  <2>1. Matrix!Pixels(c) = \hF8F8F8
    BY <1>2 DEF Matrix!Pixels, Matrix!Codes
  <2>2. Matrix!get_3x5_bmp(c) = \hF8F8F8 \div 4
    BY <1>2 DEF Matrix!get_3x5_bmp
  <2>3. Regular(\hF8F8F8)
    BY DEF Regular
  <2> QED BY <2>1, <2>2, <2>3, Centred DEF Matrix!Pixel
<1> QED BY <1>1, <1>2

LEMMA FontNat ==
  ASSUME NEW c \in Nat
  PROVE  Matrix!get_3x5_bmp(c) \in Nat
<1> DEFINE ret == IF c \in 32 .. 126 THEN Matrix!ASCII_3x5[Matrix!IndexOf(c) + 1] ELSE \hF8F8F8
           n == Matrix!IndexOf(c) + 1
<1>1. Matrix!get_3x5_bmp(c) = ret \div 4
  BY DEF Matrix!get_3x5_bmp
<1>2. c \in 32 .. 126 => n \in 1 .. 69 /\ ret = Matrix!ASCII_3x5[n]
  BY DEF Matrix!IndexOf
<1>3. c \notin 32 .. 126 => ret = \hF8F8F8
  OBVIOUS
<1> HIDE DEF ret, n
<1>4. \A v : Regular(v) => v \in Nat
  BY DEF Regular
<1>5. ret \in Nat
  BY <1>2, <1>3, <1>4, FontRegular
<1> QED BY <1>1, <1>5

LEMMA ByteNat ==
  ASSUME NEW v \in Nat, NEW k \in 0 .. 3
  PROVE  Matrix!Byte(v, k) \in Nat
<1>1. k = 0 \/ k = 1 \/ k = 2 \/ k = 3
  OBVIOUS
<1> QED BY <1>1 DEF Matrix!Byte

LEMMA HalfBits ==
  ASSUME NEW d \in Nat
  PROVE  /\ d \div 2 \in Nat
         /\ \A y \in 0 .. 6 : Matrix!Bit(d \div 2, y) <=> Matrix!Bit(d, y + 1)
         /\ d % 2 = 1 <=> Matrix!Bit(d, 0)
<1>1. \A y \in 0 .. 6 : Matrix!Bit(d \div 2, y) <=> Matrix!Bit(d, y + 1)
  <2> TAKE y \in 0 .. 6
  <2>0. CASE y = 0 BY <2>0 DEF Matrix!Bit
  <2>1. CASE y = 1 BY <2>1 DEF Matrix!Bit
  <2>2. CASE y = 2 BY <2>2 DEF Matrix!Bit
  <2>3. CASE y = 3 BY <2>3 DEF Matrix!Bit
  <2>4. CASE y = 4 BY <2>4 DEF Matrix!Bit
  <2>5. CASE y = 5 BY <2>5 DEF Matrix!Bit
  <2>6. CASE y = 6 BY <2>6 DEF Matrix!Bit
  <2> QED BY <2>0, <2>1, <2>2, <2>3, <2>4, <2>5, <2>6
<1>2. d % 2 = 1 <=> Matrix!Bit(d, 0)
  BY DEF Matrix!Bit
<1> QED BY <1>1, <1>2

-----------------------------------------------------------------------------
Rows == 0 .. 7
Columns == 0 .. 11
Shades == {Font, Back} \cup {Matrix!Old(n) : n \in 0 .. 95}

TextTypeOK ==
  /\ pc \in {"main", "text", "left", "right", "enter"}
  /\ routine \in Matrix!Routines \cup {"none"}
  /\ text \in Seq(Nat) /\ position \in Nat /\ blanks \in Nat
  /\ i \in Int /\ j \in Int /\ data \in Nat /\ shifts \in Nat
  /\ leds \in [0 .. 95 -> Shades]

Shifting == pc \in {"left", "right", "enter"}

(* Columns of text, then blanks; shifts counts those that have entered.    *)
Counted ==
  /\ position <= 4 * Len(text) /\ blanks <= Matrix!BlanksOf(routine)
  /\ blanks > 0 => position = 4 * Len(text)
  /\ position + blanks = IF Shifting THEN shifts + 1 ELSE shifts
  /\ routine = "none" => pc = "main" /\ shifts = 0
  /\ pc = "left" => routine \in Matrix!Left
  /\ pc = "right" => routine \notin Matrix!Left

(* Where the loops are: registers are copied column by column, and a row   *)
(* at a time the new column enters.                                        *)
First == IF routine \in Matrix!Left THEN 11 ELSE 0
Looping ==
  /\ pc \in {"left", "right"} => \E r \in Rows : j = 12 * r
  /\ pc = "left" => i \in 0 .. 10
  /\ pc = "right" => i \in 1 .. 11
  /\ pc = "enter" => \E r \in Rows : i = First + 12 * r

(* The rows of the new column that data still holds.                       *)
Coming(r) == \A y \in 0 .. 7 - r : Matrix!Bit(data, y) <=> Matrix!Entered(shifts, y + r) = Font
Incoming ==
  /\ pc \in {"left", "right"} => Coming(0)
  /\ pc = "enter" => \A r \in Rows : i = First + 12 * r => Coming(r)

(* What a LED shows after s shifts, and which are already one further.     *)
Window(s, x, y) ==
  IF routine \in Matrix!Left
  THEN IF x + s < 12 THEN Matrix!Old(x + s + 12 * y) ELSE Matrix!Entered(x + s - 12, y)
  ELSE IF x >= s THEN Matrix!Old(x - s + 12 * y) ELSE Matrix!Entered(s - 1 - x, y)
Moved(x, y) ==
  \/ pc = "left" /\ (x < i \/ (x = i /\ 12 * y < j))
  \/ pc = "right" /\ (x > i \/ (x = i /\ 12 * y < j))
  \/ pc = "enter" /\ (x # First \/ First + 12 * y < i)
ScreenOK ==
  \A x \in Columns, y \in Rows :
    leds[x + 12 * y] = Window(IF Moved(x, y) THEN shifts + 1 ELSE shifts, x, y)

TextIInv == TextTypeOK /\ Counted /\ Looping /\ Incoming /\ ScreenOK

LEMMA EnteredIs ==
  ASSUME Matrix!ColoursAssumption, NEW n, NEW y
  PROVE  Matrix!Entered(n, y) \in {Font, Back} /\ Font # Back
BY DEF Matrix!Entered, Matrix!ColoursAssumption

\* One shift is one column along the tape.
LEMMA WindowMoves ==
  ASSUME NEW s \in Nat, NEW x \in Columns, NEW y \in Rows
  PROVE  /\ routine \in Matrix!Left /\ x < 11 => Window(s + 1, x, y) = Window(s, x + 1, y)
         /\ routine \notin Matrix!Left /\ x > 0 => Window(s + 1, x, y) = Window(s, x - 1, y)
         /\ Window(s + 1, First, y) = Matrix!Entered(s, y)
BY DEF Window, First, Columns

LEMMA RegisterOf ==
  ASSUME NEW x \in Columns, NEW y \in Rows, NEW u \in Columns, NEW v \in Rows
  PROVE  /\ x + 12 * y \in 0 .. 95
         /\ x + 12 * y = u + 12 * v => x = u /\ y = v
BY DEF Columns, Rows

LEMMA TextInit == Matrix!ColoursAssumption /\ Matrix!Init => TextIInv
<1> SUFFICES ASSUME Matrix!Init PROVE TextIInv
  OBVIOUS
<1>1. TextTypeOK
  BY EmptySeq DEF Matrix!Init, TextTypeOK, Shades
<1>2. Counted /\ Looping /\ Incoming
  BY EmptySeq DEF Matrix!Init, Counted, Looping, Incoming, Shifting, Matrix!BlanksOf, Matrix!Left
<1>3. ScreenOK
  <2> SUFFICES ASSUME NEW x \in Columns, NEW y \in Rows
               PROVE  leds[x + 12 * y] = Window(0, x, y)
    BY DEF Matrix!Init, ScreenOK, Moved
  <2>1. x + 12 * y \in 0 .. 95
    BY RegisterOf
  <2> QED BY <2>1 DEF Matrix!Init, Window, Matrix!Left, Columns
<1> QED BY <1>1, <1>2, <1>3 DEF TextIInv

\* What the tape holds does not change while text runs over the matrix.
LEMMA SameTape ==
  ASSUME UNCHANGED <<routine, text>>
  PROVE  /\ \A n, y : Matrix!Entered(n, y)' = Matrix!Entered(n, y)
         /\ \A s, x, y : Window(s, x, y)' = Window(s, x, y)
<1>1. \A n, y : Matrix!Entered(n, y)' = Matrix!Entered(n, y)
  BY DEF Matrix!Entered
<1> QED BY <1>1 DEF Window

\* One register gets the colour it shows a shift later.
LEMMA OneRegister ==
  ASSUME TextTypeOK, ScreenOK, UNCHANGED <<routine, text, shifts>>,
         NEW u \in Columns, NEW r \in Rows,
         \A x \in Columns, y \in Rows : Moved(x, y)' <=> Moved(x, y) \/ (x = u /\ y = r),
         leds' = [leds EXCEPT ![u + 12 * r] = Window(shifts + 1, u, r)]
  PROVE  ScreenOK'
<1> SUFFICES ASSUME NEW x \in Columns, NEW y \in Rows
             PROVE  leds'[x + 12 * y] = Window(IF Moved(x, y)' THEN shifts + 1 ELSE shifts, x, y)
  BY SameTape DEF ScreenOK
<1>1. x + 12 * y \in 0 .. 95 /\ (x + 12 * y = u + 12 * r => x = u /\ y = r)
  BY RegisterOf
<1>2. CASE x = u /\ y = r
  BY <1>1, <1>2 DEF TextTypeOK
<1>3. CASE ~(x = u /\ y = r)
  <2>1. leds'[x + 12 * y] = leds[x + 12 * y] /\ (Moved(x, y)' <=> Moved(x, y))
    BY <1>1, <1>3 DEF TextTypeOK
  <2>2. leds[x + 12 * y] = Window(IF Moved(x, y) THEN shifts + 1 ELSE shifts, x, y)
    BY DEF ScreenOK
  <2> QED BY <2>1, <2>2
<1> QED BY <1>2, <1>3

\* What a register may show.
LEMMA ShadeOf ==
  ASSUME Matrix!ColoursAssumption, TextTypeOK, NEW x \in Columns, NEW y \in Rows
  PROVE  Window(shifts, x, y) \in Shades /\ Window(shifts + 1, x, y) \in Shades
<1>1. \A n, v : Matrix!Entered(n, v) \in Shades
  BY EnteredIs DEF Shades
<1>2. \A n \in 0 .. 95 : Matrix!Old(n) \in Shades
  BY DEF Shades
<1>3. \A s \in Nat : Window(s, x, y) \in Shades
  <2> TAKE s \in Nat
  <2>1. CASE routine \in Matrix!Left /\ x + s < 12
    <3>1. x + s + 12 * y \in 0 .. 95
      BY <2>1 DEF Columns, Rows
    <3> QED BY <1>2, <2>1, <3>1 DEF Window
  <2>2. CASE routine \notin Matrix!Left /\ x >= s
    <3>1. x - s + 12 * y \in 0 .. 95
      BY <2>2 DEF Columns, Rows
    <3> QED BY <1>2, <2>2, <3>1 DEF Window
  <2> QED BY <1>1, <2>1, <2>2 DEF Window
<1>4. PICK m \in Nat : m = shifts + 1
  BY DEF TextTypeOK
<1> QED BY <1>3, <1>4 DEF TextTypeOK

LEMMA CallStep ==
  ASSUME Matrix!ColoursAssumption, Matrix!TextsAssumption, TextIInv, Matrix!Call
  PROVE  TextIInv'
<1>1. /\ pc = "main" /\ routine = "none" /\ pc' = "text" /\ routine' \in Matrix!Routines /\ text' \in Seq(Nat)
      /\ UNCHANGED <<position, blanks, i, j, data, leds, shifts>>
  BY DEF Matrix!Call, Matrix!TextsAssumption
<1>2. shifts = 0 /\ position = 0 /\ blanks = 0
  <2>1. position \in Nat /\ blanks \in Nat /\ shifts = 0 /\ ~Shifting
    BY <1>1 DEF TextIInv, TextTypeOK, Counted, Shifting
  <2>2. position + blanks = 0
    BY <2>1 DEF TextIInv, Counted
  <2> QED BY <2>1, <2>2
<1>3. TextTypeOK'
  BY <1>1 DEF TextIInv, TextTypeOK
<1>4. Counted'
  BY <1>1, <1>2 DEF Counted, Shifting, Matrix!BlanksOf, Matrix!Routines, Matrix!Left
<1>5. Looping' /\ Incoming'
  BY <1>1 DEF Looping, Incoming
<1>6. ScreenOK'
  <2> SUFFICES ASSUME NEW x \in Columns, NEW y \in Rows
               PROVE  leds[x + 12 * y] = Window(0, x, y)'
    BY <1>1, <1>2 DEF ScreenOK, Moved
  <2>1. leds[x + 12 * y] = Window(0, x, y)
    BY <1>1, <1>2 DEF TextIInv, ScreenOK, Moved
  <2> QED BY <1>1, <2>1 DEF Window, Matrix!Left, Matrix!Routines, Columns, Rows
<1> QED BY <1>3, <1>4, <1>5, <1>6 DEF TextIInv

\* A column is taken from the text, or an empty one.
LEMMA ColumnStep ==
  ASSUME Matrix!ColoursAssumption, TextIInv, pc = "text", UNCHANGED <<routine, text, leds, shifts>>,
         data' \in Nat, \A y \in Rows : Matrix!Bit(data', y) <=> Matrix!Entered(shifts, y) = Font,
         \/ pc' = "left" /\ i' = 0 /\ routine \in Matrix!Left
         \/ pc' = "right" /\ i' = 11 /\ routine \notin Matrix!Left,
         j' = 0, position' \in Nat, blanks' \in Nat, position' + blanks' = position + blanks + 1,
         position' <= 4 * Len(text), blanks' <= Matrix!BlanksOf(routine),
         blanks' > 0 => position' = 4 * Len(text)
  PROVE  TextIInv'
<1>1. TextTypeOK'
  <2>1. pc' \in {"main", "text", "left", "right", "enter"} /\ i' \in Int /\ j' \in Int
    OBVIOUS
  <2> QED BY <2>1 DEF TextIInv, TextTypeOK
<1>2. Counted'
  BY DEF TextIInv, Counted, Shifting
<1>3. Looping'
  BY DEF Looping, Rows
<1>4. Incoming'
  BY SameTape DEF Incoming, Coming, Rows
<1>5. ScreenOK'
  <2>1. \A x \in Columns, y \in Rows : ~Moved(x, y) /\ ~Moved(x, y)'
    <3> TAKE x \in Columns, y \in Rows
    <3>1. x >= 0 /\ x <= 11 /\ ~(12 * y < 0)
      BY DEF Columns, Rows
    <3>2. pc' = "left" /\ i' = 0 => ~Moved(x, y)'
      BY <3>1 DEF Moved, Columns
    <3>3. pc' = "right" /\ i' = 11 => ~Moved(x, y)'
      BY <3>1 DEF Moved, Columns
    <3> QED BY <3>2, <3>3 DEF Moved
  <2> QED BY <2>1, SameTape DEF TextIInv, ScreenOK
<1> QED BY <1>1, <1>2, <1>3, <1>4, <1>5 DEF TextIInv

LEMMA NextColumnStep ==
  ASSUME Matrix!ColoursAssumption, TextIInv, Matrix!NextColumn
  PROVE  TextIInv'
<1>1. /\ pc = "text" /\ position < 4 * Len(text) /\ position' = position + 1 /\ j' = 0
      /\ data' = Matrix!ColumnOf(text, position) /\ UNCHANGED <<routine, text, blanks, leds, shifts>>
      /\ \/ pc' = "left" /\ i' = 0 /\ routine \in Matrix!Left
         \/ pc' = "right" /\ i' = 11 /\ routine \notin Matrix!Left
  BY DEF Matrix!NextColumn
<1>2. /\ position \in Nat /\ blanks = 0 /\ shifts = position /\ Len(text) \in Nat
      /\ 0 <= Matrix!BlanksOf(routine)
  <2>1. position \in Nat /\ blanks \in Nat /\ shifts \in Nat /\ Len(text) \in Nat
    BY LenProperties DEF TextIInv, TextTypeOK
  <2>2. position + blanks = shifts /\ ~(blanks > 0)
    BY <1>1, <2>1 DEF TextIInv, Counted, Shifting
  <2> QED BY <2>1, <2>2 DEF Matrix!BlanksOf
<1> DEFINE c == text[(position \div 4) + 1]
           k == position % 4
<1>3. c \in Nat /\ k \in 0 .. 3
  <2>1. (position \div 4) + 1 \in 1 .. Len(text)
    BY <1>1, <1>2
  <2>2. position % 4 \in 0 .. 3
    BY <1>2
  <2> QED BY <2>1, <2>2, ElementOfSeq DEF TextIInv, TextTypeOK
<1>4. \A y \in Rows : Matrix!Entered(shifts, y) = Font <=> Matrix!Pixel(c, k, y)
  BY <1>1, <1>2 DEF Matrix!Entered, Matrix!ColoursAssumption
<1>5. data' = Matrix!Byte(Matrix!get_3x5_bmp(c), k)
  BY <1>1 DEF Matrix!ColumnOf
<1> HIDE DEF c, k
<1>6. \A y \in Rows : Matrix!Bit(data', y) <=> Matrix!Entered(shifts, y) = Font
  BY <1>3, <1>4, <1>5, FontColumn DEF Rows
<1>7. data' \in Nat
  BY <1>3, <1>5, FontNat, ByteNat
<1> QED BY <1>1, <1>2, <1>6, <1>7, ColumnStep

LEMMA NextBlankStep ==
  ASSUME Matrix!ColoursAssumption, TextIInv, Matrix!NextBlank
  PROVE  TextIInv'
<1>1. /\ pc = "text" /\ position = 4 * Len(text) /\ blanks < Matrix!BlanksOf(routine)
      /\ blanks' = blanks + 1 /\ data' = 0 /\ pc' = "left" /\ i' = 0 /\ j' = 0
      /\ UNCHANGED <<routine, text, position, leds, shifts>>
  BY DEF Matrix!NextBlank
<1>2. blanks \in Nat /\ position \in Nat /\ routine \in Matrix!Left /\ shifts = position + blanks
  <2>1. position \in Nat /\ blanks \in Nat /\ shifts \in Nat /\ routine \in Matrix!Routines \cup {"none"}
    BY DEF TextIInv, TextTypeOK
  <2>2. position + blanks = shifts
    BY <1>1, <2>1 DEF TextIInv, Counted, Shifting
  <2> QED BY <1>1, <2>1, <2>2 DEF Matrix!BlanksOf, Matrix!Routines, Matrix!Left
<1>3. \A y \in Rows : ~Matrix!Bit(0, y) /\ Matrix!Entered(shifts, y) = Back
  BY <1>1, <1>2 DEF Matrix!Bit, Rows, Matrix!Entered
<1>4. blanks' <= Matrix!BlanksOf(routine)
  BY <1>1, <1>2 DEF Matrix!BlanksOf, Matrix!Left
<1>5. \A y \in Rows : Matrix!Bit(data', y) <=> Matrix!Entered(shifts, y) = Font
  BY <1>1, <1>3 DEF Matrix!ColoursAssumption
<1>6. data' \in Nat /\ position' <= 4 * Len(text) /\ blanks' \in Nat /\ position' \in Nat
  BY <1>1, <1>2
<1> QED BY <1>1, <1>2, <1>4, <1>5, <1>6, ColumnStep

\* The step of a shift that copies the register of column u into column x
\* of row r: the column it copies from has not moved yet.
LEMMA ShiftLeftStep ==
  ASSUME Matrix!ColoursAssumption, TextIInv, Matrix!ShiftLeft
  PROVE  TextIInv'
<1>1. /\ pc = "left" /\ leds' = [leds EXCEPT ![i + j] = leds[i + j + 1]]
      /\ j' = (IF j = 84 THEN 0 ELSE j + 12)
      /\ IF j < 84 THEN UNCHANGED <<i, pc>>
         ELSE IF i < 10 THEN i' = i + 1 /\ pc' = pc ELSE i' = 11 /\ pc' = "enter"
      /\ UNCHANGED <<routine, text, position, blanks, data, shifts>>
  BY DEF Matrix!ShiftLeft, Matrix!Copy
<1>2. routine \in Matrix!Left /\ i \in 0 .. 10 /\ First = 11 /\ TextTypeOK /\ ScreenOK
  BY <1>1 DEF TextIInv, Counted, Looping, First
<1>3. PICK r \in Rows : j = 12 * r
  BY <1>1 DEF TextIInv, Looping
<1>4. \A x \in Columns, y \in Rows : Moved(x, y)' <=> Moved(x, y) \/ (x = i /\ y = r)
  <2> TAKE x \in Columns, y \in Rows
  <2>1. CASE r < 7
    <3>1. pc' = "left" /\ i' = i /\ j' = 12 * r + 12
      BY <1>1, <1>3, <2>1 DEF Rows
    <3> QED BY <1>1, <1>2, <1>3, <3>1 DEF Moved, Columns, Rows
  <2>2. CASE r = 7 /\ i < 10
    <3>1. pc' = "left" /\ i' = i + 1 /\ j' = 0
      BY <1>1, <1>3, <2>2
    <3> QED BY <1>1, <1>2, <1>3, <2>2, <3>1 DEF Moved, Columns, Rows
  <2>3. CASE r = 7 /\ i = 10
    <3>1. pc' = "enter" /\ i' = 11 /\ j' = 0 /\ First' = 11
      BY <1>1, <1>2, <1>3, <2>3 DEF First
    <3> QED BY <1>1, <1>2, <1>3, <2>3, <3>1 DEF Moved, Columns, Rows
  <2> QED BY <1>2, <2>1, <2>2, <2>3 DEF Rows
<1>5. leds[i + j + 1] = Window(shifts + 1, i, r)
  <2>1. PICK u \in Columns : u = i + 1
    BY <1>2 DEF Columns
  <2>2. ~Moved(u, r) /\ u + 12 * r = i + j + 1
    BY <1>1, <1>2, <1>3, <2>1 DEF Moved, Columns, Rows
  <2>3. leds[u + 12 * r] = Window(shifts, u, r)
    BY <1>2, <2>2 DEF ScreenOK
  <2>4. i \in Columns /\ i < 11 /\ shifts \in Nat
    <3>1. shifts \in Nat
      BY <1>2 DEF TextTypeOK
    <3> QED BY <1>2, <3>1 DEF Columns
  <2>5. Window(shifts + 1, i, r) = Window(shifts, i + 1, r)
    BY <1>2, <2>4, WindowMoves
  <2> QED BY <2>1, <2>2, <2>3, <2>5
<1>6. ScreenOK'
  <2>1. i \in Columns
    BY <1>2 DEF Columns
  <2>2. leds' = [leds EXCEPT ![i + 12 * r] = Window(shifts + 1, i, r)]
    BY <1>1, <1>3, <1>5
  <2> QED BY <1>1, <1>2, <1>4, <2>1, <2>2, OneRegister
<1>7. TextTypeOK'
  <2>1. leds' \in [0 .. 95 -> Shades]
    <3>1. i \in Columns
      BY <1>2 DEF Columns
    <3>2. leds[i + j + 1] \in Shades
      BY <1>2, <1>5, <3>1, ShadeOf
    <3> QED BY <1>1, <1>2, <3>2 DEF TextTypeOK
  <2>2. i' \in Int /\ j' \in Int /\ pc' \in {"left", "enter"}
    <3>1. j \in Int
      BY <1>2 DEF TextTypeOK
    <3> QED BY <1>1, <1>2, <3>1
  <2> QED BY <1>1, <1>2, <2>1, <2>2 DEF TextTypeOK
<1>8. Counted'
  BY <1>1, <1>2 DEF TextIInv, Counted, Shifting
<1>9. Looping' /\ Incoming'
  <2>1. CASE r < 7
    <3>1. pc' = "left" /\ i' = i /\ j' = 12 * (r + 1) /\ r + 1 \in Rows
      BY <1>1, <1>3, <2>1 DEF Rows
    <3>2. Looping'
      BY <1>2, <3>1 DEF Looping
    <3> QED BY <1>1, <3>1, <3>2, SameTape DEF TextIInv, Incoming, Coming
  <2>2. CASE r = 7 /\ i < 10
    <3>1. pc' = "left" /\ i' = i + 1 /\ j' = 12 * 0 /\ 0 \in Rows
      BY <1>1, <1>3, <2>2 DEF Rows
    <3>2. Looping'
      BY <1>2, <2>2, <3>1 DEF Looping
    <3> QED BY <1>1, <3>1, <3>2, SameTape DEF TextIInv, Incoming, Coming
  <2>3. CASE r = 7 /\ i = 10
    <3>1. pc' = "enter" /\ i' = First' + 12 * 0 /\ First' = 11 /\ 0 \in Rows
      BY <1>1, <1>2, <1>3, <2>3 DEF First, Rows
    <3>2. Looping'
      BY <3>1 DEF Looping
    <3>3. Coming(0)'
      BY <1>1, SameTape DEF TextIInv, Incoming, Coming
    <3>4. \A y \in Rows : i' = First' + 12 * y => y = 0
      BY <3>1 DEF Rows
    <3> QED BY <3>1, <3>2, <3>3, <3>4 DEF Incoming
  <2> QED BY <1>2, <2>1, <2>2, <2>3 DEF Rows
<1> QED BY <1>6, <1>7, <1>8, <1>9 DEF TextIInv

LEMMA ShiftRightStep ==
  ASSUME Matrix!ColoursAssumption, TextIInv, Matrix!ShiftRight
  PROVE  TextIInv'
<1>1. /\ pc = "right" /\ leds' = [leds EXCEPT ![i + j] = leds[i + j - 1]]
      /\ j' = (IF j = 84 THEN 0 ELSE j + 12)
      /\ IF j < 84 THEN UNCHANGED <<i, pc>>
         ELSE IF i > 1 THEN i' = i - 1 /\ pc' = pc ELSE i' = 0 /\ pc' = "enter"
      /\ UNCHANGED <<routine, text, position, blanks, data, shifts>>
  BY DEF Matrix!ShiftRight, Matrix!Copy
<1>2. routine \notin Matrix!Left /\ i \in 1 .. 11 /\ First = 0 /\ TextTypeOK /\ ScreenOK
  BY <1>1 DEF TextIInv, Counted, Looping, First
<1>3. PICK r \in Rows : j = 12 * r
  BY <1>1 DEF TextIInv, Looping
<1>4. \A x \in Columns, y \in Rows : Moved(x, y)' <=> Moved(x, y) \/ (x = i /\ y = r)
  <2> TAKE x \in Columns, y \in Rows
  <2>1. CASE r < 7
    <3>1. pc' = "right" /\ i' = i /\ j' = 12 * r + 12
      BY <1>1, <1>3, <2>1 DEF Rows
    <3> QED BY <1>1, <1>2, <1>3, <3>1 DEF Moved, Columns, Rows
  <2>2. CASE r = 7 /\ i > 1
    <3>1. pc' = "right" /\ i' = i - 1 /\ j' = 0
      BY <1>1, <1>3, <2>2
    <3> QED BY <1>1, <1>2, <1>3, <2>2, <3>1 DEF Moved, Columns, Rows
  <2>3. CASE r = 7 /\ i = 1
    <3>1. pc' = "enter" /\ i' = 0 /\ j' = 0 /\ First' = 0
      BY <1>1, <1>2, <1>3, <2>3 DEF First
    <3> QED BY <1>1, <1>2, <1>3, <2>3, <3>1 DEF Moved, Columns, Rows
  <2> QED BY <1>2, <2>1, <2>2, <2>3 DEF Rows
<1>5. leds[i + j - 1] = Window(shifts + 1, i, r)
  <2>1. PICK u \in Columns : u = i - 1
    BY <1>2 DEF Columns
  <2>2. ~Moved(u, r) /\ u + 12 * r = i + j - 1
    BY <1>1, <1>2, <1>3, <2>1 DEF Moved, Columns, Rows
  <2>3. leds[u + 12 * r] = Window(shifts, u, r)
    BY <1>2, <2>2 DEF ScreenOK
  <2>4. i \in Columns /\ i > 0 /\ shifts \in Nat
    <3>1. shifts \in Nat
      BY <1>2 DEF TextTypeOK
    <3> QED BY <1>2, <3>1 DEF Columns
  <2>5. Window(shifts + 1, i, r) = Window(shifts, i - 1, r)
    BY <1>2, <2>4, WindowMoves
  <2> QED BY <2>1, <2>2, <2>3, <2>5
<1>6. ScreenOK'
  <2>1. i \in Columns
    BY <1>2 DEF Columns
  <2>2. leds' = [leds EXCEPT ![i + 12 * r] = Window(shifts + 1, i, r)]
    BY <1>1, <1>3, <1>5
  <2> QED BY <1>1, <1>2, <1>4, <2>1, <2>2, OneRegister
<1>7. TextTypeOK'
  <2>1. leds' \in [0 .. 95 -> Shades]
    <3>1. i \in Columns
      BY <1>2 DEF Columns
    <3>2. leds[i + j - 1] \in Shades
      BY <1>2, <1>5, <3>1, ShadeOf
    <3> QED BY <1>1, <1>2, <3>2 DEF TextTypeOK
  <2>2. i' \in Int /\ j' \in Int /\ pc' \in {"right", "enter"}
    <3>1. j \in Int
      BY <1>2 DEF TextTypeOK
    <3> QED BY <1>1, <1>2, <3>1
  <2> QED BY <1>1, <1>2, <2>1, <2>2 DEF TextTypeOK
<1>8. Counted'
  BY <1>1, <1>2 DEF TextIInv, Counted, Shifting
<1>9. Looping' /\ Incoming'
  <2>1. CASE r < 7
    <3>1. pc' = "right" /\ i' = i /\ j' = 12 * (r + 1) /\ r + 1 \in Rows
      BY <1>1, <1>3, <2>1 DEF Rows
    <3>2. Looping'
      BY <1>2, <3>1 DEF Looping
    <3> QED BY <1>1, <3>1, <3>2, SameTape DEF TextIInv, Incoming, Coming
  <2>2. CASE r = 7 /\ i > 1
    <3>1. pc' = "right" /\ i' = i - 1 /\ j' = 12 * 0 /\ 0 \in Rows
      BY <1>1, <1>3, <2>2 DEF Rows
    <3>2. Looping'
      BY <1>2, <2>2, <3>1 DEF Looping
    <3> QED BY <1>1, <3>1, <3>2, SameTape DEF TextIInv, Incoming, Coming
  <2>3. CASE r = 7 /\ i = 1
    <3>1. pc' = "enter" /\ i' = First' + 12 * 0 /\ First' = 0 /\ 0 \in Rows
      BY <1>1, <1>2, <1>3, <2>3 DEF First, Rows
    <3>2. Looping'
      BY <3>1 DEF Looping
    <3>3. Coming(0)'
      BY <1>1, SameTape DEF TextIInv, Incoming, Coming
    <3>4. \A y \in Rows : i' = First' + 12 * y => y = 0
      BY <3>1 DEF Rows
    <3> QED BY <3>1, <3>2, <3>3, <3>4 DEF Incoming
  <2> QED BY <1>2, <2>1, <2>2, <2>3 DEF Rows
<1> QED BY <1>6, <1>7, <1>8, <1>9 DEF TextIInv

\* A row of the new column; the last one completes the shift.
LEMMA EnterStep ==
  ASSUME Matrix!ColoursAssumption, TextIInv, Matrix!Enter
  PROVE  TextIInv'
<1>1. /\ pc = "enter" /\ leds' = [leds EXCEPT ![i] = IF data % 2 = 1 THEN Font ELSE Back]
      /\ data' = data \div 2 /\ i' = i + 12
      /\ IF i' >= 96 THEN pc' = "text" /\ shifts' = shifts + 1 ELSE UNCHANGED <<pc, shifts>>
      /\ UNCHANGED <<routine, text, position, blanks, j>>
  BY DEF Matrix!Enter
<1>2. /\ TextTypeOK /\ ScreenOK /\ First \in {0, 11} /\ First' = First
      /\ data \in Nat /\ shifts \in Nat
  BY <1>1 DEF TextIInv, TextTypeOK, First
<1>3. PICK r \in Rows : i = First + 12 * r
  BY <1>1 DEF TextIInv, Looping
<1>4. Coming(r)
  BY <1>1, <1>3 DEF TextIInv, Incoming
<1>5. /\ data' \in Nat /\ \A y \in 0 .. 6 : Matrix!Bit(data', y) <=> Matrix!Bit(data, y + 1)
      /\ data % 2 = 1 <=> Matrix!Bit(data, 0)
  BY <1>1, <1>2, HalfBits
<1>6. leds' = [leds EXCEPT ![First + 12 * r] = Window(shifts + 1, First, r)]
  <2>1. Matrix!Entered(shifts, r) = IF data % 2 = 1 THEN Font ELSE Back
    <3>1. 0 \in 0 .. 7 - r /\ 0 + r = r
      BY DEF Rows
    <3>2. Matrix!Bit(data, 0) <=> Matrix!Entered(shifts, r) = Font
      BY <1>4, <3>1 DEF Coming
    <3> QED BY <1>5, <3>2, EnteredIs
  <2>2. Window(shifts + 1, First, r) = Matrix!Entered(shifts, r)
    <3>1. First \in Columns
      BY <1>2 DEF Columns
    <3> QED BY <1>2, <3>1, WindowMoves
  <2> QED BY <1>1, <1>3, <2>1, <2>2
<1>7. leds' \in [0 .. 95 -> Shades]
  <2>1. First \in Columns
    BY <1>2 DEF Columns
  <2>2. Window(shifts + 1, First, r) \in Shades
    BY <1>2, <2>1, ShadeOf
  <2> QED BY <1>2, <1>6, <2>2 DEF TextTypeOK
<1>8. TextTypeOK'
  <2>1. i' \in Int /\ shifts' \in Nat /\ pc' \in {"text", "enter"}
    <3>1. i \in Int
      BY <1>2 DEF TextTypeOK
    <3> QED BY <1>1, <1>2, <3>1
  <2> QED BY <1>1, <1>2, <1>5, <1>7, <2>1 DEF TextTypeOK
<1>9. CASE r < 7
  <2>1. pc' = "enter" /\ i' = First' + 12 * (r + 1) /\ r + 1 \in Rows /\ shifts' = shifts
    BY <1>1, <1>2, <1>3, <1>9 DEF Rows
  <2>2. Counted'
    BY <1>1, <2>1 DEF TextIInv, Counted, Shifting
  <2>3. Looping'
    BY <2>1 DEF Looping
  <2>4. Coming(r + 1)'
    <3> SUFFICES ASSUME NEW y \in 0 .. 7 - (r + 1)
                 PROVE  Matrix!Bit(data', y) <=> Matrix!Entered(shifts, y + (r + 1))' = Font
      BY <2>1 DEF Coming
    <3>1. PICK w \in 0 .. 7 - r : w = y + 1 /\ y + (r + 1) = w + r
      BY DEF Rows
    <3>2. Matrix!Bit(data, w) <=> Matrix!Entered(shifts, w + r) = Font
      BY <1>4 DEF Coming
    <3>3. Matrix!Bit(data', y) <=> Matrix!Bit(data, w)
      BY <1>5, <3>1 DEF Rows
    <3> QED BY <1>1, <2>1, <3>1, <3>2, <3>3, SameTape
  <2>5. Incoming'
    <3>1. \A y \in Rows : i' = First' + 12 * y => y = r + 1
      BY <1>2, <2>1 DEF Rows
    <3> QED BY <2>1, <2>4, <3>1 DEF Incoming
  <2>6. ScreenOK'
    <3>1. First \in Columns
      BY <1>2 DEF Columns
    <3>2. \A x \in Columns, y \in Rows : Moved(x, y)' <=> Moved(x, y) \/ (x = First /\ y = r)
      <4> TAKE x \in Columns, y \in Rows
      <4>1. First + 12 * y < i <=> y < r
        BY <1>2, <1>3 DEF Rows
      <4>2. First + 12 * y < i' <=> y < r + 1
        BY <1>2, <1>3, <1>1 DEF Rows
      <4>3. y < r + 1 <=> y < r \/ y = r
        BY DEF Rows
      <4>4. Moved(x, y) <=> x # First \/ y < r
        BY <1>1, <4>1 DEF Moved
      <4>5. Moved(x, y)' <=> x # First \/ y < r + 1
        BY <1>2, <2>1, <4>2 DEF Moved
      <4> QED BY <4>3, <4>4, <4>5 DEF Rows
    <3>3. UNCHANGED <<routine, text, shifts>>
      BY <1>1, <2>1
    <3>4. PICK u \in Columns : u = First
      BY <3>1
    <3>5. \A x \in Columns, y \in Rows : Moved(x, y)' <=> Moved(x, y) \/ (x = u /\ y = r)
      BY <3>2, <3>4
    <3>6. leds' = [leds EXCEPT ![u + 12 * r] = Window(shifts + 1, u, r)]
      BY <1>6, <3>4
    <3> QED BY ONLY <1>2, <3>3, <3>5, <3>6, u \in Columns, r \in Rows, OneRegister
  <2> QED BY <1>8, <2>2, <2>3, <2>5, <2>6 DEF TextIInv
<1>10. CASE r = 7
  <2>1. pc' = "text" /\ shifts' = shifts + 1
    BY <1>1, <1>2, <1>3, <1>10
  <2>2. Counted'
    BY <1>1, <1>2, <2>1 DEF TextIInv, Counted, Shifting
  <2>3. Looping' /\ Incoming'
    BY <2>1 DEF Looping, Incoming
  <2>4. ScreenOK'
    <3> SUFFICES ASSUME NEW x \in Columns, NEW y \in Rows
                 PROVE  leds'[x + 12 * y] = Window(shifts + 1, x, y)
      BY <1>1, <2>1, SameTape DEF ScreenOK, Moved
    <3>1. First \in Columns
      BY <1>2 DEF Columns
    <3>2. x + 12 * y \in 0 .. 95 /\ (x + 12 * y = First + 12 * r => x = First /\ y = r)
      BY <3>1, RegisterOf
    <3>3. CASE x = First /\ y = r
      BY <1>2, <1>6, <3>2, <3>3 DEF TextTypeOK
    <3>4. CASE ~(x = First /\ y = r)
      <4>1. leds'[x + 12 * y] = leds[x + 12 * y]
        BY <1>2, <1>6, <3>2, <3>4 DEF TextTypeOK
      <4>2. Moved(x, y)
        <5>1. x # First \/ y < 7
          BY <1>10, <3>4 DEF Rows
        <5>2. y < 7 => First + 12 * y < i
          BY <1>2, <1>3, <1>10 DEF Rows
        <5> QED BY <1>1, <5>1, <5>2 DEF Moved
      <4> QED BY <1>2, <4>1, <4>2 DEF ScreenOK
    <3> QED BY <3>3, <3>4
  <2> QED BY <1>8, <2>2, <2>3, <2>4 DEF TextIInv
<1> QED BY <1>9, <1>10 DEF Rows

LEMMA ReturnStep ==
  ASSUME TextIInv, Matrix!Return
  PROVE  TextIInv'
<1>1. /\ pc = "text" /\ pc' = "main"
      /\ UNCHANGED <<routine, text, position, blanks, i, j, data, leds, shifts>>
  BY DEF Matrix!Return
<1>2. TextTypeOK' /\ Looping' /\ Incoming'
  BY <1>1 DEF TextIInv, TextTypeOK, Looping, Incoming
<1>3. Counted'
  BY <1>1 DEF TextIInv, Counted, Shifting
<1>4. ScreenOK'
  <2>1. \A x, y : ~Moved(x, y) /\ ~Moved(x, y)'
    BY <1>1 DEF Moved
  <2> QED BY <1>1, <2>1, SameTape DEF TextIInv, ScreenOK
<1> QED BY <1>2, <1>3, <1>4 DEF TextIInv

LEMMA TextStep ==
  ASSUME Matrix!ColoursAssumption, Matrix!TextsAssumption, TextIInv, [Matrix!Next]_(Matrix!vars)
  PROVE  TextIInv'
<1>1. ASSUME UNCHANGED Matrix!vars
      PROVE  TextIInv'
  <2>1. TextTypeOK' /\ Counted' /\ Looping'
    BY <1>1 DEF Matrix!vars, TextIInv, TextTypeOK, Counted, Shifting, Looping, First
  <2>2. Incoming'
    BY <1>1, SameTape DEF Matrix!vars, TextIInv, Incoming, Coming, First
  <2>3. ScreenOK'
    <3>1. \A x, y : Moved(x, y)' = Moved(x, y)
      BY <1>1 DEF Matrix!vars, Moved, First
    <3> QED BY <1>1, <3>1, SameTape DEF Matrix!vars, TextIInv, ScreenOK
  <2> QED BY <2>1, <2>2, <2>3 DEF TextIInv
<1> QED BY <1>1, CallStep, NextColumnStep, NextBlankStep, ReturnStep, ShiftLeftStep, ShiftRightStep,
           EnterStep DEF Matrix!Next

(***************************************************************************)
(* Between two shifts the matrix shows twelve columns of the tape, for     *)
(* every text and however long it runs.                                    *)
(***************************************************************************)
THEOREM TextIsWindow ==
  ASSUME Matrix!ColoursAssumption, Matrix!TextsAssumption
  PROVE  Matrix!Spec => []Matrix!ScreenIsWindow
<1>1. TextIInv => Matrix!ScreenIsWindow
  <2> SUFFICES ASSUME TextIInv, pc \in {"main", "text"}, NEW x \in 0 .. 11, NEW y \in 0 .. 7
               PROVE  leds[x + 12 * y] = Window(shifts, x, y)
    BY DEF Matrix!ScreenIsWindow, Window
  <2>1. ~Moved(x, y)
    BY DEF Moved
  <2> QED BY <2>1 DEF TextIInv, ScreenOK, Columns, Rows
<1> QED BY TextInit, TextStep, <1>1, PTL DEF Matrix!Spec

-----------------------------------------------------------------------------
(* What is drawn on the canvas.                                            *)

CONSTANTS Colours, Images, Bitmaps, Rectangles, MaxCalls
VARIABLES call, calls, x, y, canvas, before, stray
Canvas == INSTANCE LedCanvas

CanvasTypeOK ==
  /\ canvas \in [Canvas!Pixels -> Canvas!Colour] /\ leds \in [0 .. 95 -> Canvas!Colour]
  /\ before \in [Canvas!Pixels -> Canvas!Colour]

(* A bitmap: the position follows the number of the bit, and the bits      *)
(* before it are drawn.                                                    *)
BitAt(p) == 8 * p[1] + p[2]
Drawn(p) == canvas[p] = IF BitAt(p) \in call.bits THEN call.c1 ELSE call.c0
Bitmapping ==
  /\ pc = "bitmap" =>
       /\ call.routine = "bitmap" /\ call.c0 \in Colours /\ call.c1 \in Colours
       /\ i \in 0 .. 3 /\ j \in 0 .. 31 /\ (i = 3 => j = 0)
       /\ x \in 0 .. 12 /\ y \in 0 .. 7 /\ 32 * i + j = 8 * x + y
       /\ ~call.alpha => \A p \in Canvas!Pixels : BitAt(p) < 8 * x + y => Drawn(p)
  /\ Canvas!Returned("bitmap") /\ ~call.alpha => \A p \in Canvas!Pixels : Drawn(p)

(* A rectangle: its pixels the loops are past are filled, and only these   *)
(* when it does not start above; no pixel is changed otherwise.            *)
Inside(p) == Canvas!InRect(p)
Past(p) == p[1] < i \/ (p[1] = i /\ p[2] < j)
Filled(p) ==
  IF call.alpha THEN Canvas!Covered(call.c, canvas[p], before[p]) ELSE canvas[p] = call.c
SoFar(p) ==
  /\ Inside(p) /\ Past(p) => Filled(p)
  /\ canvas[p] = before[p] \/ Filled(p)
  /\ call.rect.y >= 0 /\ ~(Inside(p) /\ Past(p)) => canvas[p] = before[p]
Corners == [x : Canvas!Coordinate, y : Canvas!Coordinate, w : Canvas!Coordinate, h : Canvas!Coordinate]
Filling ==
  /\ call.routine = "rect" => call.rect \in Corners /\ call.c \in Colours
  /\ pc = "rect" =>
       /\ call.routine = "rect"
       /\ i \in Int /\ j \in Int /\ i >= call.rect.x /\ j >= call.rect.y
       /\ \A p \in Canvas!Pixels : SoFar(p)
  /\ Canvas!Returned("rect") =>
       \A p \in Canvas!Pixels :
         /\ Inside(p) => Filled(p)
         /\ ~Inside(p) /\ call.rect.y >= 0 => canvas[p] = before[p]

CanvasIInv ==
  /\ pc \in {"main", "bitmap", "rect"} /\ CanvasTypeOK
  /\ Bitmapping /\ Filling /\ Canvas!StaysInside

-----------------------------------------------------------------------------
LEMMA Product ==
  ASSUME NEW u \in Nat, NEW v \in Nat, NEW a \in Nat, u <= v
  PROVE  u * a <= v * a
<1>1. v = u + (v - u) /\ v - u \in Nat
  OBVIOUS
<1>2. PICK d \in Nat : v = u + d
  BY <1>1
<1>3. (u + d) * a = u * a + d * a
  OBVIOUS
<1>4. d * a >= 0 /\ u * a \in Nat
  OBVIOUS
<1> QED BY <1>2, <1>3, <1>4

Blend(b, f, a) == (b * (255 - a) + f * a) \div 255

\* A blend lies between its two colours, whatever the alpha.
LEMMA Between ==
  ASSUME NEW b \in Canvas!Channels, NEW f \in Canvas!Channels, NEW a \in Canvas!Channels
  PROVE  /\ Blend(b, f, a) \in Canvas!Channels
         /\ a = 0 => Blend(b, f, a) = b
         /\ a = 255 => Blend(b, f, a) = f
         /\ Blend(b, f, a) <= b \/ Blend(b, f, a) <= f
         /\ Blend(b, f, a) >= b \/ Blend(b, f, a) >= f
<1> USE DEF Canvas!Channels
<1> DEFINE s == b * (255 - a) + f * a
           v == s \div 255
<1>1. b * (255 - a) + b * a = b * 255 /\ f * (255 - a) + f * a = f * 255
  OBVIOUS
<1>2. s \in Nat
  <2>1. b * (255 - a) \in Nat /\ f * a \in Nat
    OBVIOUS
  <2> QED BY <2>1
<1>3. b <= f => b * 255 <= s /\ s <= f * 255
  <2> SUFFICES ASSUME b <= f PROVE b * 255 <= s /\ s <= f * 255
    OBVIOUS
  <2>1. b * a <= f * a /\ b * (255 - a) <= f * (255 - a)
    BY Product
  <2> QED BY <1>1, <2>1
<1>4. f <= b => f * 255 <= s /\ s <= b * 255
  <2> SUFFICES ASSUME f <= b PROVE f * 255 <= s /\ s <= b * 255
    OBVIOUS
  <2>1. f * a <= b * a /\ f * (255 - a) <= b * (255 - a)
    BY Product
  <2> QED BY <1>1, <2>1
<1>5. a = 0 => s = b * 255
  OBVIOUS
<1>6. a = 255 => s = f * 255
  OBVIOUS
<1> HIDE DEF s
<1>7. \A n \in Nat, m \in Nat : n * 255 <= m => n <= m \div 255
  OBVIOUS
<1>8. \A n \in Nat, m \in Nat : m <= n * 255 => m \div 255 <= n
  OBVIOUS
<1>9. v \in Nat
  BY <1>2
<1>10. (b <= f => b <= v /\ v <= f) /\ (f <= b => f <= v /\ v <= b)
  BY <1>2, <1>3, <1>4, <1>7, <1>8
<1>11. (a = 0 => v = b) /\ (a = 255 => v = f)
  BY <1>5, <1>6
<1> HIDE DEF v
<1>12. /\ v \in 0 .. 255 /\ (a = 0 => v = b) /\ (a = 255 => v = f)
       /\ (v <= b \/ v <= f) /\ (v >= b \/ v >= f)
  BY <1>9, <1>10, <1>11
<1> QED BY <1>12 DEF v, s, Blend

LEMMA AlphaColour ==
  ASSUME NEW c \in Canvas!Colour, NEW old \in Canvas!Colour
  PROVE  /\ Canvas!apply_alpha(c, old) \in Canvas!Colour
         /\ Canvas!Covered(c, Canvas!apply_alpha(c, old), old)
<1> DEFINE v == Blend(old.v, c.v, c.a)
<1>1. c.a \in Canvas!Channels /\ c.v \in Canvas!Channels /\ old.v \in Canvas!Channels
  BY DEF Canvas!Colour
<1>2. /\ v \in Canvas!Channels /\ (c.a = 0 => v = old.v) /\ (c.a = 255 => v = c.v)
      /\ (v <= old.v \/ v <= c.v) /\ (v >= old.v \/ v >= c.v)
  BY <1>1, Between
<1>3. Canvas!apply_alpha(c, old) = [a |-> 255, v |-> v]
  BY DEF Canvas!apply_alpha, Blend
<1> HIDE DEF v
<1> QED BY <1>2, <1>3 DEF Canvas!Covered, Canvas!Colour, Canvas!Channels

LEMMA BetweenAgain ==
  \A u, v, w, z \in Canvas!Channels :
    /\ (u <= v \/ u <= z) /\ (v <= w \/ v <= z) => u <= w \/ u <= z
    /\ (u >= v \/ u >= z) /\ (v >= w \/ v >= z) => u >= w \/ u >= z
BY DEF Canvas!Channels

\* A pixel blended with a colour once more is still covered by it.
LEMMA CoveredAgain ==
  ASSUME NEW c \in Canvas!Colour, NEW old \in Canvas!Colour, NEW mid \in Canvas!Colour,
         mid = old \/ Canvas!Covered(c, mid, old)
  PROVE  Canvas!Covered(c, Canvas!apply_alpha(c, mid), old)
<1>1. PICK new : new = Canvas!apply_alpha(c, mid)
  OBVIOUS
<1>2. Canvas!Covered(c, new, mid) /\ new \in Canvas!Colour
  BY <1>1, AlphaColour
<1>3. /\ c.v \in Canvas!Channels /\ new.v \in Canvas!Channels
      /\ mid.v \in Canvas!Channels /\ old.v \in Canvas!Channels
  BY <1>2 DEF Canvas!Colour
<1>4. CASE mid = old
  BY <1>1, <1>2, <1>4
<1>5. CASE Canvas!Covered(c, mid, old)
  <2>1. /\ new.v <= mid.v \/ new.v <= c.v
        /\ new.v >= mid.v \/ new.v >= c.v
    BY <1>2 DEF Canvas!Covered
  <2>2. /\ mid.v <= old.v \/ mid.v <= c.v
        /\ mid.v >= old.v \/ mid.v >= c.v
    BY <1>5 DEF Canvas!Covered
  <2>3. /\ new.v <= old.v \/ new.v <= c.v
        /\ new.v >= old.v \/ new.v >= c.v
    BY <1>3, <2>1, <2>2, BetweenAgain
  <2>4. new.a = 255 /\ (c.a = 0 => new.v = old.v) /\ (c.a = 255 => new.v = c.v)
    BY <1>2, <1>5 DEF Canvas!Covered
  <2>5. Canvas!Covered(c, new, old)
    BY <2>3, <2>4 DEF Canvas!Covered
  <2> QED BY <1>1, <2>5
<1> QED BY <1>4, <1>5

\* The word of a pixel of a row of the matrix, inside the canvas or not.
LEMMA WordOfPixel ==
  ASSUME NEW u \in Int, NEW v \in 0 .. 7
  PROVE  /\ Canvas!PixelAt(Canvas!Word(u, v)) = <<u, v>>
         /\ u \in 0 .. 11 => Canvas!Stray(Canvas!Word(u, v)) = {}
<1>1. (8 * u + v) \div 8 = u /\ (8 * u + v) % 8 = v
  OBVIOUS
<1>2. u \in 0 .. 11 => 8 * u + v \in 0 .. 95
  OBVIOUS
<1> QED BY <1>1, <1>2 DEF Canvas!PixelAt, Canvas!Word, Canvas!Stray

LEMMA PixelPair ==
  /\ \A u \in Canvas!Xs, w \in Canvas!Ys : <<u, w>> \in Canvas!Pixels
  /\ \A p \in Canvas!Pixels : p[1] \in Canvas!Xs /\ p[2] \in Canvas!Ys /\ p = <<p[1], p[2]>>
BY DEF Canvas!Pixels

LEMMA BitRange == \A p \in Canvas!Pixels : BitAt(p) \in 0 .. 95
<1> TAKE p \in Canvas!Pixels
<1>1. p[1] \in 0 .. 11 /\ p[2] \in 0 .. 7
  BY DEF Canvas!Pixels, Canvas!Xs, Canvas!Ys
<1> QED BY <1>1 DEF BitAt

LEMMA BitPosition ==
  ASSUME NEW u \in 0 .. 2, NEW v \in 0 .. 31, NEW m \in 0 .. 12, NEW n \in 0 .. 7, 32 * u + v = 8 * m + n
  PROVE  v % 8 = n /\ m \in 0 .. 11
<1>1. m <= 11
  OBVIOUS
<1>2. u = 0 \/ u = 1 \/ u = 2
  OBVIOUS
<1>3. v = 8 * (m - 4 * u) + n
  BY <1>2
<1> QED BY <1>1, <1>3

LEMMA CanvasInit == Canvas!Init => CanvasIInv
<1> SUFFICES ASSUME Canvas!Init PROVE CanvasIInv
  OBVIOUS
<1>1. [a |-> 0, v |-> 0] \in Canvas!Colour
  BY DEF Canvas!Colour, Canvas!Channels
<1>2. pc = "main" /\ call.routine = "none"
  BY DEF Canvas!Init, Canvas!NoCall
<1>3. CanvasTypeOK
  BY <1>1 DEF Canvas!Init, CanvasTypeOK
<1>4. Canvas!StaysInside
  BY DEF Canvas!Init, Canvas!StaysInside
<1> QED BY <1>2, <1>3, <1>4 DEF CanvasIInv, Bitmapping, Filling, Canvas!Returned

\* The routines that go over the whole matrix.
LEMMA PictureStep ==
  ASSUME CanvasIInv, NEW c, Canvas!Begin(c), pc' = pc, Canvas!StaysInside',
         canvas' \in [Canvas!Pixels -> Canvas!Colour], leds' \in [0 .. 95 -> Canvas!Colour],
         c.routine \notin {"bitmap", "rect"}
  PROVE  CanvasIInv'
<1>1. pc = "main" /\ call' = c /\ before' = canvas
  BY DEF Canvas!Begin
<1>2. CanvasTypeOK'
  BY <1>1 DEF CanvasIInv, CanvasTypeOK
<1> QED BY <1>1, <1>2 DEF CanvasIInv, Bitmapping, Filling, Canvas!Returned

LEMMA WholeStep ==
  ASSUME CanvasIInv, NEW c, NEW newCanvas, NEW newLeds, Canvas!Whole(c, newCanvas, newLeds),
         newCanvas \in [Canvas!Pixels -> Canvas!Colour], newLeds \in [0 .. 95 -> Canvas!Colour],
         c.routine \notin {"bitmap", "rect"}
  PROVE  CanvasIInv'
<1>1. /\ Canvas!Begin(c) /\ pc' = pc /\ canvas' = newCanvas /\ leds' = newLeds /\ stray' = {}
  BY DEF Canvas!Whole
<1>2. Canvas!StaysInside'
  BY <1>1 DEF Canvas!StaysInside
<1> QED BY <1>1, <1>2, PictureStep

LEMMA BitmapCallStep ==
  ASSUME CanvasIInv, NEW bits, NEW c0 \in Colours, NEW c1 \in Colours, NEW alpha \in BOOLEAN,
         Canvas!BitmapCall(bits, c0, c1, alpha)
  PROVE  CanvasIInv'
<1>1. /\ call' = [routine |-> "bitmap", bits |-> bits, c0 |-> c0, c1 |-> c1, alpha |-> alpha]
      /\ pc' = "bitmap" /\ i' = 0 /\ j' = 0 /\ x' = 0 /\ y' = 0 /\ before' = canvas /\ stray' = {}
      /\ UNCHANGED <<canvas, leds>>
  BY DEF Canvas!BitmapCall, Canvas!Begin
<1>2. CanvasTypeOK'
  BY <1>1 DEF CanvasIInv, CanvasTypeOK
<1>3. \A p \in Canvas!Pixels : ~(BitAt(p) < 0)
  BY BitRange
<1>4. Bitmapping'
  BY <1>1, <1>3 DEF Bitmapping, Canvas!Returned, BitAt
<1>5. Canvas!StaysInside'
  BY <1>1 DEF Canvas!StaysInside
<1> QED BY <1>1, <1>2, <1>4, <1>5 DEF CanvasIInv, Filling, Canvas!Returned

LEMMA BitmapPixelStep ==
  ASSUME Canvas!ColoursAssumption, CanvasIInv, Canvas!BitmapPixel
  PROVE  CanvasIInv'
<1> DEFINE c == IF 32 * i + j \in call.bits THEN call.c1 ELSE call.c0
           drawn == IF call.alpha THEN Canvas!apply_alpha(c, leds[x + y]) ELSE c
           at == Canvas!PixelAt(Canvas!Word(x, y))
<1>1. /\ pc = "bitmap" /\ i < 3 /\ canvas' = [canvas EXCEPT ![at] = drawn] /\ Canvas!Advance
      /\ stray' = stray \cup Canvas!Stray(Canvas!Word(x, y))
      /\ IF j = 31 THEN j' = 0 /\ i' = i + 1 ELSE j' = j + 1 /\ i' = i
      /\ UNCHANGED <<pc, call, calls, leds, before>>
  BY DEF Canvas!BitmapPixel
<1>2. /\ call.routine = "bitmap" /\ call.c0 \in Colours /\ call.c1 \in Colours
      /\ i \in 0 .. 2 /\ j \in 0 .. 31 /\ x \in 0 .. 12 /\ y \in 0 .. 7 /\ 32 * i + j = 8 * x + y
      /\ ~call.alpha => \A p \in Canvas!Pixels : BitAt(p) < 8 * x + y => Drawn(p)
  BY <1>1 DEF CanvasIInv, Bitmapping
<1>3. x \in Canvas!Xs /\ y \in Canvas!Ys /\ x + y \in 0 .. 95 /\ <<x, y>> \in Canvas!Pixels
  <2>1. x \in 0 .. 11
    BY <1>2, BitPosition
  <2>2. x + y \in 0 .. 95
    BY <1>2, <2>1
  <2>3. x \in Canvas!Xs /\ y \in Canvas!Ys
    BY <1>2, <2>1 DEF Canvas!Xs, Canvas!Ys
  <2> QED BY <2>2, <2>3, PixelPair
<1>4. at = <<x, y>> /\ stray' = stray
  <2>1. x \in 0 .. 11 /\ y \in 0 .. 7
    BY <1>3 DEF Canvas!Xs, Canvas!Ys
  <2> QED BY <1>1, <2>1, WordOfPixel
<1>5. drawn \in Canvas!Colour
  <2>1. c \in Canvas!Colour /\ leds[x + y] \in Canvas!Colour
    BY <1>2, <1>3 DEF CanvasIInv, CanvasTypeOK, Canvas!ColoursAssumption
  <2> HIDE DEF c
  <2> QED BY <2>1, AlphaColour
<1>6. CanvasTypeOK'
  <2> HIDE DEF drawn, at
  <2> QED BY <1>1, <1>3, <1>5, <1>4 DEF CanvasIInv, CanvasTypeOK
<1>7. /\ i' \in 0 .. 3 /\ j' \in 0 .. 31 /\ (i' = 3 => j' = 0)
      /\ x' \in 0 .. 12 /\ y' \in 0 .. 7 /\ 32 * i' + j' = 8 * x + y + 1 /\ 8 * x' + y' = 8 * x + y + 1
  <2>1. i' \in 0 .. 3 /\ j' \in 0 .. 31 /\ (i' = 3 => j' = 0) /\ 32 * i' + j' = 8 * x + y + 1
    BY <1>1, <1>2
  <2>2. j % 8 = y
    BY <1>2, BitPosition
  <2>3. x' \in 0 .. 12 /\ y' \in 0 .. 7 /\ 8 * x' + y' = 8 * x + y + 1
    BY <1>1, <1>2, <1>3, <2>2 DEF Canvas!Advance, Canvas!Xs
  <2> QED BY <2>1, <2>3
<1>8. ~call.alpha => \A p \in Canvas!Pixels : BitAt(p) < 8 * x + y + 1 => Drawn(p)'
  <2> SUFFICES ASSUME ~call.alpha, NEW p \in Canvas!Pixels, BitAt(p) < 8 * x + y + 1
               PROVE  Drawn(p)'
    OBVIOUS
  <2>1. canvas \in [Canvas!Pixels -> Canvas!Colour]
    BY DEF CanvasIInv, CanvasTypeOK
  <2>2. CASE BitAt(p) < 8 * x + y
    <3>1. p # <<x, y>>
      BY <2>2, <1>2 DEF BitAt
    <3>2. canvas'[p] = canvas[p]
      BY <1>1, <1>4, <2>1, <3>1
    <3> QED BY <1>1, <1>2, <2>2, <3>2 DEF Drawn, BitAt
  <2>3. CASE BitAt(p) = 8 * x + y
    <3>1. p = <<x, y>>
      <4>1. p[1] \in Canvas!Xs /\ p[2] \in Canvas!Ys /\ p = <<p[1], p[2]>>
        BY PixelPair
      <4>2. p[1] = x /\ p[2] = y
        BY <1>2, <2>3, <4>1 DEF BitAt, Canvas!Xs, Canvas!Ys
      <4> QED BY <4>1, <4>2
    <3>2. canvas'[p] = c
      BY <1>1, <1>3, <1>4, <2>1, <3>1
    <3>3. BitAt(p) = 32 * i + j
      BY <1>2, <2>3
    <3> QED BY <1>1, <3>2, <3>3 DEF Drawn, BitAt
  <2>4. BitAt(p) \in Int
    BY BitRange
  <2> QED BY <1>2, <2>2, <2>3, <2>4
<1>9. Bitmapping'
  <2>1. pc' = "bitmap" /\ call' = call
    BY <1>1
  <2>2. ~call'.alpha => \A p \in Canvas!Pixels : BitAt(p) < 8 * x' + y' => Drawn(p)'
    BY <1>7, <1>8, <2>1
  <2> QED BY <1>2, <1>7, <2>1, <2>2 DEF Bitmapping, Canvas!Returned, BitAt
<1>10. Filling'
  BY <1>1, <1>2 DEF Filling, Canvas!Returned
<1>11. Canvas!StaysInside'
  BY <1>1, <1>4 DEF CanvasIInv, Canvas!StaysInside, Canvas!Negative
<1> QED BY <1>1, <1>6, <1>9, <1>10, <1>11 DEF CanvasIInv

LEMMA BitmapReturnStep ==
  ASSUME CanvasIInv, Canvas!BitmapReturn
  PROVE  CanvasIInv'
<1>1. /\ pc = "bitmap" /\ i = 3 /\ pc' = "main"
      /\ UNCHANGED <<call, calls, i, j, x, y, canvas, leds, before, stray>>
  BY DEF Canvas!BitmapReturn
<1>2. call.routine = "bitmap" /\ 8 * x + y = 96
  BY <1>1 DEF CanvasIInv, Bitmapping
<1>3. ~call.alpha => \A p \in Canvas!Pixels : Drawn(p)
  <2>1. \A p \in Canvas!Pixels : BitAt(p) < 96
    BY BitRange
  <2> QED BY <1>1, <1>2, <2>1 DEF CanvasIInv, Bitmapping
<1>4. Bitmapping'
  BY <1>1, <1>3 DEF Bitmapping, Canvas!Returned, Drawn, BitAt
<1>5. CanvasTypeOK' /\ Filling'
  BY <1>1, <1>2 DEF CanvasIInv, CanvasTypeOK, Filling, Canvas!Returned
<1>6. Canvas!StaysInside'
  BY <1>1 DEF CanvasIInv, Canvas!StaysInside, Canvas!Negative
<1> QED BY <1>1, <1>4, <1>5, <1>6 DEF CanvasIInv

LEMMA CoordinateIsInt == \A n \in Canvas!Coordinate : n \in Int
  BY SMT DEF Canvas!Coordinate

LEMMA CornersAreInt ==
  ASSUME NEW r \in Corners
  PROVE  r.x \in Int /\ r.y \in Int /\ r.w \in Int /\ r.h \in Int
<1>1. /\ r.x \in Canvas!Coordinate /\ r.y \in Canvas!Coordinate
      /\ r.w \in Canvas!Coordinate /\ r.h \in Canvas!Coordinate
  BY DEF Corners
<1> QED BY <1>1, CoordinateIsInt

LEMMA RectCallStep ==
  ASSUME Canvas!RectanglesAssumption, CanvasIInv, NEW r \in Rectangles, NEW c \in Colours,
         NEW alpha \in BOOLEAN, Canvas!RectCall(r, c, alpha)
  PROVE  CanvasIInv'
<1>1. /\ call' = [routine |-> "rect", rect |-> r, c |-> c, alpha |-> alpha]
      /\ pc' = "rect" /\ i' = r.x /\ j' = r.y /\ before' = canvas /\ stray' = {}
      /\ UNCHANGED <<x, y, canvas, leds>>
  BY DEF Canvas!RectCall, Canvas!Begin
<1>2. CanvasTypeOK'
  BY <1>1 DEF CanvasIInv, CanvasTypeOK
<1>3. r \in Corners /\ r.x \in Int /\ r.y \in Int
  <2>1. r \in Corners
    BY DEF Canvas!RectanglesAssumption, Corners
  <2> QED BY <2>1, CornersAreInt
<1>4. \A p \in Canvas!Pixels : SoFar(p)'
  <2> TAKE p \in Canvas!Pixels
  <2>1. ~(Inside(p)' /\ Past(p)')
    <3>1. p[1] \in Nat /\ p[2] \in Nat
      BY PixelPair DEF Canvas!Xs, Canvas!Ys
    <3> QED BY <1>1, <1>3, <3>1 DEF Inside, Canvas!InRect, Past
  <2> QED BY <1>1, <2>1 DEF SoFar
<1>5. Filling'
  <2>1. call'.rect = r /\ call'.c = c /\ call'.routine = "rect"
    BY <1>1
  <2>2. i' \in Int /\ j' \in Int /\ i' >= r.x /\ j' >= r.y
    BY <1>1, <1>3
  <2> QED BY <1>1, <1>3, <1>4, <2>1, <2>2 DEF Filling, Canvas!Returned, Corners
<1>6. Canvas!StaysInside'
  BY <1>1 DEF Canvas!StaysInside
<1> QED BY <1>1, <1>2, <1>5, <1>6 DEF CanvasIInv, Bitmapping, Canvas!Returned

\* What the steps of a rectangle find.
LEMMA RectFacts ==
  ASSUME CanvasIInv, pc = "rect"
  PROVE  /\ call.routine = "rect" /\ call.c \in Colours /\ call.rect \in Corners
         /\ call.rect.x \in Int /\ call.rect.y \in Int /\ call.rect.w \in Int /\ call.rect.h \in Int
         /\ i \in Int /\ j \in Int /\ i >= call.rect.x /\ j >= call.rect.y
         /\ \A p \in Canvas!Pixels : SoFar(p)
<1>1. call.routine = "rect"
  BY DEF CanvasIInv, Filling
<1>2. call.rect \in Corners /\ call.c \in Colours
  BY <1>1 DEF CanvasIInv, Filling
<1>3. /\ call.rect.x \in Int /\ call.rect.y \in Int /\ call.rect.w \in Int /\ call.rect.h \in Int
  BY <1>2, CornersAreInt
<1> QED BY <1>1, <1>2, <1>3 DEF CanvasIInv, Filling

LEMMA RectPixelStep ==
  ASSUME Canvas!ColoursAssumption, CanvasIInv, Canvas!RectPixel
  PROVE  CanvasIInv'
<1> DEFINE n == Canvas!Word(i, j)
           here == Canvas!PixelAt(n)
           New(p) == IF call.alpha THEN Canvas!apply_alpha(call.c, canvas[p]) ELSE call.c
<1>1. /\ pc = "rect" /\ Canvas!InColumns /\ Canvas!InRows /\ j' = j + 1
      /\ canvas' = [p \in Canvas!Pixels |-> IF p # here THEN canvas[p] ELSE New(p)]
      /\ stray' = stray \cup Canvas!Stray(n)
      /\ UNCHANGED <<pc, call, calls, i, x, y, leds, before>>
  BY DEF Canvas!RectPixel
<1>2. /\ call.routine = "rect" /\ call.c \in Colours /\ call.rect \in Corners
      /\ call.rect.x \in Int /\ call.rect.y \in Int /\ call.rect.w \in Int /\ call.rect.h \in Int
      /\ i \in Int /\ j \in Int /\ i >= call.rect.x /\ j >= call.rect.y
      /\ \A p \in Canvas!Pixels : SoFar(p)
  BY <1>1, RectFacts
<1>3. i < call.rect.x + call.rect.w /\ i < 12 /\ j < call.rect.y + call.rect.h /\ j < 8
  BY <1>1 DEF Canvas!InColumns, Canvas!InRows
<1>4. j \in 0 .. 7 => here = <<i, j>> /\ (i \in 0 .. 11 => Canvas!Stray(n) = {})
  BY <1>2, WordOfPixel
<1> HIDE DEF n, here
<1>5. /\ canvas \in [Canvas!Pixels -> Canvas!Colour] /\ before \in [Canvas!Pixels -> Canvas!Colour]
      /\ call.c \in Canvas!Colour
  BY <1>2 DEF CanvasIInv, CanvasTypeOK, Canvas!ColoursAssumption
<1>6. \A p \in Canvas!Pixels : New(p) \in Canvas!Colour
  BY <1>5, AlphaColour
<1>7. CanvasTypeOK'
  <2> HIDE DEF New
  <2>1. canvas' \in [Canvas!Pixels -> Canvas!Colour]
    BY <1>1, <1>5, <1>6
  <2> QED BY <1>1, <2>1 DEF CanvasIInv, CanvasTypeOK
<1>8. \A p \in Canvas!Pixels : SoFar(p)'
  <2> TAKE p \in Canvas!Pixels
  <2>1. p[1] \in 0 .. 11 /\ p[2] \in 0 .. 7 /\ p = <<p[1], p[2]>>
    BY PixelPair DEF Canvas!Xs, Canvas!Ys
  <2>2. (Inside(p)' <=> Inside(p)) /\ call'.rect = call.rect /\ before'[p] = before[p]
    BY <1>1 DEF Inside, Canvas!InRect
  <2>3. SoFar(p)
    BY <1>2
  <2>4. CASE p = here
    <3>1. canvas'[p] = New(p)
      BY <1>1, <2>4
    <3>2. Filled(p)'
      <4>1. CASE call.alpha
        <5>1. canvas[p] = before[p] \/ Canvas!Covered(call.c, canvas[p], before[p])
          BY <2>3, <4>1 DEF SoFar, Filled
        <5>2. Canvas!Covered(call.c, Canvas!apply_alpha(call.c, canvas[p]), before[p])
          BY <1>5, <5>1, CoveredAgain
        <5>3. canvas'[p] = Canvas!apply_alpha(call.c, canvas[p]) /\ call' = call
          BY <1>1, <3>1, <4>1
        <5>4. Canvas!Covered(call.c, canvas'[p], before'[p]) /\ call' = call
          BY <2>2, <5>2, <5>3
        <5> QED BY <4>1, <5>4 DEF Filled, Canvas!Covered
      <4>2. CASE ~call.alpha
        BY <1>1, <3>1, <4>2 DEF Filled
      <4> QED BY <4>1, <4>2
    <3>3. call.rect.y >= 0 => Inside(p) /\ Past(p)'
      <4> SUFFICES ASSUME call.rect.y >= 0 PROVE Inside(p) /\ Past(p)'
        OBVIOUS
      <4>1. j \in 0 .. 7
        BY <1>2, <1>3
      <4>2. p[1] = i /\ p[2] = j
        BY <1>4, <2>4, <4>1
      <4> QED BY <1>1, <1>2, <1>3, <4>2 DEF Inside, Canvas!InRect, Past
    <3> QED BY <2>2, <3>2, <3>3 DEF SoFar
  <2>5. CASE p # here
    <3>1. canvas'[p] = canvas[p]
      BY <1>1, <2>5
    <3>2. ~(p[1] = i /\ p[2] = j)
      BY <1>4, <2>1, <2>5
    <3>3. Past(p)' <=> Past(p)
      BY <1>1, <1>2, <2>1, <3>2 DEF Past
    <3>4. Filled(p)' <=> Filled(p)
      BY <1>1, <2>2, <3>1 DEF Filled, Canvas!Covered
    <3> QED BY <2>2, <2>3, <3>1, <3>3, <3>4 DEF SoFar
  <2> QED BY <2>4, <2>5
<1>9. Filling'
  <2>1. pc' = "rect" /\ call' = call /\ i' = i /\ j' = j + 1
    BY <1>1
  <2>2. j + 1 \in Int /\ j + 1 >= call.rect.y
    BY <1>2
  <2> QED BY <1>2, <1>8, <2>1, <2>2 DEF Filling, Canvas!Returned, Corners
<1>10. Canvas!StaysInside'
  <2>1. call.rect.x >= 0 /\ call.rect.y >= 0 => i \in 0 .. 11 /\ j \in 0 .. 7
    BY <1>2, <1>3
  <2>2. Canvas!Stray(n) # {} => Canvas!Negative
    BY <1>2, <1>4, <2>1 DEF Canvas!Negative
  <2> QED BY <1>1, <1>2, <2>2 DEF CanvasIInv, Canvas!StaysInside, Canvas!Negative
<1>11. Bitmapping'
  BY <1>1, <1>2 DEF Bitmapping, Canvas!Returned
<1> QED BY <1>1, <1>7, <1>9, <1>10, <1>11 DEF CanvasIInv

LEMMA RectColumnStep ==
  ASSUME CanvasIInv, Canvas!RectColumn
  PROVE  CanvasIInv'
<1>1. /\ pc = "rect" /\ Canvas!InColumns /\ ~Canvas!InRows /\ i' = i + 1 /\ j' = call.rect.y
      /\ UNCHANGED <<pc, call, calls, x, y, canvas, leds, before, stray>>
  BY DEF Canvas!RectColumn
<1>2. /\ call.routine = "rect" /\ call.c \in Colours /\ call.rect \in Corners
      /\ call.rect.x \in Int /\ call.rect.y \in Int /\ call.rect.w \in Int /\ call.rect.h \in Int
      /\ i \in Int /\ j \in Int /\ i >= call.rect.x /\ j >= call.rect.y
      /\ \A p \in Canvas!Pixels : SoFar(p)
  BY <1>1, RectFacts
<1>3. \A p \in Canvas!Pixels : SoFar(p)'
  <2> TAKE p \in Canvas!Pixels
  <2>1. p[1] \in Nat /\ p[2] \in 0 .. 7
    BY PixelPair DEF Canvas!Xs, Canvas!Ys
  <2>2. Inside(p) => (Past(p)' <=> Past(p))
    BY <1>1, <1>2, <2>1 DEF Inside, Canvas!InRect, Past, Canvas!InRows
  <2>3. /\ (Inside(p)' <=> Inside(p)) /\ (Filled(p)' <=> Filled(p))
        /\ call'.rect = call.rect /\ canvas'[p] = canvas[p] /\ before'[p] = before[p]
    BY <1>1 DEF Inside, Canvas!InRect, Filled, Canvas!Covered
  <2>4. SoFar(p)
    BY <1>2
  <2> QED BY <2>2, <2>3, <2>4 DEF SoFar
<1>4. Filling'
  <2>1. pc' = "rect" /\ call' = call /\ i' = i + 1 /\ j' = call.rect.y
    BY <1>1
  <2>2. i + 1 \in Int /\ i + 1 >= call.rect.x /\ call.rect.y >= call.rect.y
    BY <1>2
  <2> QED BY <1>2, <1>3, <2>1, <2>2 DEF Filling, Canvas!Returned, Corners
<1>5. CanvasTypeOK' /\ Bitmapping' /\ Canvas!StaysInside'
  BY <1>1, <1>2 DEF CanvasIInv, CanvasTypeOK, Bitmapping, Canvas!Returned, Canvas!StaysInside, Canvas!Negative
<1> QED BY <1>1, <1>4, <1>5 DEF CanvasIInv

LEMMA RectReturnStep ==
  ASSUME CanvasIInv, Canvas!RectReturn
  PROVE  CanvasIInv'
<1>1. /\ pc = "rect" /\ ~Canvas!InColumns /\ pc' = "main"
      /\ UNCHANGED <<call, calls, i, j, x, y, canvas, leds, before, stray>>
  BY DEF Canvas!RectReturn
<1>2. /\ call.routine = "rect" /\ call.c \in Colours /\ call.rect \in Corners
      /\ call.rect.x \in Int /\ call.rect.w \in Int /\ i \in Int
      /\ \A p \in Canvas!Pixels : SoFar(p)
  BY <1>1, RectFacts
<1>3. \A p \in Canvas!Pixels :
        /\ Inside(p)' => Filled(p)'
        /\ ~Inside(p)' /\ call'.rect.y >= 0 => canvas'[p] = before'[p]
  <2> TAKE p \in Canvas!Pixels
  <2>1. p[1] \in 0 .. 11
    BY PixelPair DEF Canvas!Xs
  <2>2. Inside(p) => Past(p)
    BY <1>1, <1>2, <2>1 DEF Inside, Canvas!InRect, Past, Canvas!InColumns
  <2>3. /\ (Inside(p)' <=> Inside(p)) /\ (Filled(p)' <=> Filled(p))
        /\ call'.rect = call.rect /\ canvas'[p] = canvas[p] /\ before'[p] = before[p]
    BY <1>1 DEF Inside, Canvas!InRect, Filled, Canvas!Covered
  <2>4. SoFar(p)
    BY <1>2
  <2> QED BY <2>2, <2>3, <2>4 DEF SoFar
<1>4. Filling'
  BY <1>1, <1>2, <1>3 DEF Filling, Canvas!Returned, Corners
<1>5. CanvasTypeOK' /\ Bitmapping' /\ Canvas!StaysInside'
  BY <1>1, <1>2 DEF CanvasIInv, CanvasTypeOK, Bitmapping, Canvas!Returned, Canvas!StaysInside, Canvas!Negative
<1> QED BY <1>1, <1>4, <1>5 DEF CanvasIInv

\* The routines over the whole matrix leave colours in both pictures.
LEMMA WholePictures ==
  ASSUME Canvas!ColoursAssumption, Canvas!ImagesAssumption, Canvas!RectanglesAssumption, CanvasIInv
  PROVE  /\ Canvas!leds96_reset => CanvasIInv'
         /\ Canvas!leds96_display_canvas => CanvasIInv'
         /\ \A c \in Colours : Canvas!leds96_canvas_reset(c) => CanvasIInv'
         /\ \A r \in Rectangles, c \in Colours : Canvas!leds96_draw_pixel(r.x, r.y, c) => CanvasIInv'
         /\ \A r \in Rectangles, c \in Colours : Canvas!leds96_canvas_draw_pixel(r.x, r.y, c) => CanvasIInv'
         /\ \A image \in Images : Canvas!leds96_draw_image(image) => CanvasIInv'
         /\ \A image \in Images : Canvas!leds96_canvas_draw_image(image) => CanvasIInv'
         /\ \A image \in Images : Canvas!leds96_canvas_draw_image_alpha(image) => CanvasIInv'
<1> USE DEF CanvasTypeOK
<1>1. canvas \in [Canvas!Pixels -> Canvas!Colour] /\ leds \in [0 .. 95 -> Canvas!Colour]
  BY DEF CanvasIInv
<1>2. \A n \in 0 .. 95 : <<n % 12, n \div 12>> \in Canvas!Pixels
  BY DEF Canvas!Pixels, Canvas!Xs, Canvas!Ys
<1>3. \A image \in [Canvas!Pixels -> Canvas!Colour] :
        [n \in 0 .. 95 |-> image[<<n % 12, n \div 12>>]] \in [0 .. 95 -> Canvas!Colour]
  BY <1>2
<1>4. Canvas!leds96_reset => CanvasIInv'
  <2>1. [n \in 0 .. 95 |-> [a |-> 0, v |-> 0]] \in [0 .. 95 -> Canvas!Colour]
    BY DEF Canvas!Colour, Canvas!Channels
  <2> QED BY <1>1, <2>1, WholeStep DEF Canvas!leds96_reset
<1>5. Canvas!leds96_display_canvas => CanvasIInv'
  <2> DEFINE new == [n \in 0 .. 95 |-> canvas[<<n % 12, n \div 12>>]]
  <2>1. new \in [0 .. 95 -> Canvas!Colour]
    BY <1>1, <1>3
  <2>2. Canvas!leds96_display_canvas => Canvas!Whole([routine |-> "leds96_display_canvas"], canvas, new)
    BY DEF Canvas!leds96_display_canvas
  <2> HIDE DEF new
  <2> QED BY <1>1, <2>1, <2>2, WholeStep
<1>6. \A c \in Colours : Canvas!leds96_canvas_reset(c) => CanvasIInv'
  <2> TAKE c \in Colours
  <2>1. [p \in Canvas!Pixels |-> c] \in [Canvas!Pixels -> Canvas!Colour]
    BY DEF Canvas!ColoursAssumption
  <2> QED BY <1>1, <2>1, WholeStep DEF Canvas!leds96_canvas_reset
<1>7. \A r \in Rectangles, c \in Colours : Canvas!leds96_draw_pixel(r.x, r.y, c) => CanvasIInv'
  <2> SUFFICES ASSUME NEW r \in Rectangles, NEW c \in Colours, Canvas!leds96_draw_pixel(r.x, r.y, c)
               PROVE  CanvasIInv'
    OBVIOUS
  <2> DEFINE made == [routine |-> "leds96_draw_pixel", rect |-> [x |-> r.x, y |-> r.y, w |-> 1, h |-> 1]]
             n == r.x + r.y * 12
  <2>1. /\ Canvas!Begin(made) /\ pc' = pc /\ canvas' = canvas
        /\ leds' = [m \in 0 .. 95 |-> IF Canvas!OnMatrix(r.x, r.y) /\ m = n THEN c ELSE leds[m]]
        /\ stray' = IF Canvas!OnMatrix(r.x, r.y) THEN Canvas!Stray(n) ELSE {}
    BY DEF Canvas!leds96_draw_pixel, Canvas!PixelCall
  <2>2. leds' \in [0 .. 95 -> Canvas!Colour]
    <3> HIDE DEF n
    <3> QED BY <1>1, <2>1 DEF Canvas!ColoursAssumption
  <2>3. Canvas!StaysInside'
    <3>1. r.x \in Int /\ r.y \in Int
      <4>1. r \in Corners
        BY DEF Canvas!RectanglesAssumption, Corners
      <4> QED BY <4>1, CornersAreInt
    <3>2. r.x \in 0 .. 11 /\ r.y \in 0 .. 7 => n \in 0 .. 95
      OBVIOUS
    <3>3. stray' # {} => r.x < 0 \/ r.y < 0
      <4> HIDE DEF n
      <4> QED BY <2>1, <3>1, <3>2 DEF Canvas!OnMatrix, Canvas!Stray
    <3>4. call' = made
      BY <2>1 DEF Canvas!Begin
    <3> QED BY <3>3, <3>4 DEF Canvas!StaysInside, Canvas!Negative
  <2> QED BY <1>1, <2>1, <2>2, <2>3, PictureStep
<1>8. \A r \in Rectangles, c \in Colours : Canvas!leds96_canvas_draw_pixel(r.x, r.y, c) => CanvasIInv'
  <2> SUFFICES ASSUME NEW r \in Rectangles, NEW c \in Colours, Canvas!leds96_canvas_draw_pixel(r.x, r.y, c)
               PROVE  CanvasIInv'
    OBVIOUS
  <2> DEFINE made == [routine |-> "leds96_canvas_draw_pixel", rect |-> [x |-> r.x, y |-> r.y, w |-> 1, h |-> 1]]
             n == Canvas!Word(r.x, r.y)
  <2>1. /\ Canvas!Begin(made) /\ pc' = pc /\ leds' = leds
        /\ canvas' = [p \in Canvas!Pixels |-> IF Canvas!OnMatrix(r.x, r.y) /\ p = Canvas!PixelAt(n)
                                              THEN c ELSE canvas[p]]
        /\ stray' = IF Canvas!OnMatrix(r.x, r.y) THEN Canvas!Stray(n) ELSE {}
    BY DEF Canvas!leds96_canvas_draw_pixel, Canvas!PixelCall
  <2> HIDE DEF n
  <2>2. canvas' \in [Canvas!Pixels -> Canvas!Colour]
    BY <1>1, <2>1 DEF Canvas!ColoursAssumption
  <2>3. Canvas!StaysInside'
    <3>1. r.x \in Int /\ r.y \in Int
      <4>1. r \in Corners
        BY DEF Canvas!RectanglesAssumption, Corners
      <4> QED BY <4>1, CornersAreInt
    <3>2. r.x \in 0 .. 11 /\ r.y \in 0 .. 7 => Canvas!Stray(n) = {}
      BY WordOfPixel DEF n
    <3>3. stray' # {} => r.x < 0 \/ r.y < 0
      BY <2>1, <3>1, <3>2 DEF Canvas!OnMatrix
    <3>4. call' = made
      BY <2>1 DEF Canvas!Begin
    <3> QED BY <3>3, <3>4 DEF Canvas!StaysInside, Canvas!Negative
  <2> QED BY <1>1, <2>1, <2>2, <2>3, PictureStep
<1>9. \A image \in Images : Canvas!leds96_draw_image(image) => CanvasIInv'
  <2> TAKE image \in Images
  <2> DEFINE new == [n \in 0 .. 95 |-> image[<<n % 12, n \div 12>>]]
  <2>1. new \in [0 .. 95 -> Canvas!Colour]
    BY <1>3 DEF Canvas!ImagesAssumption
  <2>2. Canvas!leds96_draw_image(image) => Canvas!Whole([routine |-> "leds96_draw_image"], canvas, new)
    BY DEF Canvas!leds96_draw_image
  <2> HIDE DEF new
  <2> QED BY <1>1, <2>1, <2>2, WholeStep
<1>10. \A image \in Images : Canvas!leds96_canvas_draw_image(image) => CanvasIInv'
  BY <1>1, WholeStep DEF Canvas!leds96_canvas_draw_image, Canvas!ImagesAssumption
<1>11. \A image \in Images : Canvas!leds96_canvas_draw_image_alpha(image) => CanvasIInv'
  <2> TAKE image \in Images
  <2>1. [p \in Canvas!Pixels |-> Canvas!apply_alpha(image[p], canvas[p])]
          \in [Canvas!Pixels -> Canvas!Colour]
    BY <1>1, AlphaColour DEF Canvas!ImagesAssumption
  <2> QED BY <1>1, <2>1, WholeStep DEF Canvas!leds96_canvas_draw_image_alpha
<1> QED BY <1>4, <1>5, <1>6, <1>7, <1>8, <1>9, <1>10, <1>11

LEMMA CanvasStep ==
  ASSUME Canvas!ColoursAssumption, Canvas!ImagesAssumption, Canvas!RectanglesAssumption,
         CanvasIInv, [Canvas!Next]_(Canvas!vars)
  PROVE  CanvasIInv'
<1>1. ASSUME UNCHANGED Canvas!vars
      PROVE  CanvasIInv'
  <2>1. CanvasTypeOK' /\ pc' = pc
    BY <1>1 DEF Canvas!vars, CanvasIInv, CanvasTypeOK
  <2>2. Bitmapping'
    BY <1>1 DEF Canvas!vars, CanvasIInv, Bitmapping, Canvas!Returned, Drawn, BitAt
  <2>3. Filling'
    BY <1>1 DEF Canvas!vars, CanvasIInv, Filling, Corners, Canvas!Returned, SoFar, Inside, Canvas!InRect,
                Past, Filled
  <2>4. Canvas!StaysInside'
    BY <1>1 DEF Canvas!vars, CanvasIInv, Canvas!StaysInside, Canvas!Negative
  <2> QED BY <2>1, <2>2, <2>3, <2>4 DEF CanvasIInv
<1>2. ASSUME NEW bits \in Bitmaps, NEW c0 \in Colours, NEW c1 \in Colours, NEW alpha \in BOOLEAN,
             Canvas!BitmapCall(bits, c0, c1, alpha)
      PROVE  CanvasIInv'
  BY <1>2, BitmapCallStep
<1>3. ASSUME NEW r \in Rectangles, NEW c \in Colours, NEW alpha \in BOOLEAN, Canvas!RectCall(r, c, alpha)
      PROVE  CanvasIInv'
  BY <1>3, RectCallStep
<1> QED BY <1>1, <1>2, <1>3, WholePictures, BitmapPixelStep, BitmapReturnStep, RectPixelStep,
           RectColumnStep, RectReturnStep DEF Canvas!Next

(***************************************************************************)
(* When a routine has returned, a bitmap is on the canvas column by column *)
(* and the pixels of a rectangle are filled, blended if it has an alpha,   *)
(* whatever was drawn before; it has changed no others, unless it starts   *)
(* above the matrix.  And only a pixel or a rectangle whose corner is left *)
(* of the matrix or above it makes a routine store outside.                *)
(***************************************************************************)
THEOREM CanvasAsDrawn ==
  ASSUME Canvas!ColoursAssumption, Canvas!ImagesAssumption, Canvas!RectanglesAssumption
  PROVE  Canvas!Spec => [](/\ Canvas!TypeOK /\ Canvas!BitmapByColumns
                           /\ Canvas!RectangleFilled /\ Canvas!StaysInside)
<1>1. CanvasIInv => Canvas!TypeOK
  BY DEF CanvasIInv, CanvasTypeOK, Canvas!TypeOK, Canvas!Colour
<1>2. CanvasIInv => Canvas!BitmapByColumns
  BY DEF CanvasIInv, Bitmapping, Canvas!BitmapByColumns, Drawn, BitAt
<1>3. CanvasIInv => Canvas!RectangleFilled
  BY DEF CanvasIInv, Filling, Canvas!RectangleFilled, Inside, Filled
<1>4. CanvasIInv => Canvas!StaysInside
  BY DEF CanvasIInv
<1> QED BY CanvasInit, CanvasStep, <1>1, <1>2, <1>3, <1>4, PTL DEF Canvas!Spec
=============================================================================
