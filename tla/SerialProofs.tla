---------------------------- MODULE SerialProofs ----------------------------
(***************************************************************************)
(* The drivers of the serial devices.  The JTAG UART, which is extended:   *)
(* neither build loses, repeats or reorders a byte, for buffers, FIFOs,    *)
(* calls and timeouts of any size.  The SPI master, the instance Spi: the  *)
(* same, for transactions of any length.  The EPCS flash, the instance     *)
(* Flash: writes, for every geometry, write and reset.  The three share no *)
(* behaviour: every theorem is about one of them.                          *)
(***************************************************************************)
EXTENDS JtagUart, SequenceTheorems, TLAPS

-----------------------------------------------------------------------------
(* The JTAG UART.                                                          *)

(* The bytes with the numbers k + 1 .. k + n, in a sequence and in a       *)
(* circular buffer from a slot on.                                         *)
Run(k, n) == [i \in 1 .. n |-> k + i]
Joined(s, t) == s \o t
Slot(i) == IF i < BufLen THEN i ELSE i - BufLen
Ring(buf, out, n, k) == \A j \in 0 .. n - 1 : buf[Slot(out + j)] = k + j + 1
Fill(in, out) == IF in < out THEN in - out + BufLen ELSE in - out

(* What a writer has copied and not yet passed on, a reader copied and not *)
(* yet freed.                                                              *)
Copied == IF app.op = "write" /\ app.pc = "advance" THEN app.n ELSE 0
Freeing == IF app.op = "read" /\ app.pc = "advance" THEN app.n ELSE 0
Ahead == IF app.op = "write" THEN app.done ELSE 0

Places == {"idle", "poll", "space", "advance", "kick", "spin", "inactive",
           "look", "late", "arm", "return", "drain"}

AppOK ==
  /\ app \in [op : {"none", "write", "read", "close"}, pc : Places, left : Nat, done : Nat,
              at : Slots, n : Nat, nonblock : BOOLEAN]
  /\ app.op \in {"write", "read"} /\ small => app.pc = "poll" /\ app.left > 0
  /\ app.op = "write" /\ ~small =>
       /\ app.pc \in {"space", "advance", "kick", "spin", "inactive"}
       /\ app.pc = "advance" =>
            /\ app.n \in 1 .. app.left /\ tx_in + app.n <= BufLen
            /\ Fill(tx_in, tx_out) + app.n < BufLen
  /\ app.op = "read" /\ ~small =>
       /\ app.pc \in {"look", "advance", "spin", "late", "arm", "return"}
       /\ app.pc = "advance" => app.n <= Fill(rx_in, rx_out) /\ app.done > 0
       /\ app.pc \in {"spin", "late", "return"} => app.done = 0

IsrOK ==
  /\ isr \in [pc : {"off", "control", "receive", "transmit"}, wi : BOOLEAN, space : Nat,
              avail : BOOLEAN]
  /\ isr.pc \in {"receive", "transmit"} => Len(wfifo) + isr.space <= Depth

BuildOK ==
  /\ small => /\ isr.pc = "off" /\ tx_in = tx_out /\ rx_in = rx_out /\ app.op # "close"
  /\ control = irq_enable
  /\ rx_buf \in [Slots -> Int] /\ tx_buf \in [Slots -> Int]
  /\ told \in Nat /\ sent \in Nat

TxOK ==
  \E S, F \in Nat :
    /\ seen = Run(0, S) /\ wfifo = Run(S, F)
    /\ Ring(tx_buf, tx_out, Fill(tx_in, tx_out) + Copied, S + F)
    /\ told + Ahead = S + F + Fill(tx_in, tx_out)
RxOK ==
  \E R, Q \in Nat :
    LET out == Slot(rx_out + Freeing)
        D == Fill(rx_in, rx_out) - Freeing
    IN /\ got = Run(0, R) /\ rfifo = Run(sent - Q, Q)
       /\ Ring(rx_buf, out, D, R)
       /\ sent = R + D + Q

(* Without the condition that the interrupt routine rests.                 *)
Awake ==
  ~small =>
    /\ "RE" \in control \/ rx_in # rx_out \/ (app.op = "read" /\ app.done > 0)
    /\ "WE" \in control \/ tx_in = tx_out \/ (app.op = "write" /\ app.pc \in {"space", "advance", "kick"})

IInv == TypeOK /\ AppOK /\ IsrOK /\ BuildOK /\ TxOK /\ RxOK /\ Awake

-----------------------------------------------------------------------------
(* Sequences of consecutive numbers.                                       *)

LEMMA RunIs ==
  ASSUME NEW k \in Int, NEW n \in Nat
  PROVE  /\ Run(k, n) \in Seq(Int) /\ Len(Run(k, n)) = n
         /\ \A i \in 1 .. n : Run(k, n)[i] = k + i
         /\ Run(k, n) = <<>> <=> n = 0
<1> DEFINE s == Run(k, n)
<1>1. s \in [1 .. n -> Int] /\ DOMAIN s = 1 .. n /\ \A i \in 1 .. n : s[i] = k + i
  BY DEF Run
<1>2. s \in Seq(Int)
  BY <1>1, SeqDef
<1> HIDE DEF s
<1>3. Len(s) \in Nat /\ 1 .. Len(s) = 1 .. n
  BY <1>1, <1>2, LenProperties
<1>4. Len(s) = n
  <2>1. \A i \in Int : i \in 1 .. Len(s) <=> i \in 1 .. n
    BY <1>3
  <2>2. Len(s) \in 1 .. Len(s) <=> Len(s) >= 1
    BY <1>3
  <2>3. n \in 1 .. n <=> n >= 1
    OBVIOUS
  <2> QED BY <1>3, <2>1, <2>2, <2>3
<1>5. s = <<>> <=> n = 0
  <2>1. Len(<<>>) = 0 /\ (s # <<>> => Len(s) \in Nat \ {0})
    BY <1>2, EmptySeq
  <2> QED BY <1>4, <2>1
<1> QED BY <1>1, <1>2, <1>4, <1>5 DEF s

LEMMA IsRun ==
  ASSUME NEW k \in Int, NEW n \in Nat, NEW s \in Seq(Int), Len(s) = n,
         \A i \in 1 .. n : s[i] = k + i
  PROVE  s = Run(k, n)
<1>1. /\ Run(k, n) \in Seq(Int) /\ Len(Run(k, n)) = Len(s)
      /\ \A i \in 1 .. Len(s) : s[i] = Run(k, n)[i]
  BY RunIs
<1> QED BY <1>1, SeqEqual

LEMMA RunAppend ==
  ASSUME NEW k \in Int, NEW n \in Nat, NEW e \in Int, e = k + n + 1, NEW m \in Nat, m = n + 1
  PROVE  Append(Run(k, n), e) = Run(k, m)
<1> DEFINE s == Run(k, n)
           t == Append(s, e)
<1>1. s \in Seq(Int) /\ Len(s) = n /\ \A i \in 1 .. n : s[i] = k + i
  BY RunIs
<1> HIDE DEF s
<1>2. t \in Seq(Int) /\ Len(t) = m /\ t[m] = e /\ \A i \in 1 .. n : t[i] = s[i]
  BY <1>1, AppendProperties
<1> HIDE DEF t
<1>3. \A i \in 1 .. m : t[i] = k + i
  <2> SUFFICES ASSUME NEW i \in 1 .. m PROVE t[i] = k + i
    OBVIOUS
  <2>1. CASE i \in 1 .. n
    BY <1>1, <1>2, <2>1
  <2>2. CASE i = m
    BY <1>2, <2>2
  <2> QED BY <2>1, <2>2
<1>4. t = Run(k, m)
  BY <1>2, <1>3, IsRun
<1> QED BY <1>4 DEF t, s

LEMMA RunTail ==
  ASSUME NEW k \in Int, NEW n \in Nat, NEW j \in Int, j = k + 1, NEW m \in Nat, m = n - 1
  PROVE  Head(Run(k, n)) = j /\ Tail(Run(k, n)) = Run(j, m)
<1> DEFINE s == Run(k, n)
           t == Tail(s)
<1>1. s \in Seq(Int) /\ s # <<>> /\ Len(s) = n /\ \A i \in 1 .. n : s[i] = k + i
  BY RunIs
<1> HIDE DEF s
<1>2. t \in Seq(Int) /\ Len(t) = m /\ \A i \in 1 .. m : t[i] = s[i + 1]
  BY <1>1, HeadTailProperties
<1> HIDE DEF t
<1>3. \A i \in 1 .. m : t[i] = j + i
  BY <1>1, <1>2
<1>4. t = Run(j, m)
  BY <1>2, <1>3, IsRun
<1>5. Head(s) = s[1]
  BY <1>1
<1>6. s[1] = j
  BY <1>1
<1> QED BY <1>4, <1>5, <1>6 DEF t, s

LEMMA RunConcat ==
  ASSUME NEW k \in Int, NEW n \in Nat, NEW m \in Nat,
         NEW j \in Int, j = k + n, NEW l \in Nat, l = n + m
  PROVE  Joined(Run(k, n), Run(j, m)) = Run(k, l)
<1> DEFINE s == Run(k, n)
           t == Run(j, m)
           u == s \o t
<1>1. s \in Seq(Int) /\ Len(s) = n /\ \A i \in 1 .. n : s[i] = k + i
  BY RunIs
<1>2. t \in Seq(Int) /\ Len(t) = m /\ \A i \in 1 .. m : t[i] = j + i
  BY RunIs
<1> HIDE DEF s, t
<1>3. /\ u \in Seq(Int) /\ Len(u) = l
      /\ \A i \in 1 .. l : u[i] = IF i <= n THEN s[i] ELSE t[i - n]
  <2>1. /\ u \in Seq(Int) /\ Len(u) = Len(s) + Len(t)
        /\ \A i \in 1 .. Len(s) + Len(t) : u[i] = IF i <= Len(s) THEN s[i] ELSE t[i - Len(s)]
    BY <1>1, <1>2, ConcatProperties
  <2> HIDE DEF u
  <2>2. Len(s) = n /\ Len(t) = m /\ Len(s) + Len(t) = l
    BY <1>1, <1>2
  <2> QED BY <2>1, <2>2
<1> HIDE DEF u
<1>4. \A i \in 1 .. l : u[i] = k + i
  <2> SUFFICES ASSUME NEW i \in 1 .. l PROVE u[i] = k + i
    OBVIOUS
  <2>1. CASE i <= n
    BY <1>1, <1>3, <2>1
  <2>2. CASE i > n
    <3>1. i - n \in 1 .. m /\ j + (i - n) = k + i
      BY <2>2
    <3> QED BY <1>2, <1>3, <2>2, <3>1
  <2> QED BY <2>1, <2>2
<1>5. u = Run(k, l)
  BY <1>3, <1>4, IsRun
<1> QED BY <1>5 DEF u, s, t, Joined

-----------------------------------------------------------------------------
(* The circular buffer.                                                    *)

LEMMA WrapIsSlot ==
  ASSUME JtagAssumption, NEW i \in Nat, i < 2 * BufLen
  PROVE  Wrap(i) = Slot(i) /\ Slot(i) \in Slots
<1>1. BufLen \in Nat \ {0}
  BY DEF JtagAssumption
<1>2. CASE i < BufLen
  BY <1>1, <1>2 DEF Wrap, Slot, Slots
<1>3. CASE i >= BufLen
  <2>1. i - BufLen \in 0 .. BufLen - 1 /\ i = BufLen + (i - BufLen)
    BY <1>1, <1>3
  <2>2. i % BufLen = i - BufLen
    BY <1>1, <2>1
  <2> QED BY <1>1, <1>3, <2>1, <2>2 DEF Wrap, Slot, Slots
<1> QED BY <1>1, <1>2, <1>3

\* How full the buffer is as its pointers move.
LEMMA Filled ==
  ASSUME JtagAssumption, NEW in \in Slots, NEW out \in Slots
  PROVE  /\ Fill(in, out) \in 0 .. BufLen - 1 /\ Slot(out + Fill(in, out)) = in
         /\ Fill(in, out) = 0 <=> in = out
         /\ \A n \in Nat : Fill(in, out) + n < BufLen =>
              Fill(Slot(in + n), out) = Fill(in, out) + n
         /\ \A n \in 0 .. Fill(in, out) : Fill(in, Slot(out + n)) = Fill(in, out) - n
         /\ Slot(in + 1) = out <=> Fill(in, out) = BufLen - 1
<1>1. BufLen \in Nat /\ BufLen > 1 /\ in \in 0 .. BufLen - 1 /\ out \in 0 .. BufLen - 1
  BY DEF JtagAssumption, Slots
<1>2. Fill(in, out) \in 0 .. BufLen - 1 /\ Slot(out + Fill(in, out)) = in
  BY <1>1 DEF Fill, Slot
<1>3. Fill(in, out) = 0 <=> in = out
  BY <1>1 DEF Fill
<1>4. ASSUME NEW n \in Nat, Fill(in, out) + n < BufLen
      PROVE  Fill(Slot(in + n), out) = Fill(in, out) + n
  BY <1>1, <1>4 DEF Fill, Slot
<1>5. ASSUME NEW n \in 0 .. Fill(in, out)
      PROVE  Fill(in, Slot(out + n)) = Fill(in, out) - n
  BY <1>1, <1>2, <1>5 DEF Fill, Slot
<1>6. Slot(in + 1) = out <=> Fill(in, out) = BufLen - 1
  BY <1>1 DEF Fill, Slot
<1> QED BY <1>2, <1>3, <1>4, <1>5, <1>6

LEMMA RingDrop ==
  ASSUME JtagAssumption, NEW buf, NEW out \in Slots, NEW n \in 0 .. BufLen, NEW k \in Int,
         Ring(buf, out, n, k), NEW m \in 0 .. n
  PROVE  Ring(buf, Slot(out + m), n - m, k + m)
<1>1. BufLen \in Nat /\ BufLen > 1 /\ out \in 0 .. BufLen - 1
  BY DEF JtagAssumption, Slots
<1> SUFFICES ASSUME NEW j \in 0 .. n - m - 1
             PROVE  buf[Slot(Slot(out + m) + j)] = k + m + j + 1
  BY DEF Ring
<1>2. m + j \in 0 .. n - 1 /\ k + (m + j) + 1 = k + m + j + 1
  BY <1>1
<1>3. buf[Slot(out + (m + j))] = k + (m + j) + 1
  BY <1>2 DEF Ring
<1>4. Slot(Slot(out + m) + j) = Slot(out + (m + j))
  BY <1>1, <1>2 DEF Slot
<1> QED BY <1>2, <1>3, <1>4

LEMMA RingTake ==
  ASSUME JtagAssumption, NEW buf, NEW out \in Slots, NEW n \in 1 .. BufLen, NEW k \in Int,
         Ring(buf, out, n, k)
  PROVE  buf[out] = k + 1
<1>1. BufLen \in Nat /\ out \in 0 .. BufLen - 1 /\ 0 \in 0 .. n - 1
  BY DEF JtagAssumption, Slots
<1>2. buf[Slot(out + 0)] = k + 0 + 1
  BY <1>1 DEF Ring
<1>3. Slot(out + 0) = out /\ k + 0 + 1 = k + 1
  BY <1>1 DEF Slot
<1> QED BY <1>2, <1>3

LEMMA RingAdd ==
  ASSUME JtagAssumption, NEW buf, NEW buf2, NEW in \in Slots, NEW out \in Slots, NEW k \in Int,
         NEW n \in 0 .. BufLen - 1, in = Slot(out + n),
         Ring(buf, out, n, k), NEW m \in Nat, n + m <= BufLen,
         \A i \in Slots : (\A l \in 0 .. m - 1 : i # Slot(in + l)) => buf2[i] = buf[i],
         \A l \in 0 .. m - 1 : buf2[Slot(in + l)] = k + n + l + 1
  PROVE  Ring(buf2, out, n + m, k)
<1>1. BufLen \in Nat /\ BufLen > 1 /\ out \in 0 .. BufLen - 1 /\ in \in 0 .. BufLen - 1
  BY DEF JtagAssumption, Slots
<1> SUFFICES ASSUME NEW j \in 0 .. n + m - 1
             PROVE  buf2[Slot(out + j)] = k + j + 1
  BY DEF Ring
<1>2. CASE j < n
  <2>1. Slot(out + j) \in Slots
    BY <1>1 DEF Slot, Slots
  <2>2. ASSUME NEW l \in 0 .. m - 1 PROVE Slot(out + j) # Slot(in + l)
    BY <1>1, <1>2, <2>2 DEF Slot
  <2>3. buf[Slot(out + j)] = k + j + 1
    BY <1>1, <1>2 DEF Ring
  <2> QED BY <2>1, <2>2, <2>3
<1>3. CASE j >= n
  <2>1. j - n \in 0 .. m - 1 /\ k + n + (j - n) + 1 = k + j + 1
    BY <1>1, <1>3
  <2>2. Slot(in + (j - n)) = Slot(out + j)
    BY <1>1, <1>3 DEF Slot
  <2> QED BY <2>1, <2>2
<1> QED BY <1>1, <1>2, <1>3

-----------------------------------------------------------------------------
(* A step that leaves one direction alone.                                 *)

LEMMA TxKept ==
  ASSUME TxOK, UNCHANGED <<seen, wfifo, tx_buf, tx_in, tx_out>>,
         Copied' = Copied, told' + Ahead' = told + Ahead
  PROVE  TxOK'
BY DEF TxOK, Ring, Fill

LEMMA RxKept ==
  ASSUME RxOK, UNCHANGED <<got, rfifo, rx_buf, rx_in, rx_out, sent>>, Freeing' = Freeing
  PROVE  RxOK'
BY DEF RxOK, Ring, Fill

\* The caller at rest in the step.
LEMMA AppKept ==
  ASSUME app' = app, told' = told
  PROVE  /\ Copied' = Copied /\ Ahead' = Ahead /\ Freeing' = Freeing
         /\ told' + Ahead' = told + Ahead
BY DEF Copied, Ahead, Freeing

-----------------------------------------------------------------------------
(* The device and the host.                                                *)

LEMMA HostTakes ==
  ASSUME JtagAssumption, IInv, HostTake
  PROVE  IInv'
<1>1. /\ TypeOK /\ AppOK /\ IsrOK /\ BuildOK /\ TxOK /\ RxOK /\ Awake /\ Depth \in Nat
      /\ seen' = Append(seen, Head(wfifo)) /\ wfifo' = Tail(wfifo) /\ wfifo # <<>>
      /\ app' = app /\ UNCHANGED <<small, clock, timeout, host_inactive, irq_enable, control, rfifo, isr, sent>>
      /\ UNCHANGED <<rx_in, rx_out, tx_in, tx_out, rx_buf, tx_buf, told, got>>
  BY DEF IInv, JtagAssumption, HostTake, settings, buffers, user
<1>2. PICK S \in Nat, F \in Nat :
        /\ seen = Run(0, S) /\ wfifo = Run(S, F)
        /\ Ring(tx_buf, tx_out, Fill(tx_in, tx_out) + Copied, S + F)
        /\ told + Ahead = S + F + Fill(tx_in, tx_out)
  BY <1>1 DEF TxOK
<1>3. F \in Nat \ {0} /\ Len(wfifo) = F
  BY <1>1, <1>2, RunIs
<1> DEFINE S2 == S + 1
           F2 == F - 1
<1>4. S2 \in Nat /\ S2 = S + 1 /\ S2 = 0 + S + 1 /\ F2 \in Nat /\ F2 = F - 1 /\ S2 + F2 = S + F
  BY <1>3
<1> HIDE DEF S2, F2
<1>5. /\ seen' = Run(0, S2) /\ wfifo' = Run(S2, F2) /\ Len(wfifo') = F2
  <2>1. Head(Run(S, F)) = S2 /\ Tail(Run(S, F)) = Run(S2, F2)
    BY <1>3, <1>4, RunTail
  <2>2. Append(Run(0, S), S2) = Run(0, S2)
    <3> DEFINE z == 0
    <3>1. z \in Int /\ S \in Nat /\ S2 \in Int /\ S2 = z + S + 1
      BY <1>4
    <3> HIDE DEF z
    <3>2. S2 = S + 1 /\ S2 \in Nat
      BY <1>4
    <3>3. Append(Run(z, S), S2) = Run(z, S2)
      BY ONLY <3>1, <3>2, RunAppend, Zenon
    <3> QED BY <3>3 DEF z
  <2>3. seen' = Run(0, S2) /\ wfifo' = Run(S2, F2)
    BY <1>1, <1>2, <2>1, <2>2
  <2>4. Len(Run(S2, F2)) = F2
    <3>1. S2 \in Int /\ F2 \in Nat
      BY <1>4
    <3> QED BY <3>1, RunIs, Zenon
  <2> QED BY <2>3, <2>4
<1>6. TxOK'
  <2>1. Ring(tx_buf, tx_out, Fill(tx_in, tx_out) + Copied, S2 + F2)'
    BY <1>1, <1>2, <1>4, AppKept DEF Ring, Fill
  <2>2. (told + Ahead = S2 + F2 + Fill(tx_in, tx_out))'
    BY <1>1, <1>2, <1>4, AppKept DEF Fill
  <2> QED BY <1>4, <1>5, <2>1, <2>2 DEF TxOK
<1>7. RxOK'
  BY <1>1, RxKept, AppKept
<1>8. TypeOK'
  BY <1>1, <1>3, <1>4, <1>5 DEF TypeOK
<1>9. IsrOK'
  BY <1>1, <1>3, <1>4, <1>5 DEF IsrOK
<1>10. AppOK' /\ BuildOK' /\ Awake'
  BY <1>1 DEF AppOK, BuildOK, Awake, Fill
<1> QED BY <1>6, <1>7, <1>8, <1>9, <1>10 DEF IInv

LEMMA HostSends ==
  ASSUME JtagAssumption, IInv, HostSend
  PROVE  IInv'
<1>1. /\ TypeOK /\ AppOK /\ IsrOK /\ BuildOK /\ TxOK /\ RxOK /\ Awake /\ Depth \in Nat
      /\ sent' = sent + 1 /\ rfifo' = Append(rfifo, sent + 1) /\ Len(rfifo) < Depth
      /\ app' = app /\ UNCHANGED <<small, clock, timeout, host_inactive, irq_enable, control, wfifo, isr, seen>>
      /\ UNCHANGED <<rx_in, rx_out, tx_in, tx_out, rx_buf, tx_buf, told, got>>
  BY DEF IInv, JtagAssumption, HostSend, settings, buffers, user
<1> DEFINE out == Slot(rx_out + Freeing)
           D == Fill(rx_in, rx_out) - Freeing
<1>2. PICK R \in Nat, Q \in Nat :
        /\ got = Run(0, R) /\ rfifo = Run(sent - Q, Q)
        /\ Ring(rx_buf, out, D, R) /\ sent = R + D + Q
  BY <1>1 DEF RxOK
<1>3. sent \in Nat /\ sent' = sent + 1 /\ Len(rfifo) = Q /\ Q < Depth
  <2>1. sent \in Nat /\ sent - Q \in Int
    BY <1>1 DEF BuildOK
  <2> QED BY <1>1, <1>2, <2>1, RunIs
<1> DEFINE Q2 == Q + 1
           k == sent - Q
<1>4. /\ Q \in Nat /\ Q2 \in Nat /\ Q2 = Q + 1 /\ k \in Int /\ k = sent - Q /\ sent' - Q2 = k
      /\ sent' \in Int /\ sent' = k + Q + 1
  BY <1>3
<1>5. rfifo' = Run(sent' - Q2, Q2) /\ Len(rfifo') = Q2
  <2> HIDE DEF Q2, k
  <2>1. Append(Run(k, Q), sent') = Run(k, Q2)
    <3>1. /\ k \in Int /\ Q \in Nat /\ sent' \in Int /\ sent' = k + Q + 1
          /\ Q2 \in Nat /\ Q2 = Q + 1
      BY <1>4
    <3> QED BY ONLY <3>1, RunAppend, Zenon
  <2>2. rfifo = Run(k, Q) /\ rfifo' = Append(rfifo, sent')
    BY <1>1, <1>2, <1>3, <1>4
  <2>3. Len(Run(k, Q2)) = Q2
    BY <1>4, RunIs
  <2> QED BY <1>4, <2>1, <2>2, <2>3
<1>6. RxOK'
  <2>1. out' = out /\ D' = D /\ got' = got /\ rx_buf' = rx_buf
    BY <1>1, AppKept DEF Fill
  <2>2. sent' = R + D + Q2
    <3>1. D \in Int
      <4>1. app.n \in Nat /\ rx_in \in Int /\ rx_out \in Int /\ BufLen \in Int
        BY <1>1 DEF AppOK, TypeOK, Slots, JtagAssumption
      <4> QED BY <4>1 DEF Fill, Freeing
    <3> HIDE DEF D
    <3> QED BY <1>2, <1>3, <3>1
  <2>3. Ring(rx_buf', out', D', R)
    BY <1>2, <2>1
  <2> HIDE DEF out, D, Q2
  <2> QED BY <1>2, <1>4, <1>5, <2>1, <2>2, <2>3 DEF RxOK, out, D
<1>7. TxOK'
  BY <1>1, TxKept, AppKept
<1>8. TypeOK'
  BY <1>1, <1>3, <1>5 DEF TypeOK
<1>9. IsrOK' /\ AppOK' /\ BuildOK' /\ Awake'
  BY <1>1, <1>3 DEF IsrOK, AppOK, BuildOK, Awake, Fill
<1> QED BY <1>6, <1>7, <1>8, <1>9 DEF IInv

\* Steps that move no byte.
Still ==
  UNCHANGED <<small, clock, rx_in, rx_out, tx_in, tx_out, rx_buf, tx_buf, wfifo, rfifo, sent, seen, got>>

LEMMA StillIsInv ==
  ASSUME IInv, Still, Copied' = Copied, Freeing' = Freeing, told' + Ahead' = told + Ahead,
         TypeOK', AppOK', IsrOK', BuildOK', Awake'
  PROVE  IInv'
<1>1. TxOK'
  BY TxKept DEF IInv, Still
<1>2. RxOK'
  BY RxKept DEF IInv, Still
<1> QED BY <1>1, <1>2 DEF IInv

LEMMA Devices ==
  ASSUME JtagAssumption, IInv,
         HostPoll \/ HostPlug \/ IsrEnter \/ IsrControl \/ Second \/ SetTimeout
  PROVE  IInv'
<1>1. /\ TypeOK /\ AppOK /\ IsrOK /\ BuildOK /\ Awake
      /\ IntMax \in Nat /\ Depth \in Nat /\ 2 <= IntMax - 2 /\ Timeouts \subseteq Int
  BY DEF IInv, JtagAssumption
<1>2. Still /\ app' = app /\ told' = told /\ irq_enable' = irq_enable
  BY DEF HostPoll, HostPlug, IsrEnter, IsrControl, Second, SetTimeout, settings, buffers, device,
         host, user, Still
<1>3. Copied' = Copied /\ Freeing' = Freeing /\ told' + Ahead' = told + Ahead
  BY <1>2, AppKept
<1>4. control' = control
  BY <1>1 DEF BuildOK, HostPoll, HostPlug, IsrEnter, IsrControl, Second, SetTimeout, device
<1>5. timeout' \in 2 .. IntMax /\ host_inactive' \in 0 .. IntMax - 2
  <2>1. CASE SetTimeout
    BY <1>1, <2>1 DEF SetTimeout, TypeOK
  <2>2. CASE Second
    BY <1>1, <2>2 DEF Second, settings, TypeOK
  <2>3. CASE HostPoll \/ HostPlug \/ IsrEnter \/ IsrControl
    BY <1>1, <2>3 DEF HostPoll, HostPlug, IsrEnter, IsrControl, settings, TypeOK
  <2> QED BY <2>1, <2>2, <2>3
<1>6. TypeOK'
  BY <1>1, <1>2, <1>4, <1>5 DEF TypeOK, Still
<1>7. AppOK'
  BY <1>1, <1>2 DEF AppOK, Still, Fill
<1>8. IsrOK' /\ (small => isr'.pc = "off")
  <2>1. CASE IsrEnter
    BY <1>1, <1>2, <2>1 DEF IsrEnter, IsrOK, BuildOK, Again, IsrOff, Still
  <2>2. CASE IsrControl
    <3>1. Len(wfifo) \in Nat /\ Len(wfifo) <= Depth
      <4>1. PICK S \in Nat, F \in Nat : wfifo = Run(S, F)
        BY DEF IInv, TxOK
      <4>2. Len(wfifo) = F /\ F \in Nat
        BY <4>1, RunIs
      <4> QED BY <1>1, <4>2 DEF TypeOK
    <3>2. WSPACE \in Nat /\ Len(wfifo) + WSPACE = Depth /\ RI \in BOOLEAN /\ WI \in BOOLEAN
      BY <1>1, <3>1 DEF WSPACE, RI, WI
    <3>3. isr.pc = "control" /\ wfifo' = wfifo
      BY <1>2, <2>2 DEF IsrControl, Still
    <3>4. CASE RI \/ WI
      <4>1. isr' = [pc |-> IF RI THEN "receive" ELSE "transmit", wi |-> WI, space |-> WSPACE, avail |-> TRUE]
        BY <2>2, <3>4 DEF IsrControl
      <4> HIDE DEF WI, WSPACE, RI
      <4>2. isr'.space = WSPACE /\ isr' \in [pc : {"off", "control", "receive", "transmit"}, wi : BOOLEAN, space : Nat, avail : BOOLEAN]
        BY <3>2, <4>1
      <4> QED BY <1>1, <3>2, <3>3, <4>2 DEF IsrOK, BuildOK
    <3>5. CASE ~(RI \/ WI)
      BY <1>1, <2>2, <3>5 DEF IsrControl, IsrOK, IsrOff
    <3> QED BY <3>4, <3>5
  <2>3. CASE HostPoll \/ HostPlug \/ Second \/ SetTimeout
    BY <1>1, <1>2, <2>3 DEF HostPoll, HostPlug, Second, SetTimeout, device, Still, IsrOK, BuildOK
  <2> QED BY <2>1, <2>2, <2>3
<1>9. BuildOK' /\ Awake'
  BY <1>1, <1>2, <1>4, <1>8 DEF BuildOK, Awake, Still
<1> QED BY <1>2, <1>3, <1>6, <1>7, <1>8, <1>9, StillIsInv

-----------------------------------------------------------------------------
(* The interrupt routine.                                                  *)

LEMMA IsrTurnsOff ==
  ASSUME JtagAssumption, IInv, IsrReceiveFull \/ IsrTransmitted
  PROVE  IInv'
<1>1. TypeOK /\ AppOK /\ IsrOK /\ BuildOK /\ Awake
  BY DEF IInv
<1>2. /\ Still /\ app' = app /\ told' = told
      /\ timeout' = timeout /\ host_inactive' = host_inactive
  BY DEF IsrReceiveFull, IsrTransmitted, settings, buffers, host, user, Still
<1>3. Copied' = Copied /\ Freeing' = Freeing /\ told' + Ahead' = told + Ahead
  BY <1>2, AppKept
<1>4. control' = irq_enable'
  BY <1>1 DEF IsrReceiveFull, IsrTransmitted, BuildOK
<1>5. irq_enable' \subseteq irq_enable
  BY DEF IsrReceiveFull, IsrTransmitted
<1>6. TypeOK'
  BY <1>1, <1>2, <1>4, <1>5 DEF TypeOK, Still
<1>7. AppOK'
  BY <1>1, <1>2 DEF AppOK, Still, Fill
<1>8. IsrOK'
  <2>1. Again \in [pc : {"off", "control", "receive", "transmit"}, wi : BOOLEAN, space : Nat, avail : BOOLEAN]
        /\ Again.pc = "control"
    BY DEF Again, IsrOff
  <2>2. CASE isr' = Again
    BY <2>1, <2>2 DEF IsrOK
  <2>3. CASE isr.pc = "receive" /\ isr' = [isr EXCEPT !.pc = "transmit", !.avail = FALSE]
    <3>1. isr' \in [pc : {"off", "control", "receive", "transmit"}, wi : BOOLEAN, space : Nat, avail : BOOLEAN]
          /\ isr'.space = isr.space
      BY <1>1, <2>3 DEF IsrOK
    <3>2. wfifo' = wfifo /\ Len(wfifo) + isr.space <= Depth
      BY <1>1, <1>2, <2>3 DEF IsrOK, Still
    <3> QED BY <3>1, <3>2 DEF IsrOK
  <2> QED BY <2>2, <2>3 DEF IsrReceiveFull, IsrTransmitted, AfterReceive
<1>9. ~small
  BY <1>1 DEF BuildOK, IsrReceiveFull, IsrTransmitted
<1>10. BuildOK'
  BY <1>1, <1>2, <1>4, <1>9 DEF BuildOK, Still
<1>11. Awake'
  <2>1. CASE IsrReceiveFull
    <3>1. rx_in \in Slots /\ rx_out \in Slots /\ BufLen > 1 /\ BufLen \in Nat
      BY <1>1 DEF TypeOK, JtagAssumption
    <3>2. Wrap(rx_in + 1) = Slot(rx_in + 1)
      <4>1. rx_in + 1 \in Nat /\ rx_in + 1 < 2 * BufLen
        BY <3>1 DEF Slots
      <4> QED BY <4>1, WrapIsSlot
    <3>3. rx_in # rx_out
      <4>1. Fill(rx_in, rx_out) = BufLen - 1
        BY <2>1, <3>1, <3>2, Filled DEF IsrReceiveFull
      <4> QED BY <3>1, <4>1, Filled
    <3>4. irq_enable' = irq_enable \/ irq_enable' = irq_enable \ {"RE"}
      BY <2>1 DEF IsrReceiveFull
    <3>5. control = irq_enable
      BY <1>1 DEF BuildOK
    <3>6. "WE" \in control => "WE" \in control'
      BY <1>4, <3>4, <3>5
    <3> QED BY <1>1, <1>2, <1>9, <3>3, <3>6 DEF Awake, Still
  <2>2. CASE IsrTransmitted
    <3>1. irq_enable' = irq_enable \/ (irq_enable' = irq_enable \ {"WE"} /\ tx_in = tx_out)
      BY <2>2 DEF IsrTransmitted
    <3>2. control = irq_enable
      BY <1>1 DEF BuildOK
    <3>3. "RE" \in control => "RE" \in control'
      BY <1>4, <3>1, <3>2
    <3>4. "WE" \in control => "WE" \in control' \/ tx_in = tx_out
      BY <1>4, <3>1, <3>2
    <3> QED BY <1>1, <1>2, <1>9, <3>3, <3>4 DEF Awake, Still
  <2> QED BY <2>1, <2>2
<1> QED BY <1>2, <1>3, <1>6, <1>7, <1>8, <1>10, <1>11, StillIsInv

LEMMA Transmits ==
  ASSUME JtagAssumption, IInv, IsrTransmit
  PROVE  IInv'
<1>1. /\ TypeOK /\ AppOK /\ IsrOK /\ BuildOK /\ TxOK /\ RxOK /\ Awake /\ Depth \in Nat
      /\ BufLen \in Nat /\ BufLen > 1 /\ tx_in \in Slots /\ tx_out \in Slots
      /\ isr.pc = "transmit" /\ isr.space > 0 /\ tx_out # tx_in
      /\ wfifo' = Append(wfifo, tx_buf[tx_out]) /\ tx_out' = Wrap(tx_out + 1)
      /\ isr' = [isr EXCEPT !.space = @ - 1]
      /\ UNCHANGED <<small, clock, timeout, host_inactive, irq_enable, control, rfifo, app, sent, seen>>
      /\ UNCHANGED <<rx_in, rx_out, tx_in, rx_buf, tx_buf, told, got>>
  BY DEF IInv, JtagAssumption, IsrTransmit, TypeOK, settings, host, user
<1> DEFINE C == Fill(tx_in, tx_out)
<1>2. PICK S \in Nat, F \in Nat :
        /\ seen = Run(0, S) /\ wfifo = Run(S, F)
        /\ Ring(tx_buf, tx_out, C + Copied, S + F) /\ told + Ahead = S + F + C
  BY <1>1 DEF TxOK
<1>3. C \in 1 .. BufLen - 1 /\ Copied \in Nat /\ C + Copied < BufLen
  <2>1. C \in 0 .. BufLen - 1 /\ C # 0
    BY <1>1, Filled
  <2>2. ~small
    BY <1>1 DEF BuildOK
  <2>3. Copied \in Nat /\ C + Copied < BufLen
    BY <1>1, <2>1, <2>2 DEF AppOK, Copied
  <2> QED BY <2>1, <2>3
<1>4. tx_out' = Slot(tx_out + 1) /\ tx_out' \in Slots
  <2>1. tx_out + 1 \in Nat /\ tx_out + 1 < 2 * BufLen
    BY <1>1 DEF Slots
  <2> QED BY <1>1, <2>1, WrapIsSlot
<1>5. Fill(tx_in, tx_out') = C - 1
  <2>1. \A i \in 0 .. C : Fill(tx_in, Slot(tx_out + i)) = C - i
    BY <1>1, Filled
  <2>2. 1 \in 0 .. C
    BY <1>3
  <2> QED BY <1>4, <2>1, <2>2
<1> DEFINE n == C + Copied
           k == S + F
           k2 == S + F + 1
           F2 == F + 1
<1>6. /\ n \in 1 .. BufLen /\ n \in 0 .. BufLen /\ 1 \in 0 .. n /\ k \in Int
      /\ k2 = k + 1 /\ k2 \in Int /\ F2 \in Nat /\ F2 = F + 1 /\ k2 = S + F + 1 /\ k2 = S + F2
      /\ n - 1 = (C - 1) + Copied /\ S \in Int /\ F \in Nat
  <2>1. C \in Int /\ C >= 1 /\ C <= BufLen - 1 /\ Copied \in Nat /\ C + Copied < BufLen
    BY <1>1, <1>3
  <2> HIDE DEF C
  <2>2. n \in 1 .. BufLen /\ n \in 0 .. BufLen /\ 1 \in 0 .. n /\ n - 1 = (C - 1) + Copied
    BY <1>1, <2>1
  <2>3. S \in Int /\ F \in Nat /\ k \in Int /\ k2 \in Int /\ F2 \in Nat
    OBVIOUS
  <2> QED BY <2>2, <2>3
<1>7. tx_buf[tx_out] = k2 /\ Ring(tx_buf, tx_out', n - 1, k2)
  <2>1. Ring(tx_buf, tx_out, n, k)
    BY <1>2
  <2> HIDE DEF n, k, k2, F2, C
  <2>2. tx_buf[tx_out] = k + 1
    BY <1>1, <1>6, <2>1, RingTake
  <2>3. Ring(tx_buf, Slot(tx_out + 1), n - 1, k + 1)
    BY <1>1, <1>6, <2>1, RingDrop
  <2> QED BY <1>4, <1>6, <2>2, <2>3
<1> HIDE DEF k2, F2
<1>8. wfifo' = Run(S, F2) /\ Len(wfifo') = F2 /\ Len(wfifo) = F
  <2>1. S \in Int /\ F \in Nat /\ k2 \in Int /\ k2 = S + F + 1 /\ F2 \in Nat /\ F2 = F + 1
    BY <1>6
  <2>2. Append(Run(S, F), k2) = Run(S, F2)
    BY ONLY <2>1, RunAppend, Zenon
  <2>3. Len(Run(S, F)) = F /\ Len(Run(S, F2)) = F2
    BY <2>1, RunIs, Zenon
  <2> QED BY <1>1, <1>2, <1>7, <2>2, <2>3
<1>9. Copied' = Copied /\ told' + Ahead' = told + Ahead /\ Freeing' = Freeing
  BY <1>1, AppKept
<1>10. TxOK'
  <2>1. Fill(tx_in', tx_out') + Copied' = n - 1 /\ S + F2 = k2
    BY <1>1, <1>5, <1>6, <1>9
  <2>2. Ring(tx_buf', tx_out', Fill(tx_in', tx_out') + Copied', S + F2)
    BY <1>1, <1>7, <2>1
  <2>3. told' + Ahead' = S + F2 + Fill(tx_in', tx_out')
    BY <1>1, <1>2, <1>3, <1>5, <1>6, <1>9
  <2> QED BY <1>1, <1>2, <1>6, <1>8, <2>2, <2>3 DEF TxOK
<1>11. RxOK'
  BY <1>1, <1>9, RxKept
<1>12. IsrOK' /\ F2 <= Depth
  <2>1. /\ isr.space \in Nat \ {0} /\ isr'.space = isr.space - 1
        /\ isr' \in [pc : {"off", "control", "receive", "transmit"}, wi : BOOLEAN, space : Nat, avail : BOOLEAN]
    BY <1>1 DEF IsrOK
  <2>2. F + isr.space <= Depth
    BY <1>1, <1>8 DEF IsrOK
  <2>3. F2 + isr'.space <= Depth /\ F2 <= Depth
    <3>1. Depth \in Nat /\ F \in Nat /\ F2 = F + 1
      BY <1>1, <1>6
    <3> QED BY <2>1, <2>2, <3>1
  <2> QED BY <1>8, <2>1, <2>3 DEF IsrOK
<1>13. TypeOK'
  BY <1>1, <1>4, <1>8, <1>12 DEF TypeOK
<1>14. AppOK'
  <2>1. Fill(rx_in, rx_out)' = Fill(rx_in, rx_out)
    BY <1>1 DEF Fill
  <2>2. Fill(tx_in', tx_out') < C
    BY <1>1, <1>3, <1>5
  <2>3. app.pc = "advance" /\ app.op = "write" /\ ~small => Fill(tx_in', tx_out') + app.n < BufLen
    BY <1>1, <1>3, <1>5 DEF AppOK
  <2> QED BY <1>1, <2>1, <2>3 DEF AppOK
<1>15. BuildOK' /\ Awake'
  <2>1. ~small /\ isr'.pc = "transmit"
    BY <1>1 DEF BuildOK, IsrOK
  <2> QED BY <1>1, <2>1 DEF BuildOK, Awake
<1> QED BY <1>10, <1>11, <1>12, <1>13, <1>14, <1>15 DEF IInv

LEMMA Receives ==
  ASSUME JtagAssumption, IInv, IsrReceive
  PROVE  IInv'
<1>1. /\ TypeOK /\ AppOK /\ IsrOK /\ BuildOK /\ TxOK /\ RxOK /\ Awake /\ Depth \in Nat
      /\ BufLen \in Nat /\ BufLen > 1 /\ rx_in \in Slots /\ rx_out \in Slots
      /\ isr.pc = "receive" /\ Wrap(rx_in + 1) # rx_out /\ ~small
      /\ UNCHANGED <<small, clock, timeout, host_inactive, irq_enable, control, wfifo, app, sent, seen>>
      /\ UNCHANGED <<rx_out, tx_in, tx_out, tx_buf, told, got>>
  BY DEF IInv, JtagAssumption, IsrReceive, TypeOK, BuildOK, settings, host, user
<1>2. Copied' = Copied /\ told' + Ahead' = told + Ahead /\ Freeing' = Freeing
  BY <1>1, AppKept
<1>3. TxOK'
  BY <1>1, <1>2, TxKept
<1>4. CASE rfifo = <<>>
  <2>1. Still /\ isr' = AfterReceive
    BY <1>1, <1>4 DEF IsrReceive, Still
  <2>2. IsrOK'
    <3>1. CASE isr' = Again
      BY <3>1 DEF IsrOK, Again, IsrOff
    <3>2. CASE isr' = [isr EXCEPT !.pc = "transmit", !.avail = FALSE]
      <4>1. isr' \in [pc : {"off", "control", "receive", "transmit"}, wi : BOOLEAN, space : Nat, avail : BOOLEAN]
            /\ isr'.space = isr.space
        BY <1>1, <3>2 DEF IsrOK
      <4>2. wfifo' = wfifo /\ Len(wfifo) + isr.space <= Depth
        BY <1>1 DEF IsrOK
      <4> QED BY <4>1, <4>2 DEF IsrOK
    <3> QED BY <2>1, <3>1, <3>2 DEF AfterReceive
  <2>3. TypeOK'
    BY <1>1, <2>1 DEF TypeOK, Still
  <2>4. AppOK'
    BY <1>1, <2>1 DEF AppOK, Still, Fill
  <2>5. BuildOK'
    BY <1>1, <2>1 DEF BuildOK, Still
  <2>6. Awake'
    BY <1>1, <2>1 DEF Awake, Still
  <2> QED BY <1>2, <2>1, <2>2, <2>3, <2>4, <2>5, <2>6, StillIsInv
<1>5. CASE rfifo # <<>>
  <2>1. /\ isr' = [isr EXCEPT !.avail = Len(rfifo) > 1]
        /\ rx_buf' = [rx_buf EXCEPT ![rx_in] = Head(rfifo)]
        /\ rx_in' = Wrap(rx_in + 1) /\ rfifo' = Tail(rfifo)
    BY <1>5 DEF IsrReceive
  <2> DEFINE out == Slot(rx_out + Freeing)
             G == Fill(rx_in, rx_out)
             D == G - Freeing
  <2>2. PICK R \in Nat, Q \in Nat :
          /\ got = Run(0, R) /\ rfifo = Run(sent - Q, Q)
          /\ Ring(rx_buf, out, D, R) /\ sent = R + D + Q
    BY <1>1 DEF RxOK
  <2>3. rx_in' = Slot(rx_in + 1) /\ rx_in' \in Slots
    <3>1. rx_in + 1 \in Nat /\ rx_in + 1 < 2 * BufLen
      BY <1>1 DEF Slots
    <3> QED BY <1>1, <2>1, <3>1, WrapIsSlot
  <2>4. /\ G \in 0 .. BufLen - 2 /\ Freeing \in 0 .. G
        /\ Fill(rx_in', rx_out) = G + 1
    <3>1. G \in 0 .. BufLen - 1
      BY <1>1, Filled
    <3>2. G # BufLen - 1
      <4>1. Slot(rx_in + 1) # rx_out
        BY <1>1, <2>1, <2>3
      <4> QED BY <1>1, <4>1, Filled
    <3>3. Freeing \in 0 .. G
      BY <1>1, <3>1 DEF AppOK, Freeing
    <3>4. \A i \in Nat : G + i < BufLen => Fill(Slot(rx_in + i), rx_out) = G + i
      BY <1>1, Filled
    <3>5. G + 1 < BufLen /\ 1 \in Nat
      BY <1>1, <3>1, <3>2
    <3> QED BY <1>1, <2>3, <3>1, <3>2, <3>3, <3>4, <3>5
  <2>5. out \in Slots /\ rx_in = Slot(out + D) /\ D \in 0 .. BufLen - 2
    <3>1. out \in Slots
      BY <1>1, <2>4 DEF Slot, Slots
    <3>2. \A i \in 0 .. G : Fill(rx_in, Slot(rx_out + i)) = G - i
      BY <1>1, Filled
    <3>3. Fill(rx_in, out) = D
      BY <2>4, <3>2
    <3>4. Slot(out + Fill(rx_in, out)) = rx_in
      <4> HIDE DEF out
      <4> QED BY <1>1, <3>1, Filled
    <3> QED BY <1>1, <2>4, <3>1, <3>3, <3>4
  <2> DEFINE Q2 == Q - 1
             k == sent - Q
             k2 == sent - Q2
             D2 == D + 1
  <2>6. /\ sent \in Nat /\ k \in Int /\ k2 \in Int /\ k2 = k + 1 /\ Q2 \in Nat /\ Q2 = Q - 1 /\ Len(rfifo) = Q
        /\ Q \in Nat /\ k2 = R + D + 1
    <3>1. sent \in Nat /\ k \in Int
      BY <1>1 DEF BuildOK
    <3>2. Q # 0 /\ Len(rfifo) = Q
      BY <1>5, <2>2, <3>1, RunIs
    <3>3. D \in Int /\ sent = R + D + Q
      BY <2>2, <2>5
    <3> HIDE DEF D
    <3> QED BY <3>1, <3>2, <3>3
  <2>7. Head(rfifo) = k2 /\ rfifo' = Run(k2, Q2) /\ Len(rfifo') = Q2
    <3> HIDE DEF k, k2, Q2
    <3>1. k \in Int /\ Q \in Nat /\ k2 \in Int /\ k2 = k + 1 /\ Q2 \in Nat /\ Q2 = Q - 1
      BY <2>6
    <3>2. Head(Run(k, Q)) = k2 /\ Tail(Run(k, Q)) = Run(k2, Q2)
      BY ONLY <3>1, RunTail, Zenon
    <3>3. Len(Run(k2, Q2)) = Q2
      BY <3>1, RunIs, Zenon
    <3>4. rfifo = Run(k, Q)
      BY <2>2 DEF k
    <3> QED BY <2>1, <3>2, <3>3, <3>4
  <2>8. /\ rx_buf' \in [Slots -> Int] /\ rx_buf'[rx_in] = k2
        /\ \A i \in Slots : i # rx_in => rx_buf'[i] = rx_buf[i]
    <3>1. rx_buf \in [Slots -> Int] /\ rx_buf' = [rx_buf EXCEPT ![rx_in] = k2] /\ k2 \in Int
      BY <1>1, <2>1, <2>6, <2>7 DEF BuildOK
    <3> HIDE DEF k2
    <3> QED BY <1>1, <3>1
  <2> HIDE DEF out
  <2>9. Ring(rx_buf', out, D2, R)
    <3> DEFINE m == 1
    <3>1. m \in Nat /\ D + m <= BufLen /\ D \in 0 .. BufLen - 1 /\ R \in Int
      BY <1>1, <2>5
    <3>2. \A i \in Slots : (\A l \in 0 .. m - 1 : i # Slot(rx_in + l)) => rx_buf'[i] = rx_buf[i]
      <4> SUFFICES ASSUME NEW i \in Slots, \A l \in 0 .. m - 1 : i # Slot(rx_in + l)
                   PROVE  rx_buf'[i] = rx_buf[i]
        OBVIOUS
      <4>1. 0 \in 0 .. m - 1 /\ Slot(rx_in + 0) = rx_in
        BY <1>1 DEF Slot, Slots
      <4>2. i # rx_in
        BY <4>1
      <4> QED BY <2>8, <4>2
    <3>3. \A l \in 0 .. m - 1 : rx_buf'[Slot(rx_in + l)] = R + D + l + 1
      <4> SUFFICES ASSUME NEW l \in 0 .. m - 1 PROVE rx_buf'[Slot(rx_in + l)] = R + D + l + 1
        OBVIOUS
      <4>1. l = 0 /\ Slot(rx_in + l) = rx_in /\ R + D + l + 1 = k2
        <5>1. l = 0 /\ D \in Int
          BY <2>5
        <5> HIDE DEF D, k2
        <5> QED BY <1>1, <2>6, <5>1 DEF Slot, Slots
      <4> QED BY <2>8, <4>1
    <3> HIDE DEF m, D
    <3>4. Ring(rx_buf', out, D + m, R)
      BY <1>1, <2>2, <2>5, <3>1, <3>2, <3>3, RingAdd
    <3> QED BY <3>4 DEF m
  <2>10. RxOK'
    <3>1. out' = out /\ D2 = Fill(rx_in', rx_out') - Freeing'
      <4>1. G \in Int /\ Freeing \in Int
        BY <2>4
      <4> HIDE DEF G
      <4> QED BY <1>1, <1>2, <2>4, <4>1 DEF out
    <3>2. sent' = R + D2 + Q2
      <4>1. D \in Int
        BY <2>5
      <4> HIDE DEF D
      <4> QED BY <1>1, <2>2, <2>6, <4>1
    <3>3. rfifo' = Run(sent' - Q2, Q2) /\ got' = Run(0, R) /\ Q2 \in Nat
      BY <1>1, <2>2, <2>6, <2>7
    <3>4. Ring(rx_buf', out', Fill(rx_in', rx_out') - Freeing', R)
      BY <2>9, <3>1
    <3>5. sent' = R + (Fill(rx_in', rx_out') - Freeing') + Q2
      BY <3>1, <3>2
    <3> HIDE DEF Q2, D2
    <3> QED BY <3>3, <3>4, <3>5 DEF RxOK, out
  <2>11. IsrOK' /\ isr'.pc = "receive"
    <3>1. (Len(rfifo) > 1) \in BOOLEAN
      OBVIOUS
    <3>2. /\ isr'.space = isr.space /\ isr'.pc = "receive"
          /\ isr' \in [pc : {"off", "control", "receive", "transmit"}, wi : BOOLEAN, space : Nat, avail : BOOLEAN]
      <4> DEFINE b == Len(rfifo) > 1
      <4>1. isr' = [isr EXCEPT !.avail = b] /\ b \in BOOLEAN
        BY <2>1, <3>1
      <4> HIDE DEF b
      <4> QED BY <1>1, <4>1 DEF IsrOK
    <3> QED BY <1>1, <3>2 DEF IsrOK
  <2>12. TypeOK'
    BY <1>1, <2>3, <2>6, <2>7 DEF TypeOK
  <2>13. Fill(tx_in, tx_out)' = Fill(tx_in, tx_out)
    BY <1>1 DEF Fill
  <2>14. AppOK'
    BY <1>1, <2>4, <2>13 DEF AppOK
  <2>15. BuildOK'
    BY <1>1, <2>8 DEF BuildOK
  <2>16. Awake'
    <3>1. rx_in' # rx_out'
      BY <1>1, <2>1
    <3> QED BY <1>1, <3>1 DEF Awake
  <2> QED BY <1>3, <2>10, <2>11, <2>12, <2>14, <2>15, <2>16 DEF IInv
<1> QED BY <1>4, <1>5

-----------------------------------------------------------------------------
(* The calls.                                                              *)

\* The steps of the caller that move no byte.
LEMMA Callers ==
  ASSUME JtagAssumption, IInv,
         \/ CallWrite \/ CallRead \/ CallClose \/ WriteSpin \/ WriteInactive \/ WriteKick
         \/ ReadSpin \/ ReadLate \/ ReadArm \/ ReadNothing \/ Close
  PROVE  IInv'
<1>1. /\ TypeOK /\ AppOK /\ IsrOK /\ BuildOK /\ Awake /\ 0 \in Slots
      /\ WriteSizes \subseteq Nat /\ told \in Nat
  <2>1. BufLen \in Nat /\ BufLen > 1 /\ WriteSizes \subseteq Nat
    BY DEF JtagAssumption
  <2>2. TypeOK /\ AppOK /\ IsrOK /\ BuildOK /\ Awake
    BY DEF IInv
  <2>3. told \in Nat
    BY <2>2 DEF BuildOK
  <2>4. 0 \in Slots
    BY <2>1 DEF Slots
  <2> QED BY <2>1, <2>2, <2>3, <2>4
<1>2. Still /\ isr' = isr /\ timeout' = timeout /\ host_inactive' = host_inactive
  <2>1. CASE CallWrite \/ CallRead \/ CallClose
    BY <2>1 DEF CallWrite, CallRead, CallClose, Call, settings, buffers, device, host, user, Still
  <2>2. CASE WriteSpin \/ WriteInactive \/ WriteKick
    BY <2>2 DEF WriteSpin, WriteInactive, WriteKick, settings, buffers, device, host, user, Still
  <2>3. CASE ReadSpin \/ ReadLate \/ ReadArm \/ ReadNothing \/ Close
    BY <2>3 DEF ReadSpin, ReadLate, ReadArm, ReadNothing, Close, settings, buffers, device, host, user, Still
  <2> QED BY <2>1, <2>2, <2>3
<1>3. \/ irq_enable' = irq_enable /\ control' = control
      \/ irq_enable' \in {irq_enable \union {"WE"}, irq_enable \union {"RE"}} /\ control' = irq_enable'
  BY DEF CallWrite, CallRead, CallClose, Call, WriteSpin, WriteInactive, WriteKick, ReadSpin, ReadLate,
         ReadArm, ReadNothing, Close, device
<1>4. control' = irq_enable' /\ control' \subseteq {"RE", "WE"} /\ control \subseteq control'
  BY <1>1, <1>3 DEF BuildOK, TypeOK
<1>5. TypeOK' /\ IsrOK'
  BY <1>1, <1>2, <1>4 DEF TypeOK, IsrOK, Still
<1>6. ASSUME AppOK', Copied' = Copied, Freeing' = Freeing, told' + Ahead' = told + Ahead, told' \in Nat,
             small => app'.op # "close", Awake'
      PROVE  IInv'
  <2>1. BuildOK'
    BY <1>1, <1>2, <1>4, <1>6 DEF BuildOK, Still
  <2> QED BY <1>2, <1>5, <1>6, <2>1, StillIsInv
<1>7. /\ Fill(tx_in, tx_out)' = Fill(tx_in, tx_out) /\ Fill(rx_in, rx_out)' = Fill(rx_in, rx_out)
      /\ small' = small /\ tx_in' = tx_in /\ tx_out' = tx_out /\ rx_in' = rx_in /\ rx_out' = rx_out
  BY <1>2 DEF Still, Fill
<1>8. CASE CallWrite \/ CallRead \/ CallClose
  <2>1. app.op = "none" /\ told' = told
    BY <1>8 DEF CallWrite, CallRead, CallClose, Call, Running, user
  <2>2. PICK op \in {"write", "read", "close"}, pc \in Places, left \in Nat, nonblock \in BOOLEAN :
          /\ app' = [Idle EXCEPT !.op = op, !.pc = pc, !.left = left, !.nonblock = nonblock]
          /\ op = "write" => pc = IF small THEN "poll" ELSE "space"
          /\ op = "read" => pc = IF small THEN "poll" ELSE "look"
          /\ op = "close" => ~small
          /\ op # "close" => left > 0
    <3>1. CASE CallWrite
      <4>1. PICK l \in WriteSizes \cap 1 .. MaxBytes - told - sent, b \in BOOLEAN :
              app' = [Idle EXCEPT !.op = "write", !.pc = IF small THEN "poll" ELSE "space",
                                  !.left = l, !.nonblock = b]
        BY <3>1 DEF CallWrite, Call
      <4>2. l \in Nat /\ l > 0
        BY <1>1, <4>1
      <4>3. PICK pc \in {"poll", "space"} : pc = IF small THEN "poll" ELSE "space"
        OBVIOUS
      <4>4. pc \in Places
        BY <4>3 DEF Places
      <4> QED BY <4>1, <4>2, <4>3, <4>4
    <3>2. CASE CallRead
      <4>1. PICK l \in 1 .. 2, b \in BOOLEAN :
              app' = [Idle EXCEPT !.op = "read", !.pc = IF small THEN "poll" ELSE "look",
                                  !.left = l, !.nonblock = b]
        BY <3>2 DEF CallRead, Call
      <4>2. l \in Nat /\ l > 0
        BY <4>1
      <4>3. PICK pc \in {"poll", "look"} : pc = IF small THEN "poll" ELSE "look"
        OBVIOUS
      <4>4. pc \in Places
        BY <4>3 DEF Places
      <4> QED BY <4>1, <4>2, <4>3, <4>4
    <3>3. CASE CallClose
      <4>1. PICK l \in {0}, b \in BOOLEAN :
              app' = [Idle EXCEPT !.op = "close", !.pc = "drain", !.left = l, !.nonblock = b]
        BY <3>3 DEF CallClose, Call
      <4>2. l \in Nat
        BY <4>1
      <4>3. "drain" \in Places /\ ~small
        BY <3>3 DEF CallClose, Places
      <4> QED BY <4>1, <4>2, <4>3
    <3> QED BY <1>8, <3>1, <3>2, <3>3
  <2>3. /\ app' \in [op : {"none", "write", "read", "close"}, pc : Places, left : Nat, done : Nat,
                     at : Slots, n : Nat, nonblock : BOOLEAN]
        /\ app'.op = op /\ app'.pc = pc /\ app'.done = 0 /\ app'.left = left
    BY <1>1, <2>2 DEF Idle
  <2>4. AppOK'
    BY <1>7, <2>2, <2>3 DEF AppOK
  <2>5. Copied' = Copied /\ Freeing' = Freeing /\ Ahead' = Ahead
    BY <2>1, <2>2, <2>3 DEF Copied, Freeing, Ahead
  <2>6. Awake'
    BY <1>1, <1>4, <1>7, <2>1 DEF Awake
  <2> QED BY <1>1, <1>6, <2>1, <2>2, <2>3, <2>4, <2>5, <2>6
<1>9. ASSUME Return
      PROVE  /\ AppOK' /\ Copied' = 0 /\ Freeing' = 0 /\ Ahead' = 0
             /\ told' + Ahead' = told + Ahead /\ told' \in Nat /\ app'.op = "none"
  <2>1. app' = Idle /\ told' = IF app.op = "write" THEN told + app.done ELSE told
    BY <1>9 DEF Return
  <2>2. /\ app' \in [op : {"none", "write", "read", "close"}, pc : Places, left : Nat, done : Nat,
                     at : Slots, n : Nat, nonblock : BOOLEAN]
        /\ app'.op = "none"
    <3>1. "idle" \in Places
      BY DEF Places
    <3> QED BY <1>1, <2>1, <3>1 DEF Idle
  <2>3. Copied' = 0 /\ Freeing' = 0 /\ Ahead' = 0
    BY <2>2 DEF Copied, Freeing, Ahead
  <2>4. app.done \in Nat
    BY <1>1 DEF AppOK
  <2>5. told' + Ahead' = told + Ahead /\ told' \in Nat
    BY <1>1, <2>1, <2>3, <2>4 DEF Ahead
  <2>6. AppOK'
    BY <2>2 DEF AppOK
  <2> QED BY <2>2, <2>3, <2>5, <2>6
<1>10. ASSUME NEW pc \in Places, Goto(pc), pc # "advance", app.pc # "advance"
       PROVE  /\ Copied' = Copied /\ Freeing' = Freeing /\ Ahead' = Ahead
              /\ app' \in [op : {"none", "write", "read", "close"}, pc : Places, left : Nat, done : Nat,
                           at : Slots, n : Nat, nonblock : BOOLEAN]
              /\ app'.op = app.op /\ app'.pc = pc /\ app'.done = app.done
  <2>1. app' = [app EXCEPT !.pc = pc]
    BY <1>10 DEF Goto
  <2>2. /\ app' \in [op : {"none", "write", "read", "close"}, pc : Places, left : Nat, done : Nat,
                     at : Slots, n : Nat, nonblock : BOOLEAN]
        /\ app'.op = app.op /\ app'.pc = pc /\ app'.done = app.done
    BY <1>1, <2>1 DEF AppOK
  <2>3. Copied' = Copied /\ Freeing' = Freeing /\ Ahead' = Ahead
    BY <1>10, <2>2 DEF Copied, Freeing, Ahead
  <2> QED BY <2>2, <2>3
<1>11. CASE CallWrite \/ CallRead \/ CallClose
  BY <1>8, <1>11
<1>12. ASSUME Return, app.pc # "advance",
              ~small => "WE" \in control' \/ tx_in = tx_out,
              ~small => "RE" \in control' \/ rx_in # rx_out
       PROVE  IInv'
  <2>1. Awake'
    BY <1>7, <1>12 DEF Awake
  <2>2. Copied = 0 /\ Freeing = 0
    BY <1>12 DEF Copied, Freeing
  <2>3. /\ AppOK' /\ Copied' = 0 /\ Freeing' = 0 /\ told' + Ahead' = told + Ahead
        /\ told' \in Nat /\ app'.op = "none"
    BY <1>9, <1>12
  <2> QED BY <1>6, <2>1, <2>2, <2>3
<1>13. ASSUME NEW pc \in Places, Goto(pc), told' = told, pc # "advance", app.pc # "advance", ~small,
              \/ app.op = "write" /\ pc \in {"space", "spin", "inactive"}
              \/ app.op = "read" /\ pc \in {"look", "late", "return"} /\ app.done = 0,
              pc = "space" \/ "WE" \in control' \/ tx_in = tx_out,
              "RE" \in control' \/ rx_in # rx_out
       PROVE  IInv'
  <2>1. /\ Copied' = Copied /\ Freeing' = Freeing /\ Ahead' = Ahead
        /\ app' \in [op : {"none", "write", "read", "close"}, pc : Places, left : Nat, done : Nat,
                     at : Slots, n : Nat, nonblock : BOOLEAN]
        /\ app'.op = app.op /\ app'.pc = pc /\ app'.done = app.done
    BY <1>10, <1>13
  <2>2. AppOK'
    BY <1>7, <1>13, <2>1 DEF AppOK
  <2>3. Awake'
    BY <1>1, <1>4, <1>7, <1>13, <2>1 DEF Awake
  <2>4. small => app'.op # "close"
    BY <1>13
  <2> QED BY <1>1, <1>6, <1>13, <2>1, <2>2, <2>3, <2>4
<1>14. CASE WriteKick
  <2>1. /\ app.op = "write" /\ app.pc = "kick" /\ "WE" \in control'
        /\ Return \/ (Goto("spin") /\ told' = told)
    BY <1>14 DEF WriteKick, Running
  <2>2. ~small
    BY <1>1, <2>1 DEF AppOK
  <2>3. "RE" \in control' \/ rx_in # rx_out
    BY <1>1, <1>4, <2>1, <2>2 DEF Awake
  <2>4. CASE Return
    BY <1>12, <2>1, <2>3, <2>4
  <2>5. CASE Goto("spin") /\ told' = told
    <3>1. "spin" \in Places /\ "spin" # "advance" /\ app.pc # "advance" /\ "spin" \in {"space", "spin", "inactive"}
      BY <2>1 DEF Places
    <3> QED BY ONLY <1>13, <2>1, <2>2, <2>3, <2>5, <3>1
  <2> QED BY <2>1, <2>4, <2>5
<1>15. CASE WriteSpin \/ WriteInactive
  <2>1. /\ app.op = "write" /\ app.pc \in {"spin", "inactive"}
        /\ Return \/ (\E pc \in {"space", "inactive"} : Goto(pc) /\ told' = told)
    BY <1>15 DEF WriteSpin, WriteInactive, Running, user
  <2>2. ~small
    BY <1>1, <2>1 DEF AppOK
  <2>3. /\ "RE" \in control' \/ rx_in # rx_out
        /\ "WE" \in control' \/ tx_in = tx_out
    BY <1>1, <1>4, <2>1, <2>2 DEF Awake
  <2>4. CASE Return
    BY <1>12, <2>1, <2>3, <2>4
  <2>5. CASE \E pc \in {"space", "inactive"} : Goto(pc) /\ told' = told
    <3>1. PICK pc \in {"space", "inactive"} : Goto(pc) /\ told' = told
      BY <2>5
    <3>2. /\ pc \in Places /\ pc # "advance" /\ app.pc # "advance"
          /\ pc \in {"space", "spin", "inactive"}
      BY <2>1, <3>1 DEF Places
    <3> QED BY ONLY <1>13, <2>1, <2>2, <2>3, <3>1, <3>2
  <2> QED BY <2>1, <2>4, <2>5
<1>16. CASE ReadSpin \/ ReadLate
  <2>1. /\ app.op = "read" /\ app.pc \in {"spin", "late"} /\ told' = told
        /\ \E pc \in {"late", "return", "look"} : Goto(pc)
    BY <1>16 DEF ReadSpin, ReadLate, Running, user
  <2>2. ~small /\ app.done = 0
    BY <1>1, <2>1 DEF AppOK
  <2>3. /\ "RE" \in control' \/ rx_in # rx_out
        /\ "WE" \in control' \/ tx_in = tx_out
    BY <1>1, <1>4, <2>1, <2>2 DEF Awake
  <2>4. PICK pc \in {"late", "return", "look"} : Goto(pc)
    BY <2>1
  <2>5. pc \in Places /\ pc # "advance" /\ app.pc # "advance"
    BY <2>1, <2>4 DEF Places
  <2> QED BY ONLY <1>13, <2>1, <2>2, <2>3, <2>4, <2>5
<1>17. CASE ReadArm \/ ReadNothing \/ Close
  <2>1. /\ Return /\ app.pc # "advance" /\ app.op \in {"read", "close"}
        /\ \/ "RE" \in control'
           \/ app.op = "read" /\ app.pc = "return"
           \/ app.op = "close"
    BY <1>17 DEF ReadArm, ReadNothing, Close, Running
  <2>2. ~small => "WE" \in control' \/ tx_in = tx_out
    BY <1>1, <1>4, <2>1 DEF Awake
  <2>3. ~small => "RE" \in control' \/ rx_in # rx_out
    <3>1. app.op = "read" /\ app.pc = "return" /\ ~small => app.done = 0
      BY <1>1 DEF AppOK
    <3> QED BY <1>1, <1>4, <2>1, <3>1 DEF Awake
  <2> QED BY <1>12, <2>1, <2>2, <2>3
<1> QED BY <1>11, <1>14, <1>15, <1>16, <1>17

LEMMA MinOfTwo ==
  ASSUME NEW a \in Int, NEW b \in Int
  PROVE  Min({a, b}) = IF a <= b THEN a ELSE b
<1> DEFINE m == IF a <= b THEN a ELSE b
<1>1. m \in {a, b} /\ \A y \in {a, b} : m <= y
  OBVIOUS
<1>2. \A x \in {a, b} : (\A y \in {a, b} : x <= y) => x = m
  OBVIOUS
<1> HIDE DEF m
<1>3. Min({a, b}) \in {a, b} /\ \A y \in {a, b} : Min({a, b}) <= y
  BY <1>1, Zenon DEF Min
<1>4. Min({a, b}) = m
  BY <1>2, <1>3
<1> QED BY <1>4 DEF m

\* What a writer may copy fits behind the bytes held, without a turn.
LEMMA SpaceFits ==
  ASSUME JtagAssumption, NEW in \in Slots, NEW out \in Slots
  PROVE  /\ Space(in, out) \in Nat
         /\ Fill(in, out) + Space(in, out) <= BufLen - 1 /\ in + Space(in, out) <= BufLen
BY DEF JtagAssumption, Slots, Fill, Space

LEMMA WriteCopies ==
  ASSUME JtagAssumption, IInv, WriteCopy
  PROVE  IInv'
<1> DEFINE sp == Space(tx_in, tx_out)
           n == Min({sp, app.left})
           C == Fill(tx_in, tx_out)
<1>1. TypeOK /\ AppOK /\ IsrOK /\ BuildOK /\ TxOK /\ RxOK /\ Awake
  BY DEF IInv
<1>2. /\ BufLen \in Nat /\ BufLen > 1 /\ tx_in \in Slots /\ tx_out \in Slots /\ 0 \in Slots
      /\ tx_in \in 0 .. BufLen - 1 /\ told \in Nat
  BY <1>1 DEF JtagAssumption, TypeOK, BuildOK, Slots
<1>3. app.op = "write" /\ app.pc = "space" /\ ~small /\ app.left \in Nat /\ app.done \in Nat
  BY <1>1 DEF WriteCopy, Running, AppOK
<1>4. /\ tx_buf' = [i \in Slots |-> IF i \in tx_in .. tx_in + n - 1 THEN told + app.done + 1 + (i - tx_in)
                                    ELSE tx_buf[i]]
      /\ app' = [app EXCEPT !.at = IF n = 0 THEN tx_out ELSE 0, !.n = n,
                            !.pc = IF n = 0 THEN "kick" ELSE "advance"]
  BY DEF WriteCopy
<1>5. /\ UNCHANGED <<small, clock, timeout, host_inactive, irq_enable, control, wfifo, rfifo, isr, sent>>
      /\ UNCHANGED <<seen, rx_in, rx_out, tx_in, tx_out, rx_buf, told, got>>
  BY DEF WriteCopy, settings, device, host, user
<1>6. /\ n \in Nat /\ n <= app.left /\ C \in 0 .. BufLen - 1 /\ C + n \in 0 .. BufLen - 1
      /\ tx_in + n <= BufLen /\ tx_in = Slot(tx_out + C)
  <2>1. sp \in Nat /\ C + sp <= BufLen - 1 /\ tx_in + sp <= BufLen
    BY <1>2, SpaceFits
  <2>2. C \in 0 .. BufLen - 1 /\ tx_in = Slot(tx_out + C)
    BY <1>2, Filled
  <2> HIDE DEF sp, C
  <2>3. n = IF sp <= app.left THEN sp ELSE app.left
    BY <1>3, <2>1, MinOfTwo
  <2> HIDE DEF n
  <2> QED BY <1>2, <1>3, <2>1, <2>2, <2>3
<1> HIDE DEF sp, n, C
<1>7. /\ app' \in [op : {"none", "write", "read", "close"}, pc : Places, left : Nat, done : Nat,
                   at : Slots, n : Nat, nonblock : BOOLEAN]
      /\ app'.op = "write" /\ app'.n = n /\ app'.left = app.left /\ app'.done = app.done
      /\ app'.pc = IF n = 0 THEN "kick" ELSE "advance"
  <2>1. PICK a \in Slots, pc \in {"kick", "advance"} :
          app' = [app EXCEPT !.at = a, !.n = n, !.pc = pc] /\ pc = IF n = 0 THEN "kick" ELSE "advance"
    <3>1. CASE n = 0
      BY <1>2, <1>4, <3>1
    <3>2. CASE n # 0
      BY <1>2, <1>4, <3>2
    <3> QED BY <3>1, <3>2
  <2>2. pc \in Places
    BY DEF Places
  <2> QED BY <1>1, <1>3, <1>6, <2>1, <2>2 DEF AppOK
<1>8. Copied = 0 /\ Copied' = n /\ Freeing = 0 /\ Freeing' = 0 /\ Ahead = app.done /\ Ahead' = app.done
  BY <1>3, <1>7 DEF Copied, Freeing, Ahead
<1>9. PICK S \in Nat, F \in Nat :
        /\ seen = Run(0, S) /\ wfifo = Run(S, F)
        /\ Ring(tx_buf, tx_out, C + Copied, S + F) /\ told + Ahead = S + F + C
  BY <1>1 DEF TxOK, C
<1> DEFINE k == S + F
<1>10. k \in Int /\ k = S + F /\ Ring(tx_buf, tx_out, C, k) /\ told + app.done = k + C
  BY <1>6, <1>8, <1>9
<1> HIDE DEF k
<1>11. Ring(tx_buf', tx_out, C + n, k)
  <2>1. \A i \in Slots : (\A l \in 0 .. n - 1 : i # Slot(tx_in + l)) => tx_buf'[i] = tx_buf[i]
    <3> SUFFICES ASSUME NEW i \in Slots, i \in tx_in .. tx_in + n - 1
                 PROVE  \E l \in 0 .. n - 1 : i = Slot(tx_in + l)
      BY <1>4
    <3>1. i - tx_in \in 0 .. n - 1 /\ i = tx_in + (i - tx_in) /\ i < BufLen
      BY <1>2, <1>6 DEF Slots
    <3>2. Slot(tx_in + (i - tx_in)) = i
      BY <3>1 DEF Slot
    <3> QED BY <3>1, <3>2
  <2>2. \A l \in 0 .. n - 1 : tx_buf'[Slot(tx_in + l)] = k + C + l + 1
    <3> SUFFICES ASSUME NEW l \in 0 .. n - 1 PROVE tx_buf'[Slot(tx_in + l)] = k + C + l + 1
      OBVIOUS
    <3> DEFINE i == tx_in + l
    <3>1. i \in tx_in .. tx_in + n - 1 /\ i \in Slots /\ i < BufLen /\ i - tx_in = l
      BY <1>2, <1>6 DEF Slots
    <3>2. Slot(i) = i
      BY <3>1 DEF Slot
    <3> HIDE DEF i
    <3>3. tx_buf'[i] = told + app.done + 1 + (i - tx_in)
      BY <1>4, <3>1
    <3>4. tx_buf'[i] = k + C + l + 1
      BY <1>6, <1>10, <3>1, <3>3
    <3> QED BY <3>2, <3>4 DEF i
  <2>3. /\ C + n <= BufLen /\ C \in 0 .. BufLen - 1 /\ n \in Nat /\ k \in Int
        /\ tx_in \in Slots /\ tx_out \in Slots /\ tx_in = Slot(tx_out + C)
        /\ Ring(tx_buf, tx_out, C, k)
    BY <1>2, <1>6, <1>10
  <2> QED BY ONLY JtagAssumption, <2>1, <2>2, <2>3, RingAdd, Zenon
<1>12. Fill(tx_in, tx_out)' = C /\ Fill(rx_in, rx_out)' = Fill(rx_in, rx_out)
  BY <1>5 DEF Fill, C
<1>13. TxOK'
  <2>1. told' + Ahead' = S + F + C
    BY <1>5, <1>8, <1>9
  <2>2. Ring(tx_buf', tx_out', Fill(tx_in', tx_out') + Copied', S + F)
    BY <1>5, <1>8, <1>10, <1>11, <1>12
  <2> QED BY <1>5, <1>9, <1>12, <2>1, <2>2 DEF TxOK
<1>14. RxOK'
  BY <1>1, <1>5, <1>8, RxKept
<1>15. TypeOK' /\ IsrOK'
  BY <1>1, <1>5 DEF TypeOK, IsrOK
<1>16. AppOK'
  <2>1. n # 0 => n \in 1 .. app.left /\ tx_in + n <= BufLen /\ C + n < BufLen
    BY <1>2, <1>3, <1>6
  <2> QED BY <1>3, <1>5, <1>7, <1>12, <2>1 DEF AppOK
<1>17. BuildOK'
  <2>1. tx_buf' \in [Slots -> Int]
    <3>1. \A i \in Slots : tx_buf'[i] \in Int
      <4> SUFFICES ASSUME NEW i \in Slots PROVE tx_buf'[i] \in Int
        OBVIOUS
      <4>1. tx_buf[i] \in Int /\ i \in Int
        BY <1>1, <1>2 DEF BuildOK, Slots
      <4>2. told + app.done + 1 + (i - tx_in) \in Int
        BY <1>2, <1>3, <4>1
      <4> QED BY <1>4, <4>1, <4>2
    <3> QED BY <1>4, <3>1
  <2> QED BY <1>1, <1>3, <1>5, <2>1 DEF BuildOK
<1>18. Awake'
  BY <1>1, <1>3, <1>5, <1>7 DEF Awake
<1> QED BY <1>13, <1>14, <1>15, <1>16, <1>17, <1>18 DEF IInv

LEMMA WriteAdvances ==
  ASSUME JtagAssumption, IInv, WriteAdvance
  PROVE  IInv'
<1> DEFINE n == app.n
           C == Fill(tx_in, tx_out)
<1>1. TypeOK /\ AppOK /\ IsrOK /\ BuildOK /\ TxOK /\ RxOK /\ Awake
  BY DEF IInv
<1>2. /\ BufLen \in Nat /\ BufLen > 1 /\ tx_in \in Slots /\ tx_out \in Slots
      /\ tx_in \in 0 .. BufLen - 1 /\ told \in Nat
  BY <1>1 DEF JtagAssumption, TypeOK, BuildOK, Slots
<1>3. app.op = "write" /\ app.pc = "advance" /\ app.left \in Nat /\ app.done \in Nat
  BY <1>1 DEF WriteAdvance, Running, AppOK
<1>4. /\ tx_in' = Wrap(tx_in + n)
      /\ app' = [app EXCEPT !.done = @ + app.n, !.left = @ - app.n, !.n = 0,
                            !.pc = IF app.left = app.n THEN "kick" ELSE "space"]
  BY DEF WriteAdvance
<1>5. /\ UNCHANGED <<small, clock, timeout, host_inactive, irq_enable, control, wfifo, rfifo, isr, sent>>
      /\ UNCHANGED <<seen, rx_in, rx_out, tx_out, rx_buf, tx_buf, told, got>>
  BY DEF WriteAdvance, settings, device, host, user
<1>6. ~small /\ n \in 1 .. app.left /\ tx_in + n <= BufLen /\ C + n < BufLen
  BY <1>1, <1>3 DEF AppOK
<1>7. /\ C \in 0 .. BufLen - 1 /\ tx_in' \in Slots
      /\ Fill(tx_in', tx_out') = C + n
  <2>1. tx_in + n \in Nat /\ tx_in + n < 2 * BufLen
    BY <1>2, <1>3, <1>6
  <2>2. tx_in' = Slot(tx_in + n) /\ tx_in' \in Slots
    BY <1>4, <2>1, WrapIsSlot
  <2>3. C \in 0 .. BufLen - 1 /\ \A m \in Nat : C + m < BufLen => Fill(Slot(tx_in + m), tx_out) = C + m
    BY <1>2, Filled
  <2>4. n \in Nat
    BY <1>3, <1>6
  <2> HIDE DEF n, C
  <2> QED BY <1>5, <1>6, <2>2, <2>3, <2>4
<1> HIDE DEF n, C
<1>8. /\ app' \in [op : {"none", "write", "read", "close"}, pc : Places, left : Nat, done : Nat,
                   at : Slots, n : Nat, nonblock : BOOLEAN]
      /\ app'.op = "write" /\ app'.done = app.done + n
      /\ app'.pc \in {"kick", "space"}
  <2> DEFINE d == app.done + n
             l == app.left - n
             pc == IF app.left = n THEN "kick" ELSE "space"
  <2>1. d \in Nat /\ l \in Nat /\ d = app.done + n
    BY <1>3, <1>6
  <2>2. pc \in Places /\ pc \in {"kick", "space"}
    BY DEF Places
  <2>3. app' = [app EXCEPT !.done = d, !.left = l, !.n = 0, !.pc = pc]
    BY <1>4 DEF n
  <2> HIDE DEF d, l, pc
  <2> QED BY <1>1, <1>3, <2>1, <2>2, <2>3 DEF AppOK
<1>9. Copied = n /\ Copied' = 0 /\ Freeing = 0 /\ Freeing' = 0 /\ Ahead = app.done /\ Ahead' = app.done + n
  BY <1>3, <1>8 DEF Copied, Freeing, Ahead, n
<1>10. PICK S \in Nat, F \in Nat :
        /\ seen = Run(0, S) /\ wfifo = Run(S, F)
        /\ Ring(tx_buf, tx_out, C + Copied, S + F) /\ told + Ahead = S + F + C
  BY <1>1 DEF TxOK, C
<1>11. TxOK'
  <2>1. Fill(tx_in', tx_out') + Copied' = C + Copied
    BY <1>3, <1>6, <1>7, <1>9
  <2>2. Ring(tx_buf', tx_out', Fill(tx_in', tx_out') + Copied', S + F)
    BY <1>5, <1>10, <2>1
  <2>3. told' + Ahead' = S + F + Fill(tx_in', tx_out')
    BY <1>2, <1>3, <1>5, <1>6, <1>7, <1>9, <1>10
  <2> QED BY <1>5, <1>10, <2>2, <2>3 DEF TxOK
<1>12. RxOK'
  BY <1>1, <1>5, <1>9, RxKept
<1>13. TypeOK' /\ IsrOK'
  BY <1>1, <1>5, <1>7 DEF TypeOK, IsrOK
<1>14. AppOK'
  BY <1>5, <1>6, <1>8 DEF AppOK
<1>15. BuildOK' /\ Awake'
  BY <1>1, <1>3, <1>5, <1>6, <1>8 DEF BuildOK, Awake
<1> QED BY <1>11, <1>12, <1>13, <1>14, <1>15 DEF IInv

\* A reader takes what is there up to the end of the buffer.
LEMMA ReadCopies ==
  ASSUME JtagAssumption, IInv, ReadCopy
  PROVE  IInv'
<1> DEFINE some == IF rx_in >= rx_out THEN rx_in - rx_out ELSE BufLen - rx_out
           n == Min({some, app.left})
           D == Fill(rx_in, rx_out)
<1>1. TypeOK /\ AppOK /\ IsrOK /\ BuildOK /\ TxOK /\ RxOK /\ Awake
  BY DEF IInv
<1>2. /\ BufLen \in Nat /\ BufLen > 1 /\ rx_in \in Slots /\ rx_out \in Slots /\ 0 \in Slots
      /\ rx_out \in 0 .. BufLen - 1 /\ rx_in \in 0 .. BufLen - 1
  BY <1>1 DEF JtagAssumption, TypeOK, Slots
<1>3. app.op = "read" /\ app.pc = "look" /\ ~small /\ app.left \in Nat /\ app.done \in Nat
  BY <1>1 DEF ReadCopy, Running, AppOK
<1>4. /\ got' = got \o [i \in 1 .. n |-> rx_buf[rx_out + i - 1]]
      /\ app' = [app EXCEPT !.at = IF n = 0 THEN rx_in ELSE 0, !.n = n, !.done = @ + n, !.left = @ - n,
                   !.pc = IF n > 0 THEN "advance"
                          ELSE IF app.done > 0 THEN "arm"
                          ELSE IF app.nonblock THEN "return" ELSE "spin"]
  BY DEF ReadCopy
<1>5. /\ UNCHANGED <<small, clock, timeout, host_inactive, irq_enable, control, wfifo, rfifo, isr, sent>>
      /\ UNCHANGED <<seen, rx_in, rx_out, tx_in, tx_out, rx_buf, tx_buf, told>>
  BY DEF ReadCopy, settings, buffers, device, host
<1>6. /\ n \in Nat /\ n <= app.left /\ D \in 0 .. BufLen - 1 /\ n \in 0 .. D /\ rx_out + n <= BufLen
  <2>1. some \in Nat /\ some <= D /\ rx_out + some <= BufLen
    BY <1>2 DEF Fill
  <2>2. D \in 0 .. BufLen - 1
    BY <1>2, Filled
  <2> HIDE DEF some, D
  <2>3. n = IF some <= app.left THEN some ELSE app.left
    BY <1>3, <2>1, MinOfTwo
  <2> HIDE DEF n
  <2> QED BY <1>2, <1>3, <2>1, <2>2, <2>3
<1> HIDE DEF some, n, D
<1>7. /\ app' \in [op : {"none", "write", "read", "close"}, pc : Places, left : Nat, done : Nat,
                   at : Slots, n : Nat, nonblock : BOOLEAN]
      /\ app'.op = "read" /\ app'.n = n /\ app'.done = app.done + n
      /\ app'.pc \in {"advance", "arm", "return", "spin"}
      /\ app'.pc = "advance" => n > 0
      /\ app'.pc # "advance" => n = 0
      /\ app'.pc \in {"return", "spin"} => n = 0 /\ app.done = 0
  <2>1. PICK a \in Slots, pc \in {"advance", "arm", "return", "spin"} :
          /\ app' = [app EXCEPT !.at = a, !.n = n, !.done = @ + n, !.left = @ - n, !.pc = pc]
          /\ pc = "advance" => n > 0
          /\ pc # "advance" => n = 0
          /\ pc \in {"return", "spin"} => n = 0 /\ app.done = 0
    <3>1. CASE n > 0
      BY <1>2, <1>4, <1>6, <3>1
    <3>2. CASE n = 0 /\ app.done > 0
      BY <1>2, <1>4, <1>6, <3>2
    <3>3. CASE n = 0 /\ app.done = 0 /\ app.nonblock
      BY <1>2, <1>4, <1>6, <3>3
    <3>4. CASE n = 0 /\ app.done = 0 /\ ~app.nonblock
      BY <1>2, <1>4, <1>6, <3>4
    <3>5. (n > 0) \/ (n = 0 /\ app.done > 0) \/ (n = 0 /\ app.done = 0)
      BY <1>3, <1>6
    <3> QED BY ONLY <3>1, <3>2, <3>3, <3>4, <3>5, Zenon
  <2>2. pc \in Places
    BY <2>1 DEF Places
  <2> DEFINE d == app.done + n
             l == app.left - n
  <2>3. d \in Nat /\ l \in Nat /\ d = app.done + n
    BY <1>3, <1>6
  <2>4. app' = [app EXCEPT !.at = a, !.n = n, !.done = d, !.left = l, !.pc = pc]
    BY <2>1
  <2> HIDE DEF d, l
  <2>5. app \in [op : {"none", "write", "read", "close"}, pc : Places, left : Nat, done : Nat,
                 at : Slots, n : Nat, nonblock : BOOLEAN]
    BY <1>1 DEF AppOK
  <2>6. /\ app' \in [op : {"none", "write", "read", "close"}, pc : Places, left : Nat, done : Nat,
                     at : Slots, n : Nat, nonblock : BOOLEAN]
        /\ app'.op = "read" /\ app'.n = n /\ app'.done = d /\ app'.pc = pc
    BY <1>3, <1>6, <2>1, <2>2, <2>3, <2>4, <2>5
  <2> QED BY <2>1, <2>3, <2>6
<1>8. Copied = 0 /\ Copied' = 0 /\ Freeing = 0 /\ Freeing' = n /\ Ahead = 0 /\ Ahead' = 0
  BY <1>3, <1>6, <1>7 DEF Copied, Freeing, Ahead
<1>9. PICK R \in Nat, Q \in Nat :
        /\ got = Run(0, R) /\ rfifo = Run(sent - Q, Q)
        /\ Ring(rx_buf, Slot(rx_out + Freeing), D - Freeing, R) /\ sent = R + (D - Freeing) + Q
  BY <1>1 DEF RxOK, D
<1>10. Slot(rx_out + Freeing) = rx_out /\ D - Freeing = D
  BY <1>2, <1>6, <1>8 DEF Slot
<1>11. Ring(rx_buf, rx_out, D, R) /\ sent = R + D + Q
  BY <1>9, <1>10
<1> DEFINE R2 == R + n
<1>12. R2 \in Nat /\ R2 = R + n
  BY <1>6
<1> HIDE DEF R2
<1>13. got' = Run(0, R2)
  <2>1. \A i \in 1 .. n : rx_buf[rx_out + i - 1] = R + i
    <3> SUFFICES ASSUME NEW i \in 1 .. n PROVE rx_buf[rx_out + i - 1] = R + i
      OBVIOUS
    <3> DEFINE j == i - 1
    <3>1. j \in 0 .. D - 1 /\ rx_out + i - 1 = rx_out + j /\ R + j + 1 = R + i /\ rx_out + j < BufLen
      BY <1>2, <1>6
    <3> HIDE DEF j
    <3>2. rx_buf[Slot(rx_out + j)] = R + j + 1
      BY <1>11, <3>1 DEF Ring
    <3>3. Slot(rx_out + j) = rx_out + j
      BY <3>1 DEF Slot
    <3> QED BY <3>1, <3>2, <3>3
  <2>2. [i \in 1 .. n |-> rx_buf[rx_out + i - 1]] = Run(R, n)
    BY <2>1 DEF Run
  <2>3. Joined(Run(0, R), Run(R, n)) = Run(0, R2)
    <3> DEFINE z == 0
               j == R
    <3>1. z \in Int /\ R \in Nat /\ n \in Nat /\ j \in Int /\ j = z + R /\ R2 \in Nat /\ R2 = R + n
      BY <1>6, <1>12
    <3> HIDE DEF z, j
    <3>2. Joined(Run(z, R), Run(j, n)) = Run(z, R2)
      BY ONLY <3>1, RunConcat, SMTT(30)
    <3> QED BY <3>2 DEF z, j
  <2>4. got' = Joined(got, [i \in 1 .. n |-> rx_buf[rx_out + i - 1]])
    BY <1>4 DEF Joined
  <2> QED BY <1>9, <2>2, <2>3, <2>4
<1>14. Fill(tx_in, tx_out)' = Fill(tx_in, tx_out) /\ Fill(rx_in, rx_out)' = D
  BY <1>5 DEF Fill, D
<1>15. RxOK'
  <2>1. Ring(rx_buf, Slot(rx_out + n), D - n, R + n)
    <3>1. D \in 0 .. BufLen
      BY <1>2, <1>6
    <3> QED BY <1>2, <1>6, <1>11, <3>1, RingDrop
  <2>2. Ring(rx_buf', Slot(rx_out' + Freeing'), Fill(rx_in', rx_out') - Freeing', R2)
    BY <1>5, <1>8, <1>12, <1>14, <2>1
  <2>3. sent' = R2 + (Fill(rx_in', rx_out') - Freeing') + Q
    BY <1>5, <1>6, <1>8, <1>11, <1>12, <1>14
  <2> QED BY <1>5, <1>9, <1>12, <1>13, <2>2, <2>3 DEF RxOK
<1>16. TxOK'
  BY <1>1, <1>5, <1>8, TxKept
<1>17. TypeOK' /\ IsrOK'
  BY <1>1, <1>5 DEF TypeOK, IsrOK
<1>18. AppOK'
  BY <1>3, <1>5, <1>6, <1>7, <1>14 DEF AppOK
<1>19. BuildOK'
  BY <1>1, <1>3, <1>5 DEF BuildOK
<1>20. Awake'
  <2>1. app.done > 0 => app'.done > 0
    BY <1>3, <1>6, <1>7
  <2> QED BY <1>1, <1>3, <1>5, <1>7, <2>1 DEF Awake
<1> QED BY <1>15, <1>16, <1>17, <1>18, <1>19, <1>20 DEF IInv

LEMMA ReadAdvances ==
  ASSUME JtagAssumption, IInv, ReadAdvance
  PROVE  IInv'
<1> DEFINE n == app.n
           D == Fill(rx_in, rx_out)
<1>1. TypeOK /\ AppOK /\ IsrOK /\ BuildOK /\ TxOK /\ RxOK /\ Awake
  BY DEF IInv
<1>2. /\ BufLen \in Nat /\ BufLen > 1 /\ rx_in \in Slots /\ rx_out \in Slots
      /\ rx_out \in 0 .. BufLen - 1
  BY <1>1 DEF JtagAssumption, TypeOK, Slots
<1>3. app.op = "read" /\ app.pc = "advance" /\ app.n \in Nat
  BY <1>1 DEF ReadAdvance, Running, AppOK
<1>4. /\ rx_out' = Wrap(rx_out + n)
      /\ app' = [app EXCEPT !.n = 0, !.pc = IF app.left > 0 THEN "look" ELSE "arm"]
  BY DEF ReadAdvance
<1>5. /\ UNCHANGED <<small, clock, timeout, host_inactive, irq_enable, control, wfifo, rfifo, isr, sent>>
      /\ UNCHANGED <<seen, rx_in, tx_in, tx_out, rx_buf, tx_buf, told, got>>
  BY DEF ReadAdvance, settings, device, host, user
<1>6. ~small /\ n \in Nat /\ n <= D /\ app.done > 0
  BY <1>1, <1>3 DEF AppOK
<1>7. D \in 0 .. BufLen - 1 /\ rx_out' \in Slots /\ rx_out' = Slot(rx_out + n) /\ Fill(rx_in', rx_out') = D - n
  <2>1. D \in 0 .. BufLen - 1 /\ \A m \in 0 .. D : Fill(rx_in, Slot(rx_out + m)) = D - m
    BY <1>2, Filled
  <2> HIDE DEF n, D
  <2>2. n \in 0 .. D /\ rx_out + n \in Nat /\ rx_out + n < 2 * BufLen
    BY <1>2, <1>6, <2>1
  <2>3. rx_out' = Slot(rx_out + n) /\ rx_out' \in Slots
    BY <1>4, <2>2, WrapIsSlot
  <2> QED BY <1>5, <2>1, <2>2, <2>3
<1> HIDE DEF n, D
<1>8. /\ app' \in [op : {"none", "write", "read", "close"}, pc : Places, left : Nat, done : Nat,
                   at : Slots, n : Nat, nonblock : BOOLEAN]
      /\ app'.op = "read" /\ app'.done = app.done /\ app'.pc \in {"look", "arm"}
  <2> DEFINE pc == IF app.left > 0 THEN "look" ELSE "arm"
  <2>1. pc \in Places /\ pc \in {"look", "arm"}
    BY DEF Places
  <2>2. app' = [app EXCEPT !.n = 0, !.pc = pc]
    BY <1>4
  <2> HIDE DEF pc
  <2> QED BY <1>1, <1>3, <2>1, <2>2 DEF AppOK
<1>9. Copied = 0 /\ Copied' = 0 /\ Freeing = n /\ Freeing' = 0 /\ Ahead = 0 /\ Ahead' = 0
  BY <1>3, <1>8 DEF Copied, Freeing, Ahead, n
<1>10. TxOK'
  BY <1>1, <1>5, <1>9, TxKept
<1>11. RxOK'
  <2>1. PICK R \in Nat, Q \in Nat :
          /\ got = Run(0, R) /\ rfifo = Run(sent - Q, Q)
          /\ Ring(rx_buf, Slot(rx_out + n), D - n, R) /\ sent = R + (D - n) + Q
    BY <1>1, <1>9 DEF RxOK, D
  <2>2. Slot(rx_out' + Freeing') = Slot(rx_out + n) /\ Fill(rx_in', rx_out') - Freeing' = D - n
    <3>1. Slot(rx_out' + 0) = rx_out'
      BY <1>2, <1>7 DEF Slot, Slots
    <3> QED BY <1>6, <1>7, <1>9, <3>1
  <2>3. Ring(rx_buf', Slot(rx_out' + Freeing'), Fill(rx_in', rx_out') - Freeing', R)
    BY <1>5, <2>1, <2>2
  <2>4. sent' = R + (Fill(rx_in', rx_out') - Freeing') + Q
    BY <1>5, <2>1, <2>2
  <2> QED BY <1>5, <2>1, <2>3, <2>4 DEF RxOK
<1>12. TypeOK' /\ IsrOK'
  BY <1>1, <1>5, <1>7 DEF TypeOK, IsrOK
<1>13. AppOK'
  BY <1>5, <1>6, <1>8 DEF AppOK
<1>14. BuildOK' /\ Awake'
  BY <1>1, <1>3, <1>5, <1>6, <1>8 DEF BuildOK, Awake
<1> QED BY <1>10, <1>11, <1>12, <1>13, <1>14 DEF IInv

LEMMA SmallWrites ==
  ASSUME JtagAssumption, IInv, SmallWrite
  PROVE  IInv'
<1>1. /\ TypeOK /\ AppOK /\ IsrOK /\ BuildOK /\ TxOK /\ RxOK /\ Awake /\ Depth \in Nat
      /\ BufLen \in Nat /\ BufLen > 1
  BY DEF IInv, JtagAssumption
<1>2. app.op = "write" /\ app.pc = "poll" /\ app.left \in Nat /\ app.done \in Nat /\ WSPACE > 0
  BY <1>1 DEF SmallWrite, Running, AppOK
<1>3. /\ wfifo' = Append(wfifo, told + app.done + 1)
      /\ \/ app.left = 1 /\ app' = Idle /\ told' = told + app.done + 1
         \/ app.left # 1 /\ app' = [app EXCEPT !.left = @ - 1, !.done = @ + 1] /\ told' = told
      /\ UNCHANGED <<small, clock, timeout, host_inactive, irq_enable, control, rfifo, isr, sent>>
      /\ UNCHANGED <<seen, rx_in, rx_out, tx_in, tx_out, rx_buf, tx_buf, got>>
  BY DEF SmallWrite, settings, buffers, host
<1>4. small /\ app.left > 0 /\ tx_in = tx_out /\ isr.pc = "off" /\ told \in Nat
  BY <1>1, <1>2 DEF AppOK, BuildOK
<1>5. /\ app' \in [op : {"none", "write", "read", "close"}, pc : Places, left : Nat, done : Nat,
                   at : Slots, n : Nat, nonblock : BOOLEAN]
      /\ app'.op \in {"none", "write"}
      /\ app'.op = "write" => app'.pc = "poll" /\ app'.left > 0 /\ app'.done = app.done + 1
      /\ app'.pc # "advance"
      /\ app'.op = "none" <=> app.left = 1
  <2>1. CASE app.left = 1
    <3>1. app' = Idle
      BY <1>3, <2>1
    <3>2. "idle" \in Places
      BY DEF Places
    <3>3. 0 \in Slots
      BY <1>1 DEF Slots
    <3> HIDE DEF Slots
    <3> QED BY <2>1, <3>1, <3>2, <3>3 DEF Idle
  <2>2. CASE app.left # 1
    <3> DEFINE d == app.done + 1
               l == app.left - 1
    <3>1. d \in Nat /\ l \in Nat /\ l > 0 /\ d = app.done + 1
      BY <1>2, <1>4, <2>2
    <3>2. app' = [app EXCEPT !.left = l, !.done = d]
      BY <1>3, <2>2
    <3> HIDE DEF d, l
    <3>3. app \in [op : {"none", "write", "read", "close"}, pc : Places, left : Nat, done : Nat,
                   at : Slots, n : Nat, nonblock : BOOLEAN]
      BY <1>1 DEF AppOK
    <3> QED BY <1>2, <2>2, <3>1, <3>2, <3>3
  <2> QED BY <2>1, <2>2
<1>6. /\ Copied = 0 /\ Copied' = 0 /\ Freeing = 0 /\ Freeing' = 0
      /\ told' + Ahead' = told + app.done + 1 /\ Ahead = app.done /\ told' \in Nat
  <2>1. Copied = 0 /\ Copied' = 0 /\ Freeing = 0 /\ Freeing' = 0 /\ Ahead = app.done
    BY <1>2, <1>5 DEF Copied, Freeing, Ahead
  <2>2. CASE app.left = 1
    <3>1. told' = told + app.done + 1 /\ Ahead' = 0
      BY <1>3, <1>5, <2>2 DEF Ahead
    <3> QED BY <1>2, <1>4, <2>1, <3>1
  <2>3. CASE app.left # 1
    <3>1. told' = told /\ Ahead' = app.done + 1
      BY <1>3, <1>5, <2>3 DEF Ahead
    <3> QED BY <1>2, <1>4, <2>1, <3>1
  <2> QED BY <2>2, <2>3
<1>7. PICK S \in Nat, F \in Nat :
        /\ seen = Run(0, S) /\ wfifo = Run(S, F)
        /\ told + Ahead = S + F + Fill(tx_in, tx_out)
  BY <1>1 DEF TxOK
<1>8. Fill(tx_in, tx_out) = 0 /\ Fill(tx_in, tx_out)' = 0 /\ Fill(rx_in, rx_out)' = Fill(rx_in, rx_out)
  <2>1. tx_in \in 0 .. BufLen - 1
    BY <1>1 DEF TypeOK, Slots
  <2> QED BY <1>1, <1>3, <1>4, <2>1 DEF Fill
<1> DEFINE e == S + F + 1
           F2 == F + 1
<1>9. /\ e \in Int /\ e = S + F + 1 /\ F2 \in Nat /\ F2 = F + 1 /\ S \in Int /\ F \in Nat
      /\ told + app.done + 1 = e /\ e = S + F2
  <2>1. told + app.done = S + F
    BY <1>6, <1>7, <1>8
  <2> QED BY <1>2, <1>4, <2>1
<1> HIDE DEF e, F2
<1>10. wfifo' = Run(S, F2) /\ Len(wfifo') = F2 /\ Len(wfifo) = F
  <2>1. Append(Run(S, F), e) = Run(S, F2)
    <3>1. S \in Int /\ F \in Nat /\ e \in Int /\ e = S + F + 1 /\ F2 \in Nat /\ F2 = F + 1
      BY <1>9
    <3> QED BY ONLY <3>1, RunAppend, Zenon
  <2>2. Len(Run(S, F)) = F /\ Len(Run(S, F2)) = F2
    BY <1>9, RunIs, Zenon
  <2>3. wfifo' = Append(Run(S, F), e)
    BY <1>3, <1>7, <1>9
  <2> QED BY <1>7, <2>1, <2>2, <2>3
<1>11. TxOK'
  <2>1. Ring(tx_buf', tx_out', 0, S + F2)
    BY DEF Ring
  <2>2. Fill(tx_in', tx_out') + Copied' = 0 /\ told' + Ahead' = S + F2 + Fill(tx_in', tx_out')
    BY <1>6, <1>8, <1>9
  <2> QED BY <1>3, <1>7, <1>9, <1>10, <2>1, <2>2 DEF TxOK
<1>12. RxOK'
  BY <1>1, <1>3, <1>6, RxKept
<1>13. F2 <= Depth
  BY <1>1, <1>2, <1>9, <1>10 DEF WSPACE
<1>14. TypeOK' /\ IsrOK'
  BY <1>1, <1>3, <1>4, <1>10, <1>13 DEF TypeOK, IsrOK
<1>15. AppOK'
  BY <1>3, <1>4, <1>5 DEF AppOK
<1>16. BuildOK' /\ Awake'
  BY <1>1, <1>3, <1>4, <1>5, <1>6 DEF BuildOK, Awake
<1> QED BY <1>11, <1>12, <1>14, <1>15, <1>16 DEF IInv

LEMMA SmallReads ==
  ASSUME JtagAssumption, IInv, SmallRead
  PROVE  IInv'
<1>1. /\ TypeOK /\ AppOK /\ IsrOK /\ BuildOK /\ TxOK /\ RxOK /\ Awake /\ Depth \in Nat
      /\ BufLen \in Nat /\ BufLen > 1
  BY DEF IInv, JtagAssumption
<1>2. app.op = "read" /\ app.pc = "poll" /\ app.left \in Nat /\ app.done \in Nat
  BY <1>1 DEF SmallRead, Running, AppOK
<1>3. /\ \/ app' = Idle
         \/ app.left # 1 /\ app' = [app EXCEPT !.left = @ - 1, !.done = @ + 1]
      /\ \/ rfifo = <<>> /\ got' = got /\ rfifo' = rfifo
         \/ rfifo # <<>> /\ got' = Append(got, Head(rfifo)) /\ rfifo' = Tail(rfifo)
  BY DEF SmallRead
<1>4. /\ UNCHANGED <<small, clock, timeout, host_inactive, irq_enable, control, wfifo, isr, sent>>
      /\ UNCHANGED <<seen, rx_in, rx_out, tx_in, tx_out, rx_buf, tx_buf, told>>
  BY DEF SmallRead, settings, buffers, host
<1>5. small /\ app.left > 0 /\ rx_in = rx_out /\ isr.pc = "off" /\ sent \in Nat
  BY <1>1, <1>2 DEF AppOK, BuildOK
<1>6. /\ app' \in [op : {"none", "write", "read", "close"}, pc : Places, left : Nat, done : Nat,
                   at : Slots, n : Nat, nonblock : BOOLEAN]
      /\ app'.op \in {"none", "read"}
      /\ app'.op = "read" => app'.pc = "poll" /\ app'.left > 0
      /\ app'.pc # "advance"
  <2>1. CASE app' = Idle
    <3>1. "idle" \in Places
      BY DEF Places
    <3>2. 0 \in Slots
      BY <1>1 DEF Slots
    <3> HIDE DEF Slots
    <3> QED BY <2>1, <3>1, <3>2 DEF Idle
  <2>2. CASE app.left # 1 /\ app' = [app EXCEPT !.left = @ - 1, !.done = @ + 1]
    <3> DEFINE d == app.done + 1
               l == app.left - 1
    <3>1. d \in Nat /\ l \in Nat /\ l > 0
      BY <1>2, <1>5, <2>2
    <3>2. app' = [app EXCEPT !.left = l, !.done = d]
      BY <2>2
    <3> HIDE DEF d, l
    <3>3. app \in [op : {"none", "write", "read", "close"}, pc : Places, left : Nat, done : Nat,
                   at : Slots, n : Nat, nonblock : BOOLEAN]
      BY <1>1 DEF AppOK
    <3> QED BY <1>2, <3>1, <3>2, <3>3
  <2> QED BY <1>3, <2>1, <2>2
<1>7. Copied = 0 /\ Copied' = 0 /\ Freeing = 0 /\ Freeing' = 0 /\ Ahead = 0 /\ Ahead' = 0
  BY <1>2, <1>6 DEF Copied, Freeing, Ahead
<1>8. Fill(rx_in, rx_out) = 0 /\ Fill(rx_in, rx_out)' = 0
  <2>1. rx_in \in 0 .. BufLen - 1
    BY <1>1 DEF TypeOK, Slots
  <2> QED BY <1>1, <1>4, <1>5, <2>1 DEF Fill
<1>9. TxOK'
  BY <1>1, <1>4, <1>7, TxKept
<1>10. AppOK' /\ IsrOK' /\ BuildOK' /\ Awake'
  <2>1. AppOK'
    BY <1>4, <1>5, <1>6 DEF AppOK
  <2>2. IsrOK' /\ BuildOK' /\ Awake'
    BY <1>1, <1>4, <1>5, <1>6 DEF IsrOK, BuildOK, Awake
  <2> QED BY <2>1, <2>2
<1>11. CASE got' = got /\ rfifo' = rfifo
  <2>1. RxOK'
    BY <1>1, <1>4, <1>7, <1>11, RxKept
  <2>2. TypeOK'
    BY <1>1, <1>4, <1>11 DEF TypeOK
  <2> QED BY <1>9, <1>10, <2>1, <2>2 DEF IInv
<1>12. CASE rfifo # <<>> /\ got' = Append(got, Head(rfifo)) /\ rfifo' = Tail(rfifo)
  <2>1. PICK R \in Nat, Q \in Nat :
          got = Run(0, R) /\ rfifo = Run(sent - Q, Q) /\ sent = R + (Fill(rx_in, rx_out) - Freeing) + Q
    BY <1>1 DEF RxOK
  <2>2. sent = R + Q /\ sent - Q = R
    BY <1>5, <1>7, <1>8, <2>1
  <2>3. rfifo = Run(R, Q) /\ R \in Int
    BY <2>1, <2>2
  <2>4. Q # 0 /\ Len(rfifo) = Q
    BY <1>12, <2>3, RunIs
  <2> DEFINE R2 == R + 1
             Q2 == Q - 1
  <2>5. R2 \in Int /\ R2 \in Nat /\ R2 = R + 1 /\ Q2 \in Nat /\ Q2 = Q - 1 /\ R2 + Q2 = R + Q
    BY <2>4
  <2> HIDE DEF R2, Q2
  <2>6. Head(rfifo) = R2 /\ rfifo' = Run(R2, Q2)
    <3>1. Head(Run(R, Q)) = R2 /\ Tail(Run(R, Q)) = Run(R2, Q2)
      <4>1. R \in Int /\ Q \in Nat /\ R2 \in Int /\ R2 = R + 1 /\ Q2 \in Nat /\ Q2 = Q - 1
        BY <2>5
      <4> QED BY ONLY <4>1, RunTail, Zenon
    <3> QED BY <1>12, <2>3, <3>1
  <2>7. got' = Run(0, R2)
    <3> DEFINE z == 0
    <3>1. z \in Int /\ R \in Nat /\ R2 \in Int /\ R2 = z + R + 1 /\ R2 \in Nat /\ R2 = R + 1
      BY <2>5
    <3> HIDE DEF z
    <3>2. Append(Run(z, R), R2) = Run(z, R2)
      BY ONLY <3>1, RunAppend, Zenon
    <3> QED BY <1>12, <2>1, <2>6, <3>2 DEF z
  <2>8. Len(rfifo') = Q2
    <3>1. Len(Run(R2, Q2)) = Q2
      BY <2>5, RunIs, Zenon
    <3> QED BY <2>6, <3>1
  <2>9. RxOK'
    <3>1. Fill(rx_in', rx_out') - Freeing' = 0
      BY <1>7, <1>8
    <3>2. Ring(rx_buf', Slot(rx_out' + Freeing'), 0, R2)
      BY DEF Ring
    <3>3. sent' - Q2 = R2 /\ sent' = R2 + 0 + Q2
      BY <1>4, <2>2, <2>5
    <3>4. rfifo' = Run(sent' - Q2, Q2)
      BY <2>6, <3>3
    <3> QED BY <2>5, <2>7, <3>1, <3>2, <3>3, <3>4 DEF RxOK
  <2>10. TypeOK'
    BY <1>1, <1>4, <2>4, <2>5, <2>8 DEF TypeOK
  <2> QED BY <1>9, <1>10, <2>9, <2>10 DEF IInv
<1> QED BY <1>3, <1>11, <1>12

-----------------------------------------------------------------------------
(* The invariant.                                                          *)

LEMMA InitHasIInv ==
  ASSUME JtagAssumption, Init
  PROVE  IInv
<1>1. /\ BufLen \in Nat /\ BufLen > 1 /\ Depth \in Nat /\ Depth > 0 /\ IntMax \in Nat
      /\ DefaultTimeout \in 2 .. IntMax /\ IntMax >= 2
  BY DEF JtagAssumption
<1>2. /\ small \in BOOLEAN /\ clock \in BOOLEAN
      /\ timeout = IF clock THEN DefaultTimeout ELSE IntMax
      /\ host_inactive = 0 /\ control = irq_enable
      /\ irq_enable = IF small THEN {} ELSE {"RE"}
      /\ rx_in = 0 /\ rx_out = 0 /\ tx_in = 0 /\ tx_out = 0
      /\ rx_buf = [i \in Slots |-> 0] /\ tx_buf = [i \in Slots |-> 0]
      /\ wfifo = <<>> /\ rfifo = <<>> /\ isr = IsrOff /\ app = Idle
      /\ sent = 0 /\ seen = <<>> /\ told = 0 /\ got = <<>>
  BY DEF Init
<1>3. 0 \in Slots
  BY <1>1 DEF Slots
<1>4. Run(0, 0) = <<>> /\ Len(<<>>) = 0
  <2>1. 0 \in Nat /\ 0 \in Int
    OBVIOUS
  <2> QED BY <2>1, RunIs
<1>5. /\ app \in [op : {"none", "write", "read", "close"}, pc : Places, left : Nat, done : Nat,
                  at : Slots, n : Nat, nonblock : BOOLEAN]
      /\ app.op = "none"
  <2>1. "idle" \in Places
    BY DEF Places
  <2> HIDE DEF Slots
  <2> QED BY <1>2, <1>3, <2>1 DEF Idle
<1>6. Copied = 0 /\ Freeing = 0 /\ Ahead = 0 /\ Fill(tx_in, tx_out) = 0 /\ Fill(rx_in, rx_out) = 0
  BY <1>2, <1>5 DEF Copied, Freeing, Ahead, Fill
<1>7. TypeOK
  <2>1. timeout \in 2 .. IntMax /\ host_inactive \in 0 .. IntMax - 2
    BY <1>1, <1>2
  <2>2. irq_enable \subseteq {"RE", "WE"}
    BY <1>2
  <2>3. Len(wfifo) <= Depth /\ Len(rfifo) <= Depth
    BY <1>1, <1>2, <1>4
  <2> QED BY <1>2, <1>3, <2>1, <2>2, <2>3 DEF TypeOK
<1>8. AppOK
  BY <1>5 DEF AppOK
<1>9. IsrOK
  BY <1>2 DEF IsrOK, IsrOff
<1>10. BuildOK
  <2>1. rx_buf \in [Slots -> Int] /\ tx_buf \in [Slots -> Int]
    BY <1>2
  <2> QED BY <1>2, <1>5, <2>1 DEF BuildOK, IsrOff
<1>11. TxOK
  <2>1. Ring(tx_buf, tx_out, 0, 0)
    BY DEF Ring
  <2> QED BY <1>2, <1>4, <1>6, <2>1 DEF TxOK
<1>12. RxOK
  <2>1. Ring(rx_buf, Slot(rx_out + Freeing), 0, 0)
    BY DEF Ring
  <2> QED BY <1>2, <1>4, <1>6, <2>1 DEF RxOK
<1>13. Awake
  BY <1>2 DEF Awake
<1> QED BY <1>7, <1>8, <1>9, <1>10, <1>11, <1>12, <1>13 DEF IInv

LEMMA StepKeepsIInv ==
  ASSUME JtagAssumption, IInv, [Next]_vars
  PROVE  IInv'
<1>1. CASE HostTake
  BY <1>1, HostTakes
<1>2. CASE HostSend
  BY <1>2, HostSends
<1>3. CASE HostPoll \/ HostPlug \/ IsrEnter \/ IsrControl \/ Second \/ SetTimeout
  BY <1>3, Devices
<1>4. CASE IsrReceiveFull \/ IsrTransmitted
  BY <1>4, IsrTurnsOff
<1>5. CASE IsrTransmit
  BY <1>5, Transmits
<1>6. CASE IsrReceive
  BY <1>6, Receives
<1>7. CASE \/ CallWrite \/ CallRead \/ CallClose \/ WriteSpin \/ WriteInactive \/ WriteKick
           \/ ReadSpin \/ ReadLate \/ ReadArm \/ ReadNothing \/ Close
  BY <1>7, Callers
<1>8. CASE WriteCopy
  BY <1>8, WriteCopies
<1>9. CASE WriteAdvance
  BY <1>9, WriteAdvances
<1>10. CASE ReadCopy
  BY <1>10, ReadCopies
<1>11. CASE ReadAdvance
  BY <1>11, ReadAdvances
<1>12. CASE SmallWrite
  BY <1>12, SmallWrites
<1>13. CASE SmallRead
  BY <1>13, SmallReads
<1>14. CASE UNCHANGED vars
  <2>1. /\ UNCHANGED <<small, clock, timeout, host_inactive, irq_enable, control, wfifo, rfifo, isr, app>>
        /\ UNCHANGED <<seen, sent, rx_in, rx_out, tx_in, tx_out, rx_buf, tx_buf, told, got>>
    BY <1>14 DEF vars, settings, buffers, device, host, user
  <2>2. TypeOK' /\ AppOK' /\ IsrOK'
    BY <2>1 DEF IInv, TypeOK, AppOK, IsrOK, Fill
  <2>3. BuildOK' /\ Awake'
    BY <2>1 DEF IInv, BuildOK, Awake
  <2>4. Still
    BY <2>1 DEF Still
  <2> QED BY <2>1, <2>2, <2>3, <2>4, AppKept, StillIsInv
<1> QED BY <1>1, <1>2, <1>3, <1>4, <1>5, <1>6, <1>7, <1>8, <1>9, <1>10, <1>11, <1>12, <1>13, <1>14
        DEF Next, Isr, Write, Read

-----------------------------------------------------------------------------
(* The bytes in order, and the interrupts armed.                           *)

LEMMA ThreeRuns ==
  ASSUME NEW a \in Nat, NEW b \in Nat, NEW c \in Nat,
         NEW k \in Int, k = a + b, NEW l \in Nat, l = a + b + c
  PROVE  Joined(Joined(Run(0, a), Run(a, b)), Run(k, c)) = Run(0, l)
<1> DEFINE z == 0
           j == a
           ab == a + b
<1>1. /\ z \in Int /\ a \in Nat /\ b \in Nat /\ j \in Int /\ j = z + a /\ ab \in Nat /\ ab = a + b
      /\ k \in Int /\ k = z + ab /\ l \in Nat /\ l = ab + c
  OBVIOUS
<1> HIDE DEF z, j, ab
<1>2. Joined(Run(z, a), Run(j, b)) = Run(z, ab)
  BY ONLY <1>1, RunConcat, SMTT(30)
<1>3. Joined(Run(z, ab), Run(k, c)) = Run(z, l)
  BY ONLY <1>1, c \in Nat, RunConcat, SMTT(30)
<1> QED BY <1>2, <1>3 DEF z, j

LEMMA RunUpTo ==
  ASSUME NEW n \in Nat
  PROVE  Run(0, n) = [i \in 1 .. n |-> i]
BY DEF Run

LEMMA HeldIs ==
  ASSUME JtagAssumption, NEW buf, NEW in \in Slots, NEW out \in Slots, NEW k \in Int,
         NEW n \in Nat, n = Fill(in, out), Ring(buf, out, n, k)
  PROVE  Held(buf, out, in) = Run(k, n)
<1>1. BufLen \in Nat /\ BufLen > 1 /\ in \in 0 .. BufLen - 1 /\ out \in 0 .. BufLen - 1
  BY DEF JtagAssumption, Slots
<1> DEFINE d == in - out + BufLen
<1>2. Wrap(d) = n
  <2>1. d \in Nat /\ d < 2 * BufLen /\ Slot(d) = Fill(in, out)
    BY <1>1 DEF Slot, Fill
  <2> HIDE DEF d
  <2> QED BY <2>1, WrapIsSlot
<1>3. n < BufLen
  BY <1>1, Filled
<1>4. \A i \in 1 .. n : buf[Wrap(out + i - 1)] = k + i
  <2> SUFFICES ASSUME NEW i \in 1 .. n PROVE buf[Wrap(out + i - 1)] = k + i
    OBVIOUS
  <2> DEFINE j == i - 1
             s == out + j
  <2>1. j \in 0 .. n - 1 /\ k + j + 1 = k + i /\ out + i - 1 = s /\ s \in Nat /\ s < 2 * BufLen
    BY <1>1, <1>3
  <2>2. buf[Slot(s)] = k + j + 1
    BY <2>1 DEF Ring
  <2> HIDE DEF j, s
  <2>3. Wrap(s) = Slot(s)
    BY <2>1, WrapIsSlot
  <2> QED BY <2>1, <2>2, <2>3
<1> HIDE DEF d
<1>5. Held(buf, out, in) = [i \in 1 .. n |-> buf[Wrap(out + i - 1)]]
  BY <1>2 DEF Held, d
<1> QED BY <1>4, <1>5 DEF Run

LEMMA IInvWritten ==
  ASSUME JtagAssumption, IInv
  PROVE  WrittenInOrder
<1> DEFINE C == Fill(tx_in, tx_out)
<1>1. /\ AppOK /\ BuildOK /\ BufLen \in Nat /\ tx_in \in Slots /\ tx_out \in Slots
  BY DEF IInv, JtagAssumption, TypeOK
<1>2. PICK S \in Nat, F \in Nat :
        /\ seen = Run(0, S) /\ wfifo = Run(S, F)
        /\ Ring(tx_buf, tx_out, C + Copied, S + F) /\ told + Ahead = S + F + C
  BY DEF IInv, TxOK
<1>3. C \in 0 .. BufLen - 1 /\ C \in Nat
  BY <1>1, Filled
<1> HIDE DEF C
<1> DEFINE k == S + F
           l == S + F + C
<1>4. k \in Int /\ k = S + F /\ l \in Nat /\ l = S + F + C
  BY <1>3
<1> HIDE DEF k, l
<1>5. Ring(tx_buf, tx_out, C, k)
  <2>1. Copied \in Nat
    BY <1>1 DEF Copied, AppOK
  <2> QED BY <1>2, <1>3, <1>4, <2>1 DEF Ring
<1>6. Held(tx_buf, tx_out, tx_in) = Run(k, C)
  BY <1>1, <1>3, <1>4, <1>5, HeldIs DEF C
<1>7. Joined(Joined(Run(0, S), Run(S, F)), Run(k, C)) = Run(0, l)
  BY ONLY S \in Nat, F \in Nat, <1>3, <1>4, ThreeRuns, SMTT(30)
<1>8. (seen \o wfifo) \o Held(tx_buf, tx_out, tx_in) = [i \in 1 .. l |-> i]
  BY <1>2, <1>4, <1>6, <1>7, RunUpTo DEF Joined
<1>9. told + (IF app.op = "write" THEN app.done ELSE 0) = l
  BY <1>2, <1>4 DEF Ahead
<1> QED BY <1>8, <1>9 DEF WrittenInOrder

LEMMA IInvRead ==
  ASSUME JtagAssumption, IInv
  PROVE  ReadInOrder
<1> DEFINE G == Fill(rx_in, rx_out)
           out == Slot(rx_out + Freeing)
           D == G - Freeing
<1>1. /\ AppOK /\ BuildOK /\ BufLen \in Nat /\ BufLen > 1 /\ rx_in \in Slots /\ rx_out \in Slots
      /\ sent \in Nat
  BY DEF IInv, JtagAssumption, TypeOK, BuildOK
<1>2. PICK R \in Nat, Q \in Nat :
        /\ got = Run(0, R) /\ rfifo = Run(sent - Q, Q)
        /\ Ring(rx_buf, out, D, R) /\ sent = R + D + Q
  BY DEF IInv, RxOK
<1>3. G \in 0 .. BufLen - 1 /\ \A m \in 0 .. G : Fill(rx_in, Slot(rx_out + m)) = G - m
  BY <1>1, Filled
<1>4. Freeing \in 0 .. G
  <2>1. small => Freeing = 0
    BY <1>1 DEF AppOK, Freeing
  <2>2. ~small => Freeing \in 0 .. G
    BY <1>1, <1>3 DEF AppOK, Freeing
  <2> QED BY <1>3, <2>1, <2>2
<1>5. Fill(rx_in, out) = D /\ D \in Nat
  BY <1>3, <1>4
<1>6. out \in Slots /\ Wrap(rx_out + Freeing) = out
  <2>1. rx_out + Freeing \in Nat /\ rx_out + Freeing < 2 * BufLen
    BY <1>1, <1>3, <1>4 DEF Slots
  <2> QED BY <2>1, WrapIsSlot
<1> HIDE DEF out, D, G
<1>7. Held(rx_buf, out, rx_in) = Run(R, D)
  BY <1>1, <1>2, <1>5, <1>6, HeldIs
<1> DEFINE k == sent - Q
<1>8. k \in Int /\ k = R + D /\ sent = R + D + Q
  BY <1>1, <1>2, <1>5
<1> HIDE DEF k
<1>9. Joined(Joined(Run(0, R), Run(R, D)), Run(k, Q)) = Run(0, sent)
  BY ONLY R \in Nat, Q \in Nat, <1>1, <1>5, <1>8, ThreeRuns, SMTT(30)
<1>10. (got \o Held(rx_buf, out, rx_in)) \o rfifo = [i \in 1 .. sent |-> i]
  BY <1>1, <1>2, <1>7, <1>9, RunUpTo DEF Joined, k
<1> QED BY <1>6, <1>10 DEF ReadInOrder, Freeing

(* In either build, with the interrupt routine and the alarm cutting in on *)
(* a call between any two of its steps and the host taking, sending or     *)
(* falling silent at any time: altera_avalon_jtag_uart_write hands on each *)
(* byte of the caller once and in order, a call that gives up reports the  *)
(* bytes it did take, and altera_avalon_jtag_uart_read returns each byte   *)
(* the host sent once and in order.                                        *)
THEOREM BytesInOrder ==
  ASSUME JtagAssumption
  PROVE  Spec => [](TypeOK /\ WrittenInOrder /\ ReadInOrder)
<1>1. Init => IInv
  BY InitHasIInv
<1>2. IInv /\ [Next]_vars => IInv'
  BY StepKeepsIInv
<1>3. IInv => TypeOK /\ WrittenInOrder /\ ReadInOrder
  BY IInvWritten, IInvRead DEF IInv
<1> QED BY <1>1, <1>2, <1>3, PTL DEF Spec

(* The receive interrupt is off only while there is something to read or a *)
(* reader is about to turn it on, the transmit interrupt only while there  *)
(* is nothing to send or a writer is about to: what the interrupt routine  *)
(* turns off is turned on again by the call that made room, or bytes, for  *)
(* it, whichever of the two comes first.                                   *)
THEOREM NeverAsleep ==
  ASSUME JtagAssumption
  PROVE  Spec => []Armed
<1>1. Init => IInv
  BY InitHasIInv
<1>2. IInv /\ [Next]_vars => IInv'
  BY StepKeepsIInv
<1>3. IInv => Armed
  BY DEF IInv, Awake, Armed
<1> QED BY <1>1, <1>2, <1>3, PTL DEF Spec

-----------------------------------------------------------------------------
(* The SPI master.  Its variable sent is declared above.                   *)

CONSTANTS MaxLength, Stale
VARIABLES write_length, read_length, merge, toggle, pc, credits, zeros, ignored, read_data, status,
          txdata, shift, rxdata, selected, exchanged, overrun
Spi == INSTANCE SpiMaster

(* The bytes of a transaction and the replies to those that are to be read. *)
Byte(k) == IF k <= write_length THEN k ELSE Spi!Zero
Bytes(n) == [k \in 1 .. n |-> Byte(k)]
Replies(n) == [k \in 1 .. n |-> write_length + k]

Put == sent + zeros                          \* bytes given to the core
Taken == ignored + Len(read_data)            \* replies taken from it

SpiTypeOK ==
  /\ write_length \in Nat /\ read_length \in Nat /\ write_length + read_length > 0
  /\ pc \in {"select", "discard", "poll", "send", "receive", "drain", "done"}
  /\ sent \in 0 .. write_length /\ zeros \in 0 .. read_length /\ (zeros > 0 => sent = write_length)
  /\ ignored \in 0 .. write_length
  /\ Len(read_data) \in 0 .. read_length /\ read_data = Replies(Len(read_data))
  /\ read_data # <<>> => ignored = write_length
  /\ Len(exchanged) \in Nat /\ exchanged = Bytes(Len(exchanged))
  /\ ~overrun

(* With one credit there is one byte under way: nowhere, in the holding    *)
(* register, in the shift register, or as a reply in RXDATA.               *)
Nowhere == txdata = <<>> /\ shift = <<>> /\ rxdata = <<>> /\ credits = 1
           /\ Put = Taken /\ Len(exchanged) = Taken
SpiHeld == txdata = <<Byte(Put)>> /\ shift = <<>> /\ rxdata = <<>> /\ credits = 0
        /\ Put = Taken + 1 /\ Len(exchanged) = Taken
Shifted == txdata = <<>> /\ shift = <<Byte(Put)>> /\ rxdata = <<>> /\ credits = 0
           /\ Put = Taken + 1 /\ Len(exchanged) = Taken
Back == txdata = <<>> /\ shift = <<>> /\ rxdata = <<Spi!Reply(Put)>> /\ credits = 0
        /\ Put = Taken + 1 /\ Len(exchanged) = Put

SpiIInv ==
  /\ SpiTypeOK
  /\ IF pc \in {"select", "discard"}
     THEN txdata = <<>> /\ shift = <<>> /\ credits = 1 /\ Put = 0 /\ Taken = 0 /\ Len(exchanged) = 0
     ELSE Nowhere \/ SpiHeld \/ Shifted \/ Back
  /\ pc \in {"poll", "send", "receive"} => Taken < write_length + read_length
  /\ pc \in {"drain", "done"} => Taken = write_length + read_length
  /\ pc \in {"send", "receive"} /\ "RRDY" \in status => rxdata # <<>>

-----------------------------------------------------------------------------
LEMMA BytesGrow ==
  ASSUME write_length \in Nat, NEW n \in Nat, NEW s, s = <<Byte(n + 1)>>
  PROVE  Bytes(n) \o s = Bytes(n + 1) /\ Len(Bytes(n)) = n /\ Len(Bytes(n + 1)) = n + 1
<1>1. Bytes(n) \in Seq(Int) /\ s \in Seq(Int) /\ Len(Bytes(n)) = n
  BY DEF Bytes, Byte, Spi!Zero
<1>2. Bytes(n + 1) \in Seq(Int) /\ Len(Bytes(n + 1)) = n + 1
  BY DEF Bytes, Byte, Spi!Zero
<1>3. Len(s) = 1 /\ s[1] = Byte(n + 1)
  OBVIOUS
<1>4. Bytes(n) \o s \in Seq(Int) /\ Len(Bytes(n) \o s) = n + 1
  BY <1>1, <1>3, ConcatProperties
<1>5. \A k \in 1 .. n + 1 : (Bytes(n) \o s)[k] = Bytes(n + 1)[k]
  <2> TAKE k \in 1 .. n + 1
  <2>1. CASE k <= n
    BY <1>1, <1>3, <2>1, ConcatProperties DEF Bytes
  <2>2. CASE k = n + 1
    <3>1. k > Len(Bytes(n)) /\ k <= Len(Bytes(n)) + Len(s) /\ k - Len(Bytes(n)) = 1
      BY <1>1, <1>3, <2>2
    <3>2. (Bytes(n) \o s)[k] = s[k - Len(Bytes(n))]
      BY <1>1, <1>3, <3>1, ConcatProperties
    <3>3. Bytes(n + 1)[k] = Byte(n + 1)
      BY <2>2 DEF Bytes
    <3> QED BY <1>3, <2>2, <3>1, <3>2, <3>3
  <2>3. k <= n \/ k = n + 1
    OBVIOUS
  <2> QED BY <2>1, <2>2, <2>3
<1> QED BY <1>1, <1>2, <1>4, <1>5, SeqEqual

LEMMA RepliesGrow ==
  ASSUME write_length \in Nat, NEW n \in Nat, NEW s, s = <<write_length + n + 1>>
  PROVE  Replies(n) \o s = Replies(n + 1) /\ Len(Replies(n)) = n /\ Len(Replies(n + 1)) = n + 1
<1>1. Replies(n) \in Seq(Int) /\ s \in Seq(Int) /\ Len(Replies(n)) = n
  BY DEF Replies
<1>2. Replies(n + 1) \in Seq(Int) /\ Len(Replies(n + 1)) = n + 1
  BY DEF Replies
<1>3. Len(s) = 1 /\ s[1] = write_length + n + 1
  OBVIOUS
<1>4. Replies(n) \o s \in Seq(Int) /\ Len(Replies(n) \o s) = n + 1
  BY <1>1, <1>3, ConcatProperties
<1>5. \A k \in 1 .. n + 1 : (Replies(n) \o s)[k] = Replies(n + 1)[k]
  <2> TAKE k \in 1 .. n + 1
  <2>1. CASE k <= n
    BY <1>1, <1>3, <2>1, ConcatProperties DEF Replies
  <2>2. CASE k = n + 1
    <3>1. k > Len(Replies(n)) /\ k <= Len(Replies(n)) + Len(s) /\ k - Len(Replies(n)) = 1
      BY <1>1, <1>3, <2>2
    <3>2. (Replies(n) \o s)[k] = s[k - Len(Replies(n))]
      BY <1>1, <1>3, <3>1, ConcatProperties
    <3>3. Replies(n + 1)[k] = write_length + n + 1
      BY <2>2 DEF Replies
    <3> QED BY <1>3, <2>2, <3>1, <3>2, <3>3
  <2>3. k <= n \/ k = n + 1
    OBVIOUS
  <2> QED BY <2>1, <2>2, <2>3
<1> QED BY <1>1, <1>2, <1>4, <1>5, SeqEqual

LEMMA EmptyTuple == ASSUME NEW b PROVE <<b>> # <<>> /\ Len(<<>>) = 0
OBVIOUS

LEMMA SpiInit == MaxLength \in Nat /\ Spi!Init => SpiIInv
<1> SUFFICES ASSUME MaxLength \in Nat, Spi!Init PROVE SpiIInv
  OBVIOUS
<1>1. Replies(0) = <<>> /\ Bytes(0) = <<>>
  BY DEF Replies, Bytes
<1>2. SpiTypeOK
  BY <1>1, EmptyTuple DEF Spi!Init, SpiTypeOK
<1> QED BY <1>2, EmptyTuple DEF Spi!Init, SpiIInv, Put, Taken

LEMMA SpiQuiet ==
  ASSUME SpiIInv, UNCHANGED <<Spi!args, credits, sent, zeros, ignored, read_data, txdata, shift, rxdata,
                              exchanged, overrun>>,
         pc' \in {"discard", "poll", "send", "receive", "drain", "done"},
         pc = "select" <=> pc' = "discard", pc # "discard",
         pc' \in {"send", "receive"} /\ "RRDY" \in status' => rxdata # <<>>,
         pc' \in {"poll", "send", "receive"} => pc \in {"poll", "send", "receive"},
         pc' \in {"drain", "done"} => pc \in {"drain", "done"}
  PROVE  SpiIInv'
<1>1. SpiTypeOK'
  BY DEF SpiIInv, SpiTypeOK, Spi!args, Replies, Bytes, Byte
<1>2. /\ Put' = Put /\ Taken' = Taken /\ Nowhere' = Nowhere /\ SpiHeld' = SpiHeld /\ Shifted' = Shifted
      /\ Back' = Back
  BY DEF Put, Taken, Nowhere, SpiHeld, Shifted, Back, Spi!args, Byte
<1> QED BY <1>1, <1>2 DEF SpiIInv, Spi!args

LEMMA DiscardStep == SpiIInv /\ Spi!Discard => SpiIInv'
<1> SUFFICES ASSUME SpiIInv, Spi!Discard PROVE SpiIInv'
  OBVIOUS
<1>1. SpiTypeOK'
  BY DEF Spi!Discard, SpiIInv, SpiTypeOK, Spi!args, Replies, Bytes, Byte
<1>2. Nowhere'
  BY DEF Spi!Discard, SpiIInv, Nowhere, Put, Taken
<1>3. Taken < write_length + read_length
  BY DEF Spi!Discard, SpiIInv, SpiTypeOK
<1> QED BY <1>1, <1>2, <1>3 DEF Spi!Discard, SpiIInv, Taken, Spi!args

LEMMA LoadStep == SpiIInv /\ Spi!Load => SpiIInv'
<1> SUFFICES ASSUME SpiIInv, Spi!Load PROVE SpiIInv'
  OBVIOUS
<1>1. pc \notin {"select", "discard"} /\ SpiHeld
  BY EmptyTuple DEF Spi!Load, SpiIInv, Nowhere, Shifted, Back
<1>2. SpiTypeOK'
  BY DEF Spi!Load, SpiIInv, SpiTypeOK, Spi!args, Spi!locals, Replies, Bytes, Byte
<1>3. Shifted'
  BY <1>1 DEF Spi!Load, SpiHeld, Shifted, Put, Taken, Byte, Spi!args, Spi!locals
<1> QED BY <1>1, <1>2, <1>3 DEF Spi!Load, SpiIInv, Taken, SpiHeld, Spi!args, Spi!locals

LEMMA ShiftStep == SpiIInv /\ Spi!Shift => SpiIInv'
<1> SUFFICES ASSUME SpiIInv, Spi!Shift PROVE SpiIInv'
  OBVIOUS
<1>1. pc \notin {"select", "discard"} /\ Shifted
  BY EmptyTuple DEF Spi!Shift, SpiIInv, Nowhere, SpiHeld, Back
<1> DEFINE n == Len(exchanged)
<1>2. n \in Nat /\ write_length \in Nat /\ exchanged = Bytes(n) /\ Put = n + 1
  BY <1>1 DEF SpiIInv, SpiTypeOK, Shifted
<1>3. exchanged' = Bytes(n + 1) /\ Len(exchanged') = n + 1
  <2>1. shift = <<Byte(n + 1)>>
    BY <1>1, <1>2 DEF Shifted
  <2>2. exchanged' = exchanged \o shift
    BY DEF Spi!Shift
  <2> HIDE DEF n
  <2> QED BY <1>2, <2>1, <2>2, BytesGrow
<1>4. SpiTypeOK'
  <2>1. ~overrun' /\ UNCHANGED <<Spi!args, Spi!locals>>
    BY <1>1 DEF Spi!Shift, SpiIInv, SpiTypeOK, Shifted
  <2>2. Len(exchanged') \in Nat /\ exchanged' = Bytes(Len(exchanged))'
    BY <1>2, <1>3, <2>1 DEF Bytes, Byte, Spi!args
  <2> QED BY <2>1, <2>2 DEF SpiIInv, SpiTypeOK, Spi!args, Spi!locals, Replies
<1>5. Back'
  BY <1>1, <1>2, <1>3 DEF Spi!Shift, Shifted, Back, Put, Taken, Spi!Reply, Spi!args, Spi!locals
<1> QED BY <1>1, <1>4, <1>5, EmptyTuple DEF Spi!Shift, SpiIInv, Taken, Back, Spi!args, Spi!locals

LEMMA SendStep == SpiIInv /\ Spi!Send => SpiIInv'
<1> SUFFICES ASSUME SpiIInv, Spi!Send PROVE SpiIInv'
  OBVIOUS
<1>1. /\ pc = "send" /\ pc' = "receive" /\ Taken < write_length + read_length
      /\ UNCHANGED <<Spi!args, ignored, read_data, status, shift, rxdata, selected, exchanged, overrun>>
      /\ Nowhere \/ SpiHeld \/ Shifted \/ Back
      /\ "RRDY" \in status => rxdata # <<>>
  BY DEF Spi!Send, SpiIInv
<1>2. /\ write_length \in Nat /\ read_length \in Nat /\ sent \in 0 .. write_length /\ zeros \in 0 .. read_length
      /\ ignored \in 0 .. write_length /\ Len(read_data) \in 0 .. read_length
  BY DEF SpiIInv, SpiTypeOK
<1>3. UNCHANGED <<write_length, read_length, merge, toggle>>
  BY <1>1 DEF Spi!args
<1>4. ASSUME UNCHANGED <<credits, sent, zeros, txdata>>
      PROVE  SpiIInv'
  <2>1. SpiTypeOK'
    BY <1>1, <1>3, <1>4 DEF SpiIInv, SpiTypeOK, Replies, Bytes, Byte
  <2>2. /\ Put' = Put /\ Taken' = Taken /\ Nowhere' = Nowhere /\ SpiHeld' = SpiHeld /\ Shifted' = Shifted
        /\ Back' = Back
    BY <1>1, <1>3, <1>4 DEF Put, Taken, Nowhere, SpiHeld, Shifted, Back, Byte
  <2> QED BY <1>1, <1>3, <2>1, <2>2 DEF SpiIInv
<1>5. ASSUME credits > 0, credits' = credits - 1, sent' \in 0 .. write_length, zeros' \in 0 .. read_length,
             sent' + zeros' = sent + zeros + 1, zeros' > 0 => sent' = write_length,
             txdata' = <<Byte(sent + zeros + 1)>>
      PROVE  SpiIInv'
  <2>1. SpiTypeOK'
    BY <1>1, <1>3, <1>5 DEF SpiIInv, SpiTypeOK, Replies, Bytes, Byte
  <2>2. Nowhere
    BY <1>1, <1>5 DEF SpiHeld, Shifted, Back
  <2>3. SpiHeld'
    <3>1. Put' = Put + 1 /\ Put' = sent + zeros + 1 /\ Taken' = Taken
      BY <1>1, <1>2, <1>5 DEF Put, Taken
    <3>2. txdata' = <<Byte(Put)'>>
      BY <1>3, <1>5, <3>1 DEF Byte
    <3> QED BY <1>1, <1>5, <2>2, <3>1, <3>2 DEF Nowhere, SpiHeld
  <2> QED BY <1>1, <1>3, <2>1, <2>2, <2>3 DEF SpiIInv, Taken
<1>6. CASE "TRDY" \notin status \/ credits <= 0
  BY <1>4, <1>6 DEF Spi!Send
<1>7. CASE ~("TRDY" \notin status \/ credits <= 0)
  <2>1. Nowhere /\ credits = 1
    BY <1>1, <1>7 DEF Nowhere, SpiHeld, Shifted, Back
  <2>2. zeros > 0 => sent = write_length
    BY DEF SpiIInv, SpiTypeOK
  <2>3. CASE sent < write_length
    <3>1. sent' = sent + 1 /\ txdata' = <<sent + 1>> /\ credits' = credits - 1 /\ UNCHANGED zeros
      BY <1>7, <2>3 DEF Spi!Send
    <3>2. zeros = 0
      BY <1>2, <2>2, <2>3
    <3>3. Byte(sent + zeros + 1) = sent + 1
      <4>1. sent + zeros + 1 = sent + 1 /\ sent + 1 <= write_length
        BY <1>2, <2>3, <3>2
      <4> QED BY <4>1 DEF Byte
    <3> QED BY <1>2, <1>5, <2>1, <2>3, <3>1, <3>2, <3>3
  <2>4. CASE ~(sent < write_length) /\ zeros < read_length
    <3>1. zeros' = zeros + 1 /\ txdata' = <<Spi!Zero>> /\ credits' = credits - 1 /\ UNCHANGED sent
      BY <1>7, <2>4 DEF Spi!Send
    <3>2. sent = write_length
      BY <1>2, <2>4
    <3>3. Byte(sent + zeros + 1) = Spi!Zero
      BY <1>2, <3>2 DEF Byte
    <3> QED BY <1>2, <1>5, <2>1, <2>4, <3>1, <3>2, <3>3
  <2>5. CASE ~(sent < write_length) /\ ~(zeros < read_length)
    BY <1>1, <1>2, <2>1, <2>5 DEF Nowhere, Put
  <2> QED BY <2>3, <2>4, <2>5
<1> QED BY <1>6, <1>7

LEMMA ReceiveStep == SpiIInv /\ Spi!Receive => SpiIInv'
<1> SUFFICES ASSUME SpiIInv, Spi!Receive PROVE SpiIInv'
  OBVIOUS
<1>1. /\ pc = "receive" /\ Taken < write_length + read_length
      /\ UNCHANGED <<Spi!args, sent, zeros, status, txdata, shift, selected, exchanged, overrun>>
      /\ Nowhere \/ SpiHeld \/ Shifted \/ Back
      /\ "RRDY" \in status => rxdata # <<>>
  BY DEF Spi!Receive, SpiIInv
<1>2. /\ write_length \in Nat /\ read_length \in Nat /\ sent \in 0 .. write_length /\ zeros \in 0 .. read_length
      /\ ignored \in 0 .. write_length /\ Len(read_data) \in 0 .. read_length
  BY DEF SpiIInv, SpiTypeOK
<1>3. UNCHANGED <<write_length, read_length, merge, toggle>>
  BY <1>1 DEF Spi!args
<1>4. CASE "RRDY" \notin status
  <2>1. pc' = "poll" /\ UNCHANGED <<credits, ignored, read_data, rxdata>>
    BY <1>4 DEF Spi!Receive
  <2>2. SpiTypeOK'
    BY <1>1, <1>3, <2>1 DEF SpiIInv, SpiTypeOK, Replies, Bytes, Byte
  <2>3. /\ Taken' = Taken /\ Nowhere' = Nowhere /\ SpiHeld' = SpiHeld /\ Shifted' = Shifted /\ Back' = Back
    BY <1>1, <1>3, <2>1 DEF Put, Taken, Nowhere, SpiHeld, Shifted, Back, Byte
  <2> QED BY <1>1, <1>3, <2>1, <2>2, <2>3 DEF SpiIInv
<1>5. CASE "RRDY" \in status
  <2>1. Back
    BY <1>1, <1>5 DEF Nowhere, SpiHeld, Shifted
  <2>2. /\ rxdata' = <<>> /\ credits' = 1
        /\ IF ignored < write_length
           THEN ignored' = ignored + 1 /\ UNCHANGED read_data
           ELSE read_data' = read_data \o rxdata /\ UNCHANGED ignored
        /\ pc' = IF ignored' = write_length /\ Len(read_data') = read_length THEN "drain" ELSE "poll"
    BY <1>5, <2>1 DEF Spi!Receive, Back
  <2>3. /\ ignored' \in 0 .. write_length
        /\ Len(read_data') \in 0 .. read_length /\ read_data' = Replies(Len(read_data'))
        /\ read_data' # <<>> => ignored' = write_length
        /\ ignored' + Len(read_data') = ignored + Len(read_data) + 1
    <3>1. CASE ignored < write_length
      <4>1. ignored' = ignored + 1 /\ read_data' = read_data /\ read_data = <<>>
        BY <1>2, <2>2, <3>1 DEF SpiIInv, SpiTypeOK
      <4> QED BY <1>2, <3>1, <4>1 DEF SpiIInv, SpiTypeOK
    <3>2. CASE ~(ignored < write_length)
      <4> DEFINE n == Len(read_data)
      <4>1. ignored = write_length /\ ignored' = ignored /\ read_data' = read_data \o rxdata
        BY <1>2, <2>2, <3>2
      <4>2. Put = write_length + n + 1 /\ n \in Nat /\ read_data = Replies(n)
        BY <1>2, <2>1, <4>1 DEF SpiIInv, SpiTypeOK, Back, Taken
      <4>3. rxdata = <<write_length + n + 1>>
        BY <2>1, <4>2 DEF Back, Spi!Reply
      <4>4. n + 1 <= read_length
        BY <1>1, <1>2, <4>1 DEF Taken
      <4> HIDE DEF n
      <4>5. read_data' = Replies(n + 1) /\ Len(read_data') = n + 1
        BY <1>2, <4>1, <4>2, <4>3, RepliesGrow
      <4> QED BY <1>2, <4>1, <4>2, <4>4, <4>5 DEF n
    <3> QED BY <3>1, <3>2
  <2>4. SpiTypeOK'
    BY <1>1, <1>3, <2>2, <2>3 DEF SpiIInv, SpiTypeOK, Replies, Bytes, Byte
  <2>5. Taken' = Taken + 1
    BY <2>3 DEF Taken
  <2>6. Nowhere'
    BY <1>1, <2>1, <2>2, <2>5 DEF Nowhere, Back, Put
  <2>7. Taken' = write_length + read_length <=> ignored' = write_length /\ Len(read_data') = read_length
    BY <1>2, <2>3 DEF Taken
  <2>8. Taken' <= write_length + read_length
    BY <1>2, <2>3 DEF Taken
  <2> QED BY <1>2, <1>3, <2>2, <2>3, <2>4, <2>6, <2>7, <2>8 DEF SpiIInv, Taken
<1> QED BY <1>4, <1>5

LEMMA SpiStep == SpiIInv /\ [Spi!Next]_(Spi!vars) => SpiIInv'
<1> SUFFICES ASSUME SpiIInv, [Spi!Next]_(Spi!vars) PROVE SpiIInv'
  OBVIOUS
<1>1. CASE Spi!Select
  BY <1>1, SpiQuiet DEF Spi!Select
<1>2. CASE Spi!Poll
  <2>1. "RRDY" \in Spi!Status => rxdata # <<>>
    BY DEF Spi!Status
  <2> QED BY <1>2, <2>1, SpiQuiet DEF Spi!Poll, Spi!core
<1>3. CASE Spi!Drain
  BY <1>3, SpiQuiet DEF Spi!Drain
<1>4. CASE UNCHANGED Spi!vars
  <2>1. SpiTypeOK'
    BY <1>4 DEF Spi!vars, Spi!args, Spi!locals, Spi!core, SpiIInv, SpiTypeOK, Replies, Bytes, Byte
  <2>2. /\ Put' = Put /\ Taken' = Taken /\ Nowhere' = Nowhere /\ SpiHeld' = SpiHeld /\ Shifted' = Shifted
        /\ Back' = Back
    BY <1>4 DEF Spi!vars, Spi!args, Spi!locals, Spi!core, Put, Taken, Nowhere, SpiHeld, Shifted, Back, Byte
  <2> QED BY <1>4, <2>1, <2>2 DEF Spi!vars, Spi!args, Spi!locals, Spi!core, SpiIInv
<1> QED BY <1>1, <1>2, <1>3, <1>4, DiscardStep, LoadStep, ShiftStep, SendStep, ReceiveStep DEF Spi!Next, Spi!Transaction

(***************************************************************************)
(* However the core and the polling loop interleave, no reply is lost, the *)
(* slave sees the command and a zero for every byte that is read, and what *)
(* is read are the replies to those zeros; for transactions of any length. *)
(***************************************************************************)
THEOREM ExchangedInOrder == ASSUME MaxLength \in Nat PROVE Spi!Spec => []Spi!Exchange
<1>1. SpiIInv => Spi!Exchange
  <2> SUFFICES ASSUME SpiIInv, pc = "done"
               PROVE  exchanged = Bytes(write_length + read_length) /\ read_data = Replies(read_length)
    BY DEF Spi!Exchange, SpiIInv, SpiTypeOK, Bytes, Byte, Replies, Spi!Reply
  <2>1. /\ write_length \in Nat /\ read_length \in Nat /\ sent \in 0 .. write_length /\ zeros \in 0 .. read_length
        /\ ignored \in 0 .. write_length /\ Len(read_data) \in 0 .. read_length
        /\ Taken = write_length + read_length /\ (Nowhere \/ SpiHeld \/ Shifted \/ Back)
    BY DEF SpiIInv, SpiTypeOK
  <2>2. Len(read_data) = read_length /\ Put <= write_length + read_length
    BY <2>1 DEF Taken, Put
  <2>3. Len(exchanged) = write_length + read_length
    BY <2>1, <2>2 DEF Nowhere, SpiHeld, Shifted, Back
  <2> QED BY <2>2, <2>3 DEF SpiIInv, SpiTypeOK
<1> QED BY SpiInit, SpiStep, <1>1, PTL DEF Spi!Spec

-----------------------------------------------------------------------------
(* The EPCS flash.  Flash is its instance.                                 *)

CONSTANTS Blocks, BlockSize, PageSize, ChunkSize, FourBytes, Bits, Requests, MaxCalls, MaxResets
VARIABLES mem, big, wel, wip, addr4, four_bytes_mode, registered, call, cmd, req, before, returned,
          calls, resets
Flash == INSTANCE EpcsFlash

(* A number by its quotient and its remainder.                             *)
LEMMA Parts ==
  ASSUME NEW H \in Nat \ {0}, NEW n \in Int
  PROVE  \E q \in Int, r \in 0 .. H - 1 :
           n = H * q + r /\ n \div H = q /\ n % H = r
<1> DEFINE q == n \div H
           r == n % H
<1>1. q \in Int /\ r \in 0 .. H - 1 /\ n = H * q + r
  OBVIOUS
<1> HIDE DEF q, r
<1>2. n \div H = q /\ n % H = r
  BY DEF q, r
<1> QED BY <1>1, <1>2

(* The multiples of H around a number.                                     *)
LEMMA Multiples ==
  ASSUME NEW H \in Nat \ {0}, NEW a \in Nat
  PROVE  /\ a \div H \in Nat /\ (a \div H) * H \in Nat /\ (a \div H + 1) * H \in Nat
         /\ (a \div H) * H <= a /\ a < (a \div H + 1) * H
         /\ a % H = a - (a \div H) * H
         /\ H - (a % H) = (a \div H + 1) * H - a
<1>1. PICK q \in Int, r \in 0 .. H - 1 :
        a = H * q + r /\ a \div H = q /\ a % H = r
  BY Parts
<1>2. q >= 0
  <2> SUFFICES ASSUME q <= -1 PROVE FALSE
    BY <1>1
  <2>1. H * q <= 0 - H
    BY <1>1
  <2> QED BY <1>1, <2>1
<1>3. q * H = H * q /\ (q + 1) * H = H * q + H /\ H * q \in Nat
  BY <1>1, <1>2
<1> QED BY <1>1, <1>2, <1>3

(* Past the next multiple is in a later part.                              *)
LEMMA MultiplesOrder ==
  ASSUME NEW H \in Nat \ {0}, NEW a \in Nat, NEW b \in Nat
  PROVE  (b >= (a \div H + 1) * H) <=> (b \div H >= a \div H + 1)
<1>1. PICK q \in Int, r \in 0 .. H - 1 :
        a = H * q + r /\ a \div H = q /\ a % H = r
  BY Parts
<1>2. PICK p \in Int, s \in 0 .. H - 1 :
        b = H * p + s /\ b \div H = p /\ b % H = s
  BY Parts
<1>3. (q + 1) * H = H * q + H /\ H * q \in Int /\ H * p \in Int
  BY <1>1, <1>2
<1>4. CASE p >= q + 1
  <2>1. H * p >= H * q + H
    BY <1>1, <1>2, <1>4
  <2> QED BY <1>1, <1>2, <1>3, <1>4, <2>1
<1>5. CASE p <= q
  <2>1. H * p <= H * q
    BY <1>1, <1>2, <1>5
  <2> QED BY <1>1, <1>2, <1>3, <1>5, <2>1
<1> QED BY <1>1, <1>2, <1>4, <1>5

(* Blocks and pages.                                                        *)

NextBlockStart(a) == (Flash!BlockOf(a) + 1) * BlockSize
NextPageStart(a) == (Flash!PageOf(a) + 1) * PageSize

(* A block around its address.                                             *)
LEMMA BlockBounds ==
  ASSUME Flash!FlashAssumption, NEW a \in Nat
  PROVE  /\ Flash!BlockOf(a) \in Nat /\ NextBlockStart(a) \in Nat
         /\ Flash!BlockOf(a) * BlockSize \in Nat /\ Flash!BlockOf(a) * BlockSize <= a
         /\ a < NextBlockStart(a)
         /\ BlockSize - (a % BlockSize) = NextBlockStart(a) - a
<1>1. BlockSize \in Nat \ {0}
  BY DEF Flash!FlashAssumption
<1> QED BY <1>1, Multiples DEF Flash!BlockOf, NextBlockStart

(* Blocks are in the order of their addresses.                             *)
LEMMA BlockOrder ==
  ASSUME Flash!FlashAssumption, NEW a \in Nat, NEW b \in Nat
  PROVE  /\ b >= NextBlockStart(a) <=> Flash!BlockOf(b) > Flash!BlockOf(a)
         /\ b <= a => Flash!BlockOf(b) <= Flash!BlockOf(a)
         /\ a <= b /\ b < NextBlockStart(a) => Flash!BlockOf(b) = Flash!BlockOf(a)
<1>1. BlockSize \in Nat \ {0}
  BY DEF Flash!FlashAssumption
<1>2. Flash!BlockOf(a) \in Nat /\ Flash!BlockOf(b) \in Nat
      /\ NextBlockStart(a) \in Nat /\ NextBlockStart(b) \in Nat
      /\ a < NextBlockStart(a) /\ b < NextBlockStart(b)
  BY BlockBounds
<1>3. b >= NextBlockStart(a) <=> Flash!BlockOf(b) >= Flash!BlockOf(a) + 1
  BY <1>1, MultiplesOrder DEF Flash!BlockOf, NextBlockStart
<1>4. a >= NextBlockStart(b) <=> Flash!BlockOf(a) >= Flash!BlockOf(b) + 1
  BY <1>1, MultiplesOrder DEF Flash!BlockOf, NextBlockStart
<1> QED BY <1>2, <1>3, <1>4

(* A multiple of H, divided by H.                                          *)
LEMMA MultipleDivided ==
  ASSUME NEW H \in Nat \ {0}, NEW k \in Nat
  PROVE  k * H \in Nat /\ (k * H) \div H = k
<1>1. PICK a \in Nat : a = k * H
  OBVIOUS
<1>2. PICK q \in Int, r \in 0 .. H - 1 :
        a = H * q + r /\ a \div H = q /\ a % H = r
  BY Parts
<1>3. PICK e \in Int : e = k - q
  BY <1>2
<1>4. H * e = r
  <2>1. H * k = H * q + H * e
    BY <1>2, <1>3
  <2> QED BY <1>1, <1>2, <2>1
<1>5. e = 0
  <2>1. CASE e >= 1
    <3>1. H * e >= H
      BY <2>1
    <3> QED BY <1>2, <1>4, <3>1
  <2>2. CASE e <= -1
    <3>1. H * e <= 0 - H
      BY <2>2
    <3> QED BY <1>2, <1>4, <3>1
  <2> QED BY <2>1, <2>2
<1> QED BY <1>1, <1>2, <1>3, <1>5

(* The addresses are the numbers below Size.                               *)
LEMMA AddressesAreNatural ==
  ASSUME Flash!FlashAssumption
  PROVE  /\ Flash!Address \subseteq Nat /\ Flash!Size \in Nat
         /\ \A a \in Nat : a \in Flash!Address <=> a < Flash!Size
<1>1. Blocks \in Nat \ {0} /\ BlockSize \in Nat \ {0}
  BY DEF Flash!FlashAssumption
<1>2. PICK s \in Nat : s = Flash!Size
  BY <1>1 DEF Flash!Size
<1> QED BY <1>2 DEF Flash!Address

(* The start of a block, and of the next one.                              *)
LEMMA BlockStarts ==
  ASSUME Flash!FlashAssumption, NEW a \in Flash!Address
  PROVE  /\ NextBlockStart(a) <= Flash!Size
         /\ Flash!BlockOf(a) * BlockSize \in Flash!Address
         /\ Flash!BlockOf(Flash!BlockOf(a) * BlockSize) = Flash!BlockOf(a)
         /\ Flash!BlockOf(NextBlockStart(a)) = Flash!BlockOf(a) + 1
<1>1. Blocks \in Nat \ {0} /\ BlockSize \in Nat \ {0}
  BY DEF Flash!FlashAssumption
<1>2. a \in Nat /\ Flash!Size \in Nat /\ a < Flash!Size
  BY AddressesAreNatural
<1>3. PICK q \in Nat : q = Flash!BlockOf(a)
  BY <1>2, BlockBounds
<1>4. q * BlockSize \in Nat /\ q * BlockSize <= a
  BY <1>2, <1>3, BlockBounds
<1>5. (q * BlockSize) \div BlockSize = q
  BY <1>1, MultipleDivided
<1>6. PICK p \in Nat : p = q + 1
  OBVIOUS
<1>7. (p * BlockSize) \div BlockSize = p
  BY <1>1, MultipleDivided
<1>8. ASSUME q >= Blocks PROVE FALSE
  <2>1. q * BlockSize >= Blocks * BlockSize
    BY <1>1, <1>8
  <2> QED BY <1>2, <1>4, <2>1 DEF Flash!Size
<1>9. p * BlockSize <= Flash!Size
  BY <1>1, <1>6, <1>8 DEF Flash!Size
<1>10. q * BlockSize \in Flash!Address
  BY <1>2, <1>4, AddressesAreNatural
<1> QED BY <1>3, <1>5, <1>6, <1>7, <1>9, <1>10 DEF Flash!BlockOf, NextBlockStart

(* A page around its address.                                              *)
LEMMA PageBounds ==
  ASSUME Flash!FlashAssumption, NEW a \in Nat
  PROVE  /\ NextPageStart(a) \in Nat /\ a < NextPageStart(a)
         /\ \A b \in Nat : a <= b /\ b < NextPageStart(a) =>
              Flash!PageOf(b) = Flash!PageOf(a)
         /\ Flash!PageOf(a) * PageSize + (a % PageSize) = a
<1>1. PageSize \in Nat \ {0}
  BY DEF Flash!FlashAssumption
<1>2. /\ Flash!PageOf(a) \in Nat /\ Flash!PageOf(a) * PageSize \in Nat
      /\ NextPageStart(a) \in Nat /\ a < NextPageStart(a)
      /\ a % PageSize = a - Flash!PageOf(a) * PageSize
  BY <1>1, Multiples DEF Flash!PageOf, NextPageStart
<1>3. ASSUME NEW b \in Nat, a <= b, b < NextPageStart(a)
      PROVE  Flash!PageOf(b) = Flash!PageOf(a)
  <2>1. b >= NextPageStart(a) <=> Flash!PageOf(b) >= Flash!PageOf(a) + 1
    BY <1>1, MultiplesOrder DEF Flash!PageOf, NextPageStart
  <2>2. a >= NextPageStart(b) <=> Flash!PageOf(a) >= Flash!PageOf(b) + 1
    BY <1>1, MultiplesOrder DEF Flash!PageOf, NextPageStart
  <2>3. Flash!PageOf(b) \in Nat /\ NextPageStart(b) \in Nat /\ b < NextPageStart(b)
    BY <1>1, Multiples DEF Flash!PageOf, NextPageStart
  <2> QED BY <1>2, <1>3, <2>1, <2>2, <2>3
<1> QED BY <1>2, <1>3

(* The minimum of two numbers.                                             *)
LEMMA Smaller ==
  ASSUME NEW a \in Int, NEW b \in Int
  PROVE  Flash!Min({a, b}) = IF a <= b THEN a ELSE b
<1>1. PICK c \in {a, b} : c = IF a <= b THEN a ELSE b
  OBVIOUS
<1>2. \A y \in {a, b} : c <= y
  BY <1>1
<1>3. \A x \in {a, b} : (\A y \in {a, b} : x <= y) => x = c
  BY <1>1
<1> QED BY <1>1, <1>2, <1>3 DEF Flash!Min

(* What of a call lies in its first block.                                 *)
LEMMA InBlockIs ==
  ASSUME Flash!FlashAssumption, NEW a \in Nat, NEW n \in Nat \ {0}
  PROVE  /\ Flash!InBlock(a, n) = IF NextBlockStart(a) - a <= n THEN NextBlockStart(a) - a ELSE n
         /\ Flash!InBlock(a, n) \in 1 .. n
<1>1. /\ NextBlockStart(a) \in Nat /\ a < NextBlockStart(a)
      /\ BlockSize - (a % BlockSize) = NextBlockStart(a) - a
  BY BlockBounds
<1>2. PICK room \in Nat : room = NextBlockStart(a) - a
  BY <1>1
<1>3. Flash!InBlock(a, n) = Flash!Min({room, n})
  BY <1>1, <1>2 DEF Flash!InBlock
<1>4. Flash!Min({room, n}) = IF room <= n THEN room ELSE n
  BY Smaller
<1> QED BY <1>1, <1>2, <1>3, <1>4

-----------------------------------------------------------------------------
(* The invariant.                                                          *)

Contents == SUBSET Bits
Ops == {"compare", "erase", "write"}
CallRecords ==
  [op : Ops \cup {"none", "boot"}, offset : Int, src : Seq(Contents), n : Int, done : Int]
Commands ==
  [name : {"none", "read", "se", "pp"},
   pc : {"none", "enter", "wren", "poll", "send", "exit", "done"}, addr : Int, data : Seq(Contents)]

FlashTypeOK ==
  /\ mem \in [Flash!Address -> Contents] /\ before \in [Flash!Address -> Contents]
  /\ {big, wel, addr4, four_bytes_mode, registered, returned} \subseteq BOOLEAN
  /\ wip \in [busy : BOOLEAN, cmd : Commands] /\ cmd \in Commands
  /\ call \in CallRecords
  /\ req \in [offset : Int, src : Seq(Contents)]

(* What the last write asked for, and the blocks it may touch.             *)
Asked(a) == req.offset \in Flash!Address /\ req.offset <= a /\ a < req.offset + Len(req.src)
Touched(a) == \E b \in Nat : Asked(b) /\ Flash!BlockOf(a) = Flash!BlockOf(b)
AsWritten(a) ==
  IF Asked(a) THEN mem[a] = req.src[a - req.offset + 1] ELSE mem[a] \in {before[a], Flash!Erased}

(* The call is at one block: those below are as written, those above as    *)
(* they were, and its data are what was asked from its offset on.          *)
InPresent(a) == Flash!BlockOf(a) = Flash!BlockOf(call.offset)

Position ==
  /\ req.offset \in Flash!Address /\ call.offset \in Flash!Address
  /\ req.offset <= call.offset /\ call.offset < req.offset + Len(req.src)
  /\ Len(call.src) = req.offset + Len(req.src) - call.offset
  /\ \A j \in 1 .. Len(call.src) : call.src[j] = req.src[call.offset - req.offset + j]
  /\ call.n \in 1 .. Len(call.src) /\ call.done \in 0 .. call.n - 1
  /\ call.offset + call.n <= NextBlockStart(call.offset)
  /\ call.n = Len(call.src) \/ call.offset + call.n = NextBlockStart(call.offset)
  /\ \A a \in Flash!Address : InPresent(a) /\ a < call.offset => ~Asked(a)

OtherBlocks ==
  \A a \in Flash!Address :
    /\ Flash!BlockOf(a) < Flash!BlockOf(call.offset) => AsWritten(a)
    /\ Flash!BlockOf(a) > Flash!BlockOf(call.offset) => mem[a] = before[a]

InCall == call.op \in Ops => Position /\ OtherBlocks

(* Where the command is and what the device is doing for it.               *)
Commanding ==
  call.op \in Ops =>
    /\ cmd.pc # "none" /\ (cmd.pc = "wren" => call.op # "compare")
    /\ wip.busy => /\ cmd.pc = "poll" /\ call.op # "compare" /\ wip.cmd.name = cmd.name
                   /\ wip.cmd.addr = cmd.addr /\ wip.cmd.data = cmd.data
    /\ cmd.pc = "send" /\ call.op # "compare" => wel
    /\ cmd.pc \in {"enter", "exit"} => four_bytes_mode
    /\ cmd.pc \in {"wren", "send", "poll", "exit"} => addr4 = four_bytes_mode
    /\ cmd.pc = "done" => ~addr4

ToSend == cmd.pc \in {"enter", "wren", "send"} \/ (cmd.pc = "poll" /\ wip.busy)

Comparing ==
  call.op = "compare" =>
    /\ cmd.name = "read" /\ cmd.addr = call.offset + call.done
    /\ Len(cmd.data) \in 1 .. call.n - call.done
    /\ \A a \in Flash!Address : InPresent(a) => mem[a] = before[a]
    /\ \A j \in 1 .. call.done : mem[call.offset + j - 1] = call.src[j]
    /\ cmd.pc \in {"exit", "done"} =>
         \A j \in 1 .. Len(cmd.data) : cmd.data[j] = mem[call.offset + call.done + j - 1]

Erasing ==
  call.op = "erase" =>
    /\ cmd.name = "se" /\ cmd.addr \in Flash!Address /\ InPresent(cmd.addr) /\ call.done = 0
    /\ ~ToSend => \A a \in Flash!Address : InPresent(a) => mem[a] = Flash!Erased

Upto == IF ToSend THEN call.done ELSE call.done + Len(cmd.data)

Writing ==
  call.op = "write" =>
    /\ cmd.name = "pp" /\ cmd.addr = call.offset + call.done
    /\ Len(cmd.data) \in 1 .. call.n - call.done
    /\ \A j \in 1 .. Len(cmd.data) :
         cmd.data[j] = call.src[call.done + j] /\ Flash!PageOf(cmd.addr + j - 1) = Flash!PageOf(cmd.addr)
    /\ \A a \in Flash!Address : InPresent(a) =>
         mem[a] = IF call.offset <= a /\ a < call.offset + Upto
                  THEN call.src[a - call.offset + 1] ELSE Flash!Erased

(* Whatever the device is doing, for a call or after a reset, it does to a *)
(* block of the last write.                                                *)
Underway ==
  wip.busy =>
    /\ wip.cmd.name \in {"se", "pp"} /\ wip.cmd.addr \in Flash!Address /\ Touched(wip.cmd.addr)
    /\ wip.cmd.name = "pp" =>
         \A j \in 1 .. Len(wip.cmd.data) :
           /\ Flash!PageOf(wip.cmd.addr + j - 1) = Flash!PageOf(wip.cmd.addr)
           /\ Flash!BlockOf(wip.cmd.addr + j - 1) = Flash!BlockOf(wip.cmd.addr)

Outside == \A a \in Flash!Address : mem[a] = before[a] \/ Touched(a)

(* A device that is busy at boot is given no commands.                     *)
Modes ==
  /\ registered => four_bytes_mode = big
  /\ addr4 \/ four_bytes_mode => big
  /\ call.op \notin Ops => cmd = Flash!NoCmd
  /\ call.op = "boot" => ~registered
  /\ call.op \in Ops => registered
  /\ call.op = "none" /\ registered => ~wip.busy
  /\ returned => call.op = "none" /\ registered

Finished ==
  returned =>
    /\ \A a \in Flash!Address : AsWritten(a)
    /\ req.offset \in Flash!Address /\ req.src # <<>> => ~addr4

FlashIInv ==
  /\ FlashTypeOK /\ InCall /\ Commanding /\ Comparing /\ Erasing /\ Writing
  /\ Underway /\ Outside /\ Modes /\ Finished

-----------------------------------------------------------------------------
(* Facts about the invariant.                                              *)
LEMMA Records ==
  /\ Flash!NoCmd \in Commands /\ Flash!NoCmd.pc = "none"
  /\ Flash!NoCall \in CallRecords /\ Flash!NoCall.op = "none"
  /\ [Flash!NoCall EXCEPT !.op = "boot"] \in CallRecords
  /\ [Flash!NoCall EXCEPT !.op = "boot"].op = "boot"
<1>1. <<>> \in Seq(Contents)
  OBVIOUS
<1>2. Flash!NoCmd \in Commands /\ Flash!NoCmd.pc = "none"
  BY <1>1 DEF Flash!NoCmd, Commands
<1>3. Flash!NoCall \in CallRecords /\ Flash!NoCall.op = "none"
  BY <1>1 DEF Flash!NoCall, CallRecords
<1>4. /\ [Flash!NoCall EXCEPT !.op = "boot"] \in CallRecords
      /\ [Flash!NoCall EXCEPT !.op = "boot"].op = "boot"
  BY <1>3 DEF CallRecords
<1> QED BY <1>2, <1>3, <1>4

(* A command is task for a call.                                           *)
LEMMA Active ==
  ASSUME FlashIInv, cmd.pc # "none"
  PROVE  call.op \in Ops
<1> QED BY Records DEF FlashIInv, Modes

(* The bytes of a call lie in its block, which the write may touch.        *)
LEMMA Within ==
  ASSUME Flash!FlashAssumption, FlashTypeOK, Position
  PROVE  /\ call.offset \in Nat /\ Flash!BlockOf(call.offset) \in Nat
         /\ \A k \in 0 .. call.n - 1 :
              call.offset + k \in Flash!Address /\ InPresent(call.offset + k)
         /\ \A a \in Flash!Address : InPresent(a) => Touched(a)
<1>1. /\ call.offset \in Nat /\ call.offset < Flash!Size /\ req.offset \in Nat /\ Flash!Size \in Nat
      /\ call.n \in Nat
  BY AddressesAreNatural DEF Position
<1>2. NextBlockStart(call.offset) <= Flash!Size /\ NextBlockStart(call.offset) \in Nat
      /\ Flash!BlockOf(call.offset) \in Nat
  BY <1>1, BlockStarts, BlockBounds DEF Position
<1>3. ASSUME NEW k \in 0 .. call.n - 1
      PROVE  call.offset + k \in Flash!Address /\ InPresent(call.offset + k)
  <2>1. PICK a \in Nat : a = call.offset + k
    BY <1>1
  <2>2. a < NextBlockStart(call.offset) /\ call.offset <= a
    <3>1. PICK off \in Nat, n \in Nat, next \in Nat :
            off = call.offset /\ n = call.n /\ next = NextBlockStart(call.offset)
      BY <1>1, <1>2
    <3>2. off + n <= next
      BY <3>1 DEF Position
    <3>3. k <= n - 1 /\ a = off + k /\ k \in Nat
      BY <2>1, <3>1
    <3>4. a < next /\ off <= a
      BY <3>2, <3>3
    <3> QED BY <3>1, <3>4
  <2>3. a \in Flash!Address
    BY <1>1, <1>2, <2>2, AddressesAreNatural
  <2>4. Flash!BlockOf(a) = Flash!BlockOf(call.offset)
    BY <1>1, <2>2, BlockOrder
  <2> QED BY <2>1, <2>3, <2>4 DEF InPresent
<1>4. Asked(call.offset)
  BY DEF Position, Asked
<1>5. \A a \in Flash!Address : InPresent(a) => Touched(a)
  BY <1>1, <1>4 DEF InPresent, Touched
<1> QED BY <1>1, <1>2, <1>3, <1>5

(* What stays while a command goes on and memory does not change.          *)
LEMMA CommandGoesOn ==
  ASSUME FlashIInv, UNCHANGED <<mem, call, req, before>>,
         cmd'.name = cmd.name, cmd'.addr = cmd.addr, cmd'.data = cmd.data,
         call.op # "compare" => (ToSend' <=> ToSend),
         call.op = "compare" /\ cmd'.pc \in {"exit", "done"} => cmd.pc \in {"exit", "done"}
  PROVE  InCall' /\ Outside' /\ Comparing' /\ Erasing' /\ Writing'
<1>1. InCall'
  BY DEF FlashIInv, InCall, Position, OtherBlocks, AsWritten, Asked,
     InPresent, NextBlockStart, Flash!BlockOf
<1>2. Outside'
  BY DEF FlashIInv, Outside, Touched, Asked, Flash!BlockOf
<1>3. Comparing'
  BY DEF FlashIInv, Comparing, InPresent, Flash!BlockOf
<1>4. Erasing'
  BY DEF FlashIInv, Erasing, InPresent, Flash!BlockOf
<1>5. Writing'
  <2>1. call.op = "write" => Upto' = Upto
    BY DEF Upto
  <2>2. call'.op = "write" => Writing
    BY DEF FlashIInv
  <2> QED BY <2>1, <2>2 DEF Writing, InPresent, Flash!BlockOf, Flash!PageOf
<1> QED BY <1>1, <1>2, <1>3, <1>4, <1>5

-----------------------------------------------------------------------------
(* The steps of a command.                                                 *)
(* enter_4_bytes_mode: the device is idle and takes it.                    *)
LEMMA EnterStep ==
  ASSUME Flash!FlashAssumption, FlashIInv, Flash!enter_4_bytes_mode
  PROVE  FlashIInv'
<1>1. /\ cmd.pc = "enter" /\ addr4' = IF wip.busy THEN addr4 ELSE TRUE
      /\ cmd' = [cmd EXCEPT !.pc = IF cmd.name = "read" THEN "poll" ELSE "wren"]
      /\ wel' = wel \/ wel' \in BOOLEAN
      /\ UNCHANGED <<mem, big, wip, four_bytes_mode, registered, call, req, before, returned>>
  BY DEF Flash!enter_4_bytes_mode, Flash!Sending, Flash!LatchAfterMode, Flash!driver, Flash!ghosts
<1>2. call.op \in Ops
  BY <1>1, Active
<1>3. /\ cmd' \in Commands /\ cmd'.pc = IF cmd.name = "read" THEN "poll" ELSE "wren"
      /\ cmd'.name = cmd.name /\ cmd'.addr = cmd.addr /\ cmd'.data = cmd.data
  BY <1>1 DEF FlashIInv, FlashTypeOK, Commands
<1>4. (cmd.name = "read") <=> (call.op = "compare")
  BY <1>2 DEF Ops, FlashIInv, Comparing, Erasing, Writing
<1>5. ~wip.busy /\ four_bytes_mode /\ addr4' = TRUE
  BY <1>1, <1>2 DEF FlashIInv, Commanding
<1>6. InCall' /\ Outside' /\ Comparing' /\ Erasing' /\ Writing'
  BY <1>1, <1>3, <1>4, <1>5, CommandGoesOn DEF ToSend
<1>7. FlashTypeOK'
  <2>1. wel \in BOOLEAN /\ wel' \in BOOLEAN
    BY <1>1 DEF FlashIInv, FlashTypeOK
  <2> QED BY <1>1, <1>3, <1>5, <2>1 DEF FlashIInv, FlashTypeOK
<1>8. Commanding'
  BY <1>1, <1>2, <1>3, <1>4, <1>5 DEF FlashIInv, FlashTypeOK, Commanding
<1>9. Modes' /\ Finished'
  BY <1>1, <1>2, <1>5 DEF FlashIInv, Modes, Finished, Ops
<1>10. Underway'
  BY <1>1, <1>5 DEF Underway
<1> QED BY <1>6, <1>7, <1>8, <1>9, <1>10 DEF FlashIInv

(* write_enable: the latch is set when the command comes.                  *)
LEMMA WriteEnableStep ==
  ASSUME Flash!FlashAssumption, FlashIInv, Flash!write_enable
  PROVE  FlashIInv'
<1>1. /\ cmd.pc = "wren" /\ wel' = (wel \/ ~wip.busy)
      /\ cmd' = [cmd EXCEPT !.pc = "send"]
      /\ UNCHANGED <<mem, big, addr4, wip, four_bytes_mode, registered, call, req, before, returned>>
  BY DEF Flash!write_enable, Flash!Sending, Flash!driver, Flash!ghosts
<1>2. call.op \in Ops
  BY <1>1, Active
<1>3. /\ cmd' \in Commands /\ cmd'.pc = "send"
      /\ cmd'.name = cmd.name /\ cmd'.addr = cmd.addr /\ cmd'.data = cmd.data
  BY <1>1 DEF FlashIInv, FlashTypeOK, Commands
<1>4. ~wip.busy /\ call.op # "compare" /\ addr4 = four_bytes_mode
  BY <1>1, <1>2 DEF FlashIInv, Commanding
<1>5. wel' = TRUE
  BY <1>1, <1>4
<1>6. InCall' /\ Outside' /\ Comparing' /\ Erasing' /\ Writing'
  BY <1>1, <1>3, <1>4, CommandGoesOn DEF ToSend
<1>7. FlashTypeOK'
  BY <1>1, <1>3, <1>5 DEF FlashIInv, FlashTypeOK
<1>8. Commanding'
  BY <1>1, <1>2, <1>3, <1>4, <1>5 DEF Commanding
<1>9. Modes' /\ Finished'
  BY <1>1, <1>2 DEF FlashIInv, Modes, Finished, Ops
<1>10. Underway'
  BY <1>1, <1>4 DEF Underway
<1> QED BY <1>6, <1>7, <1>8, <1>9, <1>10 DEF FlashIInv

(* The device takes the command: within a block, within a page.            *)
LEMMA StartStep ==
  ASSUME Flash!FlashAssumption, FlashIInv, Flash!Start
  PROVE  FlashIInv'
<1>1. /\ cmd.pc = "send" /\ cmd.name # "read"
      /\ wip' = IF wip.busy \/ ~wel \/ addr4 # four_bytes_mode THEN wip
                ELSE [busy |-> TRUE, cmd |-> [cmd EXCEPT !.pc = "none"]]
      /\ cmd' = [cmd EXCEPT !.pc = "poll"]
      /\ UNCHANGED <<mem, big, addr4, wel, four_bytes_mode, registered, call, req, before, returned>>
  BY DEF Flash!Start, Flash!Sending, Flash!driver, Flash!ghosts
<1>2. call.op \in Ops
  BY <1>1, Active
<1>3. /\ cmd' \in Commands /\ cmd'.pc = "poll"
      /\ cmd'.name = cmd.name /\ cmd'.addr = cmd.addr /\ cmd'.data = cmd.data
  BY <1>1 DEF FlashIInv, FlashTypeOK, Commands
<1>4. call.op # "compare"
  BY <1>1 DEF FlashIInv, Comparing
<1>5. ~wip.busy /\ wel /\ addr4 = four_bytes_mode
  BY <1>1, <1>2, <1>4 DEF FlashIInv, Commanding
<1>6. PICK task \in Commands :
        /\ task = [cmd EXCEPT !.pc = "none"]
        /\ task.name = cmd.name /\ task.addr = cmd.addr /\ task.data = cmd.data
  <2>1. /\ [cmd EXCEPT !.pc = "none"] \in Commands
        /\ [cmd EXCEPT !.pc = "none"].name = cmd.name
        /\ [cmd EXCEPT !.pc = "none"].addr = cmd.addr
        /\ [cmd EXCEPT !.pc = "none"].data = cmd.data
    BY DEF FlashIInv, FlashTypeOK, Commands
  <2> QED BY <2>1
<1>7. wip' = [busy |-> TRUE, cmd |-> task]
  BY <1>1, <1>5, <1>6
<1>8. wip' \in [busy : BOOLEAN, cmd : Commands] /\ wip'.busy /\ wip'.cmd = task
  BY <1>7
<1>9. InCall' /\ Outside' /\ Comparing' /\ Erasing' /\ Writing'
  BY <1>1, <1>3, <1>4, <1>8, CommandGoesOn DEF ToSend
<1>10. FlashTypeOK'
  BY <1>1, <1>3, <1>8 DEF FlashIInv, FlashTypeOK
<1>11. Commanding'
  BY <1>1, <1>3, <1>4, <1>5, <1>6, <1>8 DEF Commanding
<1>12. Modes' /\ Finished'
  BY <1>1, <1>2, <1>3 DEF FlashIInv, Modes, Finished, Ops
<1>13. Underway'
  <2>1. Position /\ FlashTypeOK
    BY <1>2 DEF FlashIInv, InCall
  <2>2. cmd.name \in {"se", "pp"} /\ cmd.addr \in Flash!Address /\ InPresent(cmd.addr)
    <3>1. CASE call.op = "erase"
      BY <3>1 DEF FlashIInv, Erasing
    <3>2. CASE call.op = "write"
      <4>1. call.done \in 0 .. call.n - 1
        BY <2>1 DEF Position
      <4> QED BY <2>1, <3>2, <4>1, Within DEF FlashIInv, Writing
    <3> QED BY <1>2, <1>4, <3>1, <3>2 DEF Ops
  <2>3. Touched(cmd.addr)
    BY <2>1, <2>2, Within
  <2>4. ASSUME cmd.name = "pp", NEW j \in 1 .. Len(cmd.data)
        PROVE  /\ Flash!PageOf(cmd.addr + j - 1) = Flash!PageOf(cmd.addr)
               /\ Flash!BlockOf(cmd.addr + j - 1) = Flash!BlockOf(cmd.addr)
    <3>1. call.op = "write"
      BY <1>2, <1>4, <2>4 DEF Ops, FlashIInv, Erasing
    <3>2. /\ cmd.addr = call.offset + call.done /\ Len(cmd.data) \in 1 .. call.n - call.done
          /\ Flash!PageOf(cmd.addr + j - 1) = Flash!PageOf(cmd.addr)
      BY <3>1 DEF FlashIInv, Writing
    <3>3. PICK k \in 0 .. call.n - 1 : k = call.done + j - 1
      BY <2>1, <3>2 DEF Position
    <3>4. cmd.addr + j - 1 = call.offset + k
      <4>1. call.offset \in Nat
        BY <2>1, Within
      <4>2. call.done \in Nat /\ j \in Nat
        BY <2>1 DEF Position
      <4> QED BY <3>2, <3>3, <4>1, <4>2
    <3>5. InPresent(call.offset + k)
      BY <2>1, Within
    <3> QED BY <2>2, <3>2, <3>4, <3>5 DEF InPresent
  <2>5. Touched(cmd.addr)' /\ Flash!Address' = Flash!Address
    BY <1>1, <2>3 DEF Touched, Asked, Flash!BlockOf
  <2>6. wip'.cmd.name = cmd.name /\ wip'.cmd.addr = cmd.addr /\ wip'.cmd.data = cmd.data
    BY <1>6, <1>8
  <2>7. Touched(wip.cmd.addr)'
    BY <1>1, <2>3, <2>6 DEF Touched, Asked, Flash!BlockOf
  <2> QED BY <2>2, <2>4, <2>6, <2>7 DEF Underway, Flash!PageOf, Flash!BlockOf
<1> QED BY <1>9, <1>10, <1>11, <1>12, <1>13 DEF FlashIInv

(* await_wip_released: a command is over when the device is.               *)
LEMMA AwaitStep ==
  ASSUME Flash!FlashAssumption, FlashIInv, Flash!await_wip_released
  PROVE  FlashIInv'
<1>1. /\ cmd.pc = "poll" /\ ~wip.busy
      /\ cmd' = [cmd EXCEPT !.pc = IF cmd.name = "read" THEN "send"
                                   ELSE IF four_bytes_mode THEN "exit" ELSE "done"]
      /\ UNCHANGED <<mem, big, addr4, wel, wip, four_bytes_mode, registered, call, req, before, returned>>
  BY DEF Flash!await_wip_released, Flash!Sending, Flash!Leave, Flash!device, Flash!driver, Flash!ghosts
<1>2. call.op \in Ops
  BY <1>1, Active
<1>3. /\ cmd' \in Commands
      /\ cmd'.pc = IF cmd.name = "read" THEN "send" ELSE IF four_bytes_mode THEN "exit" ELSE "done"
      /\ cmd'.name = cmd.name /\ cmd'.addr = cmd.addr /\ cmd'.data = cmd.data
  BY <1>1 DEF FlashIInv, FlashTypeOK, Commands
<1>4. (cmd.name = "read") <=> (call.op = "compare")
  BY <1>2 DEF Ops, FlashIInv, Comparing, Erasing, Writing
<1>5. addr4 = four_bytes_mode
  BY <1>1, <1>2 DEF FlashIInv, Commanding
<1>6. InCall' /\ Outside' /\ Comparing' /\ Erasing' /\ Writing'
  BY <1>1, <1>3, <1>4, CommandGoesOn DEF ToSend
<1>7. FlashTypeOK'
  BY <1>1, <1>3 DEF FlashIInv, FlashTypeOK
<1>8. Commanding'
  BY <1>1, <1>3, <1>4, <1>5 DEF Commanding
<1>9. Modes' /\ Finished'
  BY <1>1, <1>2 DEF FlashIInv, Modes, Finished, Ops
<1>10. Underway'
  BY <1>1 DEF Underway
<1> QED BY <1>6, <1>7, <1>8, <1>9, <1>10 DEF FlashIInv

(* exit_4_bytes_mode.                                                      *)
LEMMA ExitStep ==
  ASSUME Flash!FlashAssumption, FlashIInv, Flash!exit_4_bytes_mode
  PROVE  FlashIInv'
<1>1. /\ cmd.pc = "exit" /\ addr4' = IF wip.busy THEN addr4 ELSE FALSE
      /\ cmd' = [cmd EXCEPT !.pc = "done"]
      /\ wel' = wel \/ wel' \in BOOLEAN
      /\ UNCHANGED <<mem, big, wip, four_bytes_mode, registered, call, req, before, returned>>
  BY DEF Flash!exit_4_bytes_mode, Flash!Sending, Flash!LatchAfterMode, Flash!driver, Flash!ghosts
<1>2. call.op \in Ops
  BY <1>1, Active
<1>3. /\ cmd' \in Commands /\ cmd'.pc = "done"
      /\ cmd'.name = cmd.name /\ cmd'.addr = cmd.addr /\ cmd'.data = cmd.data
  BY <1>1 DEF FlashIInv, FlashTypeOK, Commands
<1>4. ~wip.busy /\ addr4' = FALSE
  BY <1>1, <1>2 DEF FlashIInv, Commanding
<1>5. InCall' /\ Outside' /\ Comparing' /\ Erasing' /\ Writing'
  BY <1>1, <1>3, <1>4, CommandGoesOn DEF ToSend
<1>6. FlashTypeOK'
  <2>1. wel \in BOOLEAN /\ wel' \in BOOLEAN
    BY <1>1 DEF FlashIInv, FlashTypeOK
  <2> QED BY <1>1, <1>3, <1>4, <2>1 DEF FlashIInv, FlashTypeOK
<1>7. Commanding'
  BY <1>1, <1>3, <1>4 DEF Commanding
<1>8. Modes' /\ Finished'
  BY <1>1, <1>2, <1>4 DEF FlashIInv, Modes, Finished, Ops
<1>9. Underway'
  BY <1>1, <1>4 DEF Underway
<1> QED BY <1>5, <1>6, <1>7, <1>8, <1>9 DEF FlashIInv

-----------------------------------------------------------------------------
(* The device.                                                             *)

(* A page that is programmed within itself.                                *)
LEMMA ProgrammedInPage ==
  ASSUME Flash!FlashAssumption, mem \in [Flash!Address -> Contents],
         NEW first \in Flash!Address, NEW data \in Seq(Contents),
         \A j \in 1 .. Len(data) : Flash!PageOf(first + j - 1) = Flash!PageOf(first)
  PROVE  /\ Flash!Programmed(mem, first, data) \in [Flash!Address -> Contents]
         /\ \A b \in Flash!Address :
              Flash!Programmed(mem, first, data)[b] =
                IF first <= b /\ b < first + Len(data)
                THEN mem[b] \cap data[b - first + 1] ELSE mem[b]
<1>1. first \in Nat /\ Flash!Address \subseteq Nat /\ Len(data) \in Nat
  BY AddressesAreNatural, LenProperties
<1>2. ASSUME NEW j \in 1 .. Len(data)
      PROVE  Flash!PageOf(first) * PageSize + ((first + j - 1) % PageSize) = first + j - 1
  <2>1. PICK a \in Nat : a = first + j - 1
    BY <1>1
  <2>2. Flash!PageOf(a) * PageSize + (a % PageSize) = a /\ Flash!PageOf(a) = Flash!PageOf(first)
    BY <2>1, PageBounds
  <2> QED BY <2>1, <2>2
<1>3. PICK p : p = Flash!PageOf(first) * PageSize
  OBVIOUS
<1>4. Flash!Programmed(mem, first, data) =
        [b \in Flash!Address |->
           mem[b] \cap {x \in Bits : \A j \in 1 .. Len(data) :
                          p + ((first + j - 1) % PageSize) = b => x \in data[j]}]
  BY <1>3 DEF Flash!Programmed
<1>5. ASSUME NEW b \in Flash!Address
      PROVE  mem[b] \cap {x \in Bits : \A j \in 1 .. Len(data) :
                            p + ((first + j - 1) % PageSize) = b => x \in data[j]}
               = IF first <= b /\ b < first + Len(data) THEN mem[b] \cap data[b - first + 1] ELSE mem[b]
  <2>1. mem[b] \subseteq Bits /\ b \in Nat
    BY <1>1 DEF Contents
  <2>2. CASE first <= b /\ b < first + Len(data)
    <3>1. PICK k \in 1 .. Len(data) : k = b - first + 1
      BY <1>1, <2>1, <2>2
    <3>2. data[k] \subseteq Bits
      BY ElementOfSeq DEF Contents
    <3>3. \A j \in 1 .. Len(data) : (p + ((first + j - 1) % PageSize) = b) <=> (j = k)
      BY <1>1, <1>2, <1>3, <2>1, <3>1
    <3>4. {x \in Bits : \A j \in 1 .. Len(data) :
             p + ((first + j - 1) % PageSize) = b => x \in data[j]} = data[k]
      BY <3>2, <3>3
    <3> QED BY <2>2, <3>1, <3>4
  <2>3. CASE ~(first <= b /\ b < first + Len(data))
    <3>1. \A j \in 1 .. Len(data) : p + ((first + j - 1) % PageSize) # b
      BY <1>1, <1>2, <1>3, <2>1, <2>3
    <3>2. {x \in Bits : \A j \in 1 .. Len(data) :
             p + ((first + j - 1) % PageSize) = b => x \in data[j]} = Bits
      BY <3>1
    <3> QED BY <2>1, <2>3, <3>2
  <2> QED BY <2>2, <2>3
<1>6. \A b \in Flash!Address : mem[b] \subseteq Bits
  BY DEF Contents
<1>7. Flash!Programmed(mem, first, data) \in [Flash!Address -> Contents]
  BY <1>4, <1>6 DEF Contents
<1> QED BY <1>4, <1>5, <1>7

(* The device ends an operation, of this call or from before a reset.      *)
LEMMA FinishStep ==
  ASSUME Flash!FlashAssumption, FlashIInv, Flash!Finish
  PROVE  FlashIInv'
<1>1. /\ wip.busy
      /\ mem' = IF wip.cmd.name = "se"
                THEN [a \in Flash!Address |->
                        IF Flash!BlockOf(a) = Flash!BlockOf(wip.cmd.addr) THEN Flash!Erased ELSE mem[a]]
                ELSE Flash!Programmed(mem, wip.cmd.addr, wip.cmd.data)
      /\ wip' = Flash!Ready /\ wel' = FALSE
      /\ UNCHANGED <<big, addr4, four_bytes_mode, registered, call, cmd, req, before, returned>>
  BY DEF Flash!Finish, Flash!driver, Flash!ghosts
<1>2. PICK task \in Commands : task = wip.cmd
  BY DEF FlashIInv, FlashTypeOK
<1>3. /\ task.name \in {"se", "pp"} /\ task.addr \in Flash!Address /\ Touched(task.addr)
      /\ task.name = "pp" =>
           \A j \in 1 .. Len(task.data) :
             /\ Flash!PageOf(task.addr + j - 1) = Flash!PageOf(task.addr)
             /\ Flash!BlockOf(task.addr + j - 1) = Flash!BlockOf(task.addr)
  BY <1>1, <1>2 DEF FlashIInv, Underway
<1>4. wip' \in [busy : BOOLEAN, cmd : Commands] /\ wip'.busy = FALSE
  BY <1>1, Records DEF Flash!Ready
<1>5. task.addr \in Nat /\ Flash!Address \subseteq Nat /\ task.data \in Seq(Contents)
      /\ Len(task.data) \in Nat
  BY <1>2, <1>3, AddressesAreNatural, LenProperties DEF Commands
<1>6. task.name = "se" =>
        \A a \in Flash!Address :
          mem'[a] = IF Flash!BlockOf(a) = Flash!BlockOf(task.addr) THEN Flash!Erased ELSE mem[a]
  BY <1>1, <1>2
<1>7. task.name = "pp" =>
        /\ mem' \in [Flash!Address -> Contents]
        /\ \A a \in Flash!Address :
             mem'[a] = IF task.addr <= a /\ a < task.addr + Len(task.data)
                       THEN mem[a] \cap task.data[a - task.addr + 1] ELSE mem[a]
  <2> SUFFICES ASSUME task.name = "pp"
               PROVE  /\ mem' \in [Flash!Address -> Contents]
                      /\ \A a \in Flash!Address :
                           mem'[a] = IF task.addr <= a /\ a < task.addr + Len(task.data)
                                     THEN mem[a] \cap task.data[a - task.addr + 1] ELSE mem[a]
    OBVIOUS
  <2>1. PICK first \in Flash!Address, data \in Seq(Contents) : first = task.addr /\ data = task.data
    BY <1>3, <1>5
  <2>2. mem' = Flash!Programmed(mem, first, data)
    BY <1>1, <1>2, <2>1
  <2>3. \A j \in 1 .. Len(data) : Flash!PageOf(first + j - 1) = Flash!PageOf(first)
    BY <1>3, <2>1
  <2>4. mem \in [Flash!Address -> Contents]
    BY DEF FlashIInv, FlashTypeOK
  <2>5. /\ Flash!Programmed(mem, first, data) \in [Flash!Address -> Contents]
        /\ \A b \in Flash!Address :
             Flash!Programmed(mem, first, data)[b] =
               IF first <= b /\ b < first + Len(data)
               THEN mem[b] \cap data[b - first + 1] ELSE mem[b]
    BY <2>3, <2>4, ProgrammedInPage
  <2> QED BY <2>1, <2>2, <2>5
<1>8. mem' \in [Flash!Address -> Contents]
  <2>1. CASE task.name = "se"
    <3>1. Flash!Erased \in Contents
      BY DEF Flash!Erased, Contents
    <3> QED BY <1>1, <1>2, <2>1, <3>1 DEF FlashIInv, FlashTypeOK
  <2> QED BY <1>3, <1>7, <2>1
<1>9. \A a \in Flash!Address : Flash!BlockOf(a) # Flash!BlockOf(task.addr) => mem'[a] = mem[a]
  <2>1. CASE task.name = "se"
    BY <1>6, <2>1
  <2>2. CASE task.name = "pp"
    <3>1. ASSUME NEW a \in Flash!Address, task.addr <= a, a < task.addr + Len(task.data)
          PROVE  Flash!BlockOf(a) = Flash!BlockOf(task.addr)
      <4>1. PICK j \in 1 .. Len(task.data) : j = a - task.addr + 1
        BY <1>5, <3>1
      <4>2. task.addr + j - 1 = a
        BY <1>5, <4>1
      <4> QED BY <1>3, <2>2, <4>2
    <3> QED BY <1>7, <2>2, <3>1
  <2> QED BY <1>3, <2>1, <2>2
<1>10. Outside'
  <2>1. \A a \in Flash!Address : Flash!BlockOf(a) = Flash!BlockOf(task.addr) => Touched(a)
    BY <1>3 DEF Touched
  <2>2. \A a \in Flash!Address : mem'[a] = before[a] \/ Touched(a)
    BY <1>9, <2>1 DEF FlashIInv, Outside
  <2> QED BY <1>1, <2>2 DEF Outside, Touched, Asked, Flash!BlockOf
<1>11. FlashTypeOK'
  BY <1>1, <1>4, <1>8 DEF FlashIInv, FlashTypeOK
<1>12. ~returned
  BY <1>1 DEF FlashIInv, Modes
<1>13. Modes' /\ Finished' /\ Underway' /\ Commanding'
  BY <1>1, <1>4, <1>12 DEF FlashIInv, Modes, Finished, Underway, Commanding
<1>14. CASE call.op \notin Ops
  BY <1>1, <1>10, <1>11, <1>13, <1>14 DEF FlashIInv, InCall, Comparing, Erasing, Writing, Ops
<1>15. CASE call.op \in Ops
  <2>1. /\ cmd.pc = "poll" /\ call.op # "compare"
        /\ task.name = cmd.name /\ task.addr = cmd.addr /\ task.data = cmd.data
    BY <1>1, <1>2, <1>15 DEF FlashIInv, Commanding
  <2>2. Position /\ OtherBlocks /\ FlashTypeOK
    BY <1>15 DEF FlashIInv, InCall
  <2>3. call.offset \in Nat /\ Flash!BlockOf(call.offset) \in Nat /\ call.done \in 0 .. call.n - 1
        /\ call.n \in Nat
    BY <2>2, Within DEF Position
  <2>4. InPresent(task.addr)
    <3>1. CASE call.op = "erase"
      BY <2>1, <3>1 DEF FlashIInv, Erasing
    <3>2. CASE call.op = "write"
      BY <2>1, <2>2, <2>3, <3>2, Within DEF FlashIInv, Writing
    <3> QED BY <1>15, <2>1, <3>1, <3>2 DEF Ops
  <2>5. \A a \in Flash!Address : ~InPresent(a) => mem'[a] = mem[a]
    BY <1>9, <2>4 DEF InPresent
  <2>6. Position'
    BY <1>1, <2>2 DEF Position,
            InPresent, Asked, NextBlockStart, Flash!BlockOf
  <2>7. OtherBlocks'
    <3>1. ASSUME NEW a \in Flash!Address, Flash!BlockOf(a) < Flash!BlockOf(call.offset)
          PROVE  AsWritten(a)'
      <4>1. mem'[a] = mem[a]
        <5>1. Flash!BlockOf(a) \in Nat
          BY AddressesAreNatural, BlockBounds
        <5> QED BY <2>3, <2>5, <3>1, <5>1 DEF InPresent
      <4> QED BY <1>1, <2>2, <3>1, <4>1 DEF OtherBlocks, AsWritten, Asked
    <3>2. ASSUME NEW a \in Flash!Address, Flash!BlockOf(a) > Flash!BlockOf(call.offset)
          PROVE  mem'[a] = before[a]
      <4>1. Flash!BlockOf(a) \in Nat
        BY AddressesAreNatural, BlockBounds
      <4> QED BY <2>2, <2>3, <2>5, <3>2, <4>1 DEF InPresent, OtherBlocks
    <3> QED BY <1>1, <3>1, <3>2 DEF OtherBlocks, Flash!BlockOf
  <2>8. ~ToSend' /\ ToSend
    BY <1>1, <1>4, <2>1 DEF ToSend
  <2>9. Erasing'
    <3> SUFFICES ASSUME call.op = "erase" PROVE Erasing'
      BY <1>1 DEF Erasing
    <3>1. Erasing
      BY DEF FlashIInv
    <3>2. \A a \in Flash!Address : InPresent(a) => mem'[a] = Flash!Erased
      BY <1>6, <2>1, <2>4, <3>1 DEF Erasing, InPresent
    <3> QED BY <1>1, <3>1, <3>2 DEF Erasing, InPresent, Flash!BlockOf
  <2>10. Writing'
    <3> SUFFICES ASSUME call.op = "write" PROVE Writing'
      BY <1>1 DEF Writing
    <3>1. Writing
      BY DEF FlashIInv
    <3>2. Upto' = call.done + Len(cmd.data) /\ Upto = call.done
      BY <1>1, <2>8 DEF Upto
    <3>3. PICK off \in Nat, done \in Nat, len \in Nat :
            off = call.offset /\ done = call.done /\ len = Len(cmd.data)
      BY <1>5, <2>1, <2>3
    <3>4. task.addr = off + done
      BY <2>1, <3>1, <3>3 DEF Writing
    <3>5. ASSUME NEW a \in Flash!Address, InPresent(a)
          PROVE  mem'[a] = IF off <= a /\ a < off + (done + len)
                           THEN call.src[a - off + 1] ELSE Flash!Erased
      <4>0. PICK b \in Nat : b = a
        BY <1>5
      <4>1. mem'[b] = IF off + done <= b /\ b < off + done + len
                      THEN mem[b] \cap task.data[b - (off + done) + 1] ELSE mem[b]
        BY <1>7, <2>1, <3>1, <3>3, <3>4, <4>0 DEF Writing
      <4>2. mem[b] = IF off <= b /\ b < off + done
                     THEN call.src[b - off + 1] ELSE Flash!Erased
        BY <3>1, <3>2, <3>3, <3>5, <4>0 DEF Writing
      <4>4. CASE off + done <= b /\ b < off + done + len
        <5>1. PICK j \in Nat : j = b - (off + done) + 1
          BY <4>4
        <5>2. j \in 1 .. len /\ done + j = b - off + 1
          BY <4>4, <5>1
        <5>3. task.data[j] = call.src[done + j]
          BY <2>1, <3>1, <3>3, <5>2 DEF Writing
        <5>4. task.data[j] \in Contents
          BY <1>5, <2>1, <3>3, <5>2, ElementOfSeq
        <5>5. mem[b] = Bits
          BY <4>2, <4>4 DEF Flash!Erased
        <5>6. mem'[b] = mem[b] \cap task.data[j]
          BY <4>1, <4>4, <5>1
        <5>7. mem'[b] = call.src[b - off + 1]
          BY <5>2, <5>3, <5>4, <5>5, <5>6 DEF Contents
        <5> QED BY <4>0, <4>4, <5>7
      <4>5. CASE ~(off + done <= b /\ b < off + done + len)
        <5>1. (off <= b /\ b < off + done) <=> (off <= b /\ b < off + (done + len))
          BY <4>5
        <5> QED BY <4>0, <4>1, <4>2, <4>5, <5>1
      <4> QED BY <4>4, <4>5
    <3> QED BY <1>1, <3>1, <3>2, <3>3, <3>5 DEF Writing, InPresent, Flash!BlockOf, Flash!PageOf
  <2>11. Comparing'
    BY <1>1, <2>1 DEF Comparing
  <2> QED BY <1>10, <1>11, <1>13, <2>6, <2>7, <2>9, <2>10, <2>11 DEF FlashIInv, InCall
<1> QED BY <1>14, <1>15

(* An address does not wrap.                                               *)
LEMMA SmallRemainder ==
  ASSUME Flash!FlashAssumption, NEW a \in Flash!Address
  PROVE  a % Flash!Size = a
<1>1. a \in Nat /\ Flash!Size \in Nat \ {0} /\ a < Flash!Size
  BY AddressesAreNatural
<1>2. PICK q \in Int, r \in 0 .. Flash!Size - 1 :
        a = Flash!Size * q + r /\ a \div Flash!Size = q /\ a % Flash!Size = r
  BY <1>1, Parts
<1>3. PICK s \in Nat : s = Flash!Size
  BY <1>1
<1>4. q = 0
  <2>1. CASE q >= 1
    <3>1. s * q >= s
      BY <1>2, <2>1
    <3> QED BY <1>1, <1>2, <1>3, <3>1
  <2>2. CASE q <= -1
    <3>1. s * q <= 0 - s
      BY <1>2, <2>2
    <3> QED BY <1>1, <1>2, <1>3, <3>1
  <2> QED BY <2>1, <2>2
<1>5. s * q = 0
  BY <1>4
<1> QED BY <1>1, <1>2, <1>3, <1>5

(* The device answers with what it holds.                                  *)
LEMMA ReadStep ==
  ASSUME Flash!FlashAssumption, FlashIInv, Flash!Read
  PROVE  FlashIInv'
<1>1. /\ cmd.pc = "send" /\ cmd.name = "read"
      /\ cmd' = [cmd EXCEPT !.pc = IF four_bytes_mode THEN "exit" ELSE "done",
                   !.data = [j \in DOMAIN cmd.data |-> mem[(cmd.addr + j - 1) % Flash!Size]]]
      /\ UNCHANGED <<mem, big, wel, addr4, wip, four_bytes_mode, registered, call, req, before, returned>>
  BY DEF Flash!Read, Flash!Sending, Flash!Leave, Flash!device, Flash!driver, Flash!ghosts
<1>2. call.op \in Ops
  BY <1>1, Active
<1>3. call.op = "compare"
  BY <1>1, <1>2 DEF Ops, FlashIInv, Erasing, Writing
<1>4. Position /\ FlashTypeOK /\ Comparing
  BY <1>2 DEF FlashIInv, InCall
<1>5. cmd.data \in Seq(Contents)
  BY <1>4 DEF FlashTypeOK, Commands
<1>6. PICK off \in Nat, done \in Nat, len \in Nat :
        /\ off = call.offset /\ done = call.done /\ len = Len(cmd.data)
        /\ done + len <= call.n /\ cmd.addr = off + done /\ call.n \in Nat
        /\ DOMAIN cmd.data = 1 .. len /\ len >= 1
  <2>1. call.offset \in Nat
    BY <1>4, Within
  <2>2. call.n \in Nat /\ call.done \in 0 .. call.n - 1
    BY <1>4 DEF Position
  <2>3. Len(cmd.data) \in 1 .. call.n - call.done /\ cmd.addr = call.offset + call.done
    BY <1>3, <1>4 DEF Comparing
  <2>4. DOMAIN cmd.data = 1 .. Len(cmd.data)
    BY <1>5, LenProperties
  <2> QED BY <2>1, <2>2, <2>3, <2>4
<1>7. ASSUME NEW j \in 1 .. len
      PROVE  /\ mem[(cmd.addr + j - 1) % Flash!Size] = mem[off + done + j - 1]
             /\ mem[off + done + j - 1] \in Contents
  <2>1. PICK k \in 0 .. call.n - 1 : k = done + j - 1
    BY <1>6
  <2>2. off + k \in Flash!Address
    BY <1>4, <1>6, Within
  <2>3. PICK a \in Flash!Address : a = off + k /\ a = off + done + j - 1 /\ a = cmd.addr + j - 1
    BY <1>6, <2>1, <2>2
  <2>4. a % Flash!Size = a /\ mem[a] \in Contents
    BY <1>4, SmallRemainder DEF FlashTypeOK
  <2> QED BY <2>3, <2>4
<1>8. PICK data \in Seq(Contents) :
        /\ data = [j \in DOMAIN cmd.data |-> mem[(cmd.addr + j - 1) % Flash!Size]]
        /\ Len(data) = len /\ \A j \in 1 .. len : data[j] = mem[off + done + j - 1]
  <2>1. PICK data : data = [j \in 1 .. len |-> mem[(cmd.addr + j - 1) % Flash!Size]]
    OBVIOUS
  <2>2. data \in [1 .. len -> Contents] /\ \A j \in 1 .. len : data[j] = mem[off + done + j - 1]
    BY <1>7, <2>1
  <2>3. data \in Seq(Contents)
    BY <2>2, SeqDef
  <2>4. Len(data) = len
    BY <2>2, <2>3, LenProperties
  <2> QED BY <1>6, <2>1, <2>2, <2>3, <2>4
<1>9. /\ cmd' \in Commands /\ cmd'.pc = IF four_bytes_mode THEN "exit" ELSE "done"
      /\ cmd'.name = cmd.name /\ cmd'.addr = cmd.addr /\ cmd'.data = data
  BY <1>1, <1>4, <1>8 DEF FlashTypeOK, Commands
<1>10. ~wip.busy /\ addr4 = four_bytes_mode
  BY <1>1, <1>2 DEF FlashIInv, Commanding
<1>11. InCall'
  BY <1>1 DEF FlashIInv, InCall, Position, OtherBlocks, AsWritten, Asked,
     InPresent, NextBlockStart, Flash!BlockOf
<1>12. Outside'
  BY <1>1 DEF FlashIInv, Outside, Touched, Asked, Flash!BlockOf
<1>13. Comparing'
  <2>1. \A j \in 1 .. Len(data) : cmd'.data[j] = mem[call.offset + call.done + j - 1]
    BY <1>6, <1>8, <1>9
  <2>2. Len(cmd'.data) = Len(cmd.data)
    BY <1>6, <1>8, <1>9
  <2> QED BY <1>1, <1>3, <1>4, <1>9, <2>1, <2>2 DEF Comparing, InPresent, Flash!BlockOf
<1>14. FlashTypeOK'
  BY <1>1, <1>9 DEF FlashIInv, FlashTypeOK
<1>15. Commanding'
  BY <1>1, <1>3, <1>9, <1>10 DEF Commanding
<1>16. Modes' /\ Finished'
  BY <1>1, <1>2 DEF FlashIInv, Modes, Finished, Ops
<1>17. Underway' /\ Erasing' /\ Writing'
  BY <1>1, <1>3, <1>10 DEF Underway, Erasing, Writing
<1> QED BY <1>11, <1>12, <1>13, <1>14, <1>15, <1>16, <1>17 DEF FlashIInv

-----------------------------------------------------------------------------
(* The calls.                                                              *)
LEMMA BootStep ==
  ASSUME Flash!FlashAssumption, FlashIInv, Flash!flash_init
  PROVE  FlashIInv'
<1>1. /\ call.op = "boot" /\ call' = Flash!NoCall
      /\ registered' = ~wip.busy /\ four_bytes_mode' = (big /\ ~wip.busy)
      /\ UNCHANGED <<mem, big, wel, wip, addr4, cmd, req, before, returned>>
  BY DEF Flash!flash_init, Flash!device, Flash!ghosts
<1>2. ~returned /\ cmd = Flash!NoCmd
  BY <1>1 DEF FlashIInv, Modes, Ops
<1>3. registered' \in BOOLEAN /\ four_bytes_mode' \in BOOLEAN
  BY <1>1 DEF FlashIInv, FlashTypeOK
<1>4. FlashTypeOK'
  BY <1>1, <1>3, Records DEF FlashIInv, FlashTypeOK
<1>5. call'.op = "none" /\ "none" \notin Ops
  BY <1>1, Records DEF Ops
<1>6. Modes'
  BY <1>1, <1>2, <1>5 DEF FlashIInv, Modes, FlashTypeOK
<1>7. Outside' /\ Underway' /\ Finished'
  BY <1>1, <1>2 DEF FlashIInv, Outside, Touched, Asked, Flash!BlockOf, Flash!PageOf, Underway, Finished
<1>8. InCall' /\ Commanding' /\ Comparing' /\ Erasing' /\ Writing'
  BY <1>5 DEF InCall, Commanding, Comparing, Erasing, Writing
<1> QED BY <1>4, <1>6, <1>7, <1>8 DEF FlashIInv

(* A reset: the device goes on.                                            *)
LEMMA ResetStep ==
  ASSUME Flash!FlashAssumption, FlashIInv, Flash!Reset
  PROVE  FlashIInv'
<1>1. /\ call' = [Flash!NoCall EXCEPT !.op = "boot"] /\ cmd' = Flash!NoCmd
      /\ registered' = FALSE /\ four_bytes_mode' = FALSE /\ returned' = FALSE
      /\ UNCHANGED <<mem, big, wel, wip, addr4, req, before>>
  BY DEF Flash!Reset, Flash!device
<1>2. FlashTypeOK'
  BY <1>1, Records DEF FlashIInv, FlashTypeOK
<1>3. call'.op = "boot" /\ "boot" \notin Ops
  BY <1>1, Records DEF Ops
<1>4. Modes'
  BY <1>1, <1>3 DEF FlashIInv, Modes
<1>5. Outside' /\ Underway' /\ Finished'
  BY <1>1 DEF FlashIInv, Outside, Touched, Asked, Flash!BlockOf, Flash!PageOf, Underway, Finished
<1>6. InCall' /\ Commanding' /\ Comparing' /\ Erasing' /\ Writing'
  BY <1>3 DEF InCall, Commanding, Comparing, Erasing, Writing
<1> QED BY <1>2, <1>4, <1>5, <1>6 DEF FlashIInv

(* A slice of the data of a call.                                          *)
LEMMA Slice ==
  ASSUME NEW s \in Seq(Contents), NEW m \in Nat, NEW n \in Nat, m <= n, n <= Len(s)
  PROVE  /\ SubSeq(s, m + 1, n) \in Seq(Contents) /\ Len(SubSeq(s, m + 1, n)) = n - m
         /\ \A j \in 1 .. n - m : SubSeq(s, m + 1, n)[j] = s[m + j]
<1>1. Len(s) \in Nat
  BY LenProperties
<1>2. PICK p \in Int : p = m + 1
  OBVIOUS
<1>3. \A j \in p .. n : s[j] \in Contents
  BY <1>1, <1>2, ElementOfSeq
<1>4. /\ SubSeq(s, p, n) \in Seq(Contents)
      /\ Len(SubSeq(s, p, n)) = IF p <= n THEN n - p + 1 ELSE 0
      /\ \A j \in 1 .. n - p + 1 : SubSeq(s, p, n)[j] = s[p + j - 1]
  BY <1>3, SubSeqProperties
<1>5. \A j \in 1 .. n - m : p + j - 1 = m + j
  BY <1>2
<1> QED BY <1>2, <1>4, <1>5

(* A comparison is begun.                                                  *)
LEMMA CompareIssued ==
  ASSUME Flash!FlashAssumption, FlashIInv, NEW c \in CallRecords, c.op = "compare", Flash!Compare(c),
         registered, ~wip.busy, UNCHANGED <<Flash!device, Flash!driver>>, returned' = FALSE,
         before' \in [Flash!Address -> Contents], req' \in [offset : Int, src : Seq(Contents)],
         Position', OtherBlocks', Outside',
         \A a \in Flash!Address : Flash!BlockOf(a) = Flash!BlockOf(c.offset) => mem[a] = before'[a],
         \A j \in 1 .. c.done : mem[c.offset + j - 1] = c.src[j]
  PROVE  FlashIInv'
<1>1. /\ call' = c
      /\ cmd' = [name |-> "read", addr |-> c.offset + c.done,
                 data |-> SubSeq(c.src, c.done + 1, Flash!Min({c.n, c.done + ChunkSize})),
                 pc |-> IF four_bytes_mode THEN "enter" ELSE "poll"]
      /\ UNCHANGED <<mem, big, wel, wip, addr4, four_bytes_mode, registered>>
  BY DEF Flash!Compare, Flash!Issue, Flash!device, Flash!driver
<1>2. c.src \in Seq(Contents) /\ c.n \in 1 .. Len(c.src) /\ c.done \in 0 .. c.n - 1
      /\ Len(c.src) \in Nat /\ c.offset \in Int
  BY <1>1, LenProperties DEF CallRecords, Position
<1>3. PICK n \in Nat, done \in Nat, chunk \in Nat \ {0} :
        n = c.n /\ done = c.done /\ chunk = ChunkSize /\ done < n /\ n <= Len(c.src)
  <2>1. ChunkSize \in Nat \ {0}
    BY DEF Flash!FlashAssumption
  <2>2. c.n \in Nat /\ c.n <= Len(c.src)
    BY <1>2
  <2>3. c.done \in Nat /\ c.done < c.n
    BY <1>2, <2>2
  <2> QED BY <2>1, <2>2, <2>3
<1>4. PICK last \in Nat : last = Flash!Min({n, done + chunk}) /\ done < last /\ last <= n
  <2>1. PICK sum \in Nat : sum = done + chunk
    OBVIOUS
  <2>2. Flash!Min({n, sum}) = IF n <= sum THEN n ELSE sum
    BY Smaller
  <2>3. Flash!Min({n, sum}) \in Nat /\ done < Flash!Min({n, sum}) /\ Flash!Min({n, sum}) <= n
    BY <1>3, <2>1, <2>2
  <2> QED BY <2>1, <2>3
<1>5. PICK data \in Seq(Contents) :
        data = SubSeq(c.src, done + 1, last) /\ Len(data) = last - done
  <2>1. PICK s \in Seq(Contents) : s = c.src
    BY <1>2
  <2>2. /\ SubSeq(s, done + 1, last) \in Seq(Contents)
        /\ Len(SubSeq(s, done + 1, last)) = last - done
    <3>1. done <= last /\ last <= Len(s)
      BY <1>2, <1>3, <1>4, <2>1
    <3> QED BY <3>1, Slice
  <2> QED BY <2>1, <2>2
<1>6. PICK first \in Int : first = c.offset + c.done
  BY <1>2
<1>7. cmd' = [name |-> "read", addr |-> first, data |-> data,
              pc |-> IF four_bytes_mode THEN "enter" ELSE "poll"]
  BY <1>1, <1>3, <1>4, <1>5, <1>6
<1>8. /\ cmd' \in Commands /\ cmd'.name = "read" /\ cmd'.addr = first /\ cmd'.data = data
      /\ cmd'.pc = IF four_bytes_mode THEN "enter" ELSE "poll"
  BY <1>7 DEF Commands
<1>9. FlashTypeOK'
  BY <1>1, <1>8 DEF FlashIInv, FlashTypeOK
<1>10. Comparing'
  <2>1. Len(cmd'.data) \in 1 .. c.n - c.done
    <3>1. last - done \in 1 .. n - done
      BY <1>3, <1>4
    <3> QED BY <1>3, <1>5, <1>8, <3>1
  <2>2. cmd'.pc \notin {"exit", "done"}
    BY <1>8
  <2> QED BY <1>1, <1>6, <1>8, <2>1, <2>2 DEF Comparing, InPresent, Flash!BlockOf
<1>11. Commanding'
  <2>1. ~four_bytes_mode => ~addr4
    BY DEF FlashIInv, Modes
  <2> QED BY <1>1, <1>8, <2>1 DEF Commanding, FlashIInv, FlashTypeOK
<1>12. Modes'
  BY <1>1 DEF FlashIInv, Modes, Ops
<1>13. Underway' /\ Finished' /\ Erasing' /\ Writing' /\ InCall'
  BY <1>1 DEF Underway, Finished, Erasing, Writing, InCall
<1> QED BY <1>9, <1>10, <1>11, <1>12, <1>13 DEF FlashIInv

(* A page is begun.                                                        *)
LEMMA PageIssued ==
  ASSUME Flash!FlashAssumption, FlashIInv, NEW c \in CallRecords, c.op = "write", Flash!WritePage(c),
         registered, ~wip.busy, UNCHANGED <<Flash!device, Flash!driver, req, before, returned>>,
         call.op \in Ops, Position', OtherBlocks',
         \A a \in Flash!Address : Flash!BlockOf(a) = Flash!BlockOf(c.offset) =>
           mem[a] = IF c.offset <= a /\ a < c.offset + c.done
                    THEN c.src[a - c.offset + 1] ELSE Flash!Erased
  PROVE  FlashIInv'
<1>1. /\ call' = c
      /\ cmd' = [name |-> "pp", addr |-> c.offset + c.done,
                 data |-> SubSeq(c.src, c.done + 1, c.done + Flash!Page(c)),
                 pc |-> IF four_bytes_mode THEN "enter" ELSE "wren"]
      /\ UNCHANGED <<mem, big, wel, wip, addr4, four_bytes_mode, registered>>
  BY DEF Flash!WritePage, Flash!Issue, Flash!device, Flash!driver
<1>2. c.src \in Seq(Contents) /\ c.n \in 1 .. Len(c.src) /\ c.done \in 0 .. c.n - 1
      /\ Len(c.src) \in Nat /\ c.offset \in Nat
  BY <1>1, LenProperties, AddressesAreNatural DEF CallRecords, Position
<1>3. PICK n \in Nat, done \in Nat : n = c.n /\ done = c.done /\ done < n /\ n <= Len(c.src)
  BY <1>2
<1>4. PICK first \in Nat : first = c.offset + done
  BY <1>2
<1>5. PICK room \in Nat : room = NextPageStart(first) - first /\ room >= 1
  BY PageBounds
<1>6. PICK len \in Nat : len = Flash!Page(c) /\ 1 <= len /\ len <= n - done /\ len <= room
  <2>1. PICK rest \in Nat : rest = n - done
    BY <1>3
  <2>2. Flash!Page(c) = Flash!Min({rest, room})
    BY <1>3, <1>4, <1>5, <2>1 DEF Flash!Page, NextPageStart
  <2>3. Flash!Min({rest, room}) = IF rest <= room THEN rest ELSE room
    BY Smaller
  <2> QED BY <1>3, <1>5, <2>1, <2>2, <2>3
<1>7. PICK last \in Nat : last = done + len /\ last <= n
  BY <1>3, <1>6
<1>8. PICK data \in Seq(Contents) :
        /\ data = SubSeq(c.src, done + 1, last) /\ Len(data) = len
        /\ \A j \in 1 .. len : data[j] = c.src[done + j]
  <2>1. PICK s \in Seq(Contents) : s = c.src
    BY <1>2
  <2>2. /\ SubSeq(s, done + 1, last) \in Seq(Contents)
        /\ Len(SubSeq(s, done + 1, last)) = last - done
        /\ \A j \in 1 .. last - done : SubSeq(s, done + 1, last)[j] = s[done + j]
    <3>1. done <= last /\ last <= Len(s)
      BY <1>2, <1>3, <1>7, <2>1
    <3> QED BY <3>1, Slice
  <2>3. last - done = len
    BY <1>7
  <2> QED BY <2>1, <2>2, <2>3
<1>9. cmd' = [name |-> "pp", addr |-> first, data |-> data,
              pc |-> IF four_bytes_mode THEN "enter" ELSE "wren"]
  BY <1>1, <1>3, <1>4, <1>6, <1>7, <1>8
<1>10. /\ cmd' \in Commands /\ cmd'.name = "pp" /\ cmd'.addr = first /\ cmd'.data = data
       /\ cmd'.pc = IF four_bytes_mode THEN "enter" ELSE "wren"
  BY <1>9 DEF Commands
<1>11. FlashTypeOK'
  BY <1>1, <1>10 DEF FlashIInv, FlashTypeOK
<1>12. \A j \in 1 .. len : Flash!PageOf(first + j - 1) = Flash!PageOf(first)
  <2> SUFFICES ASSUME NEW j \in 1 .. len PROVE Flash!PageOf(first + j - 1) = Flash!PageOf(first)
    OBVIOUS
  <2>1. PICK b \in Nat : b = first + j - 1
    OBVIOUS
  <2>2. first <= b /\ b < NextPageStart(first)
    BY <1>5, <1>6, <2>1, PageBounds
  <2> QED BY <2>1, <2>2, PageBounds
<1>13. Writing'
  <2>1. ToSend' /\ Upto' = c.done
    BY <1>1, <1>10 DEF ToSend, Upto
  <2>2. Len(cmd'.data) \in 1 .. c.n - c.done
    BY <1>3, <1>6, <1>8, <1>10
  <2>3. \A j \in 1 .. Len(cmd'.data) :
          cmd'.data[j] = c.src[c.done + j] /\ Flash!PageOf(cmd'.addr + j - 1) = Flash!PageOf(cmd'.addr)
    BY <1>3, <1>8, <1>10, <1>12
  <2> QED BY <1>1, <1>3, <1>4, <1>10, <2>1, <2>2, <2>3 DEF Writing, InPresent, Flash!BlockOf, Flash!PageOf
<1>14. Commanding'
  <2>1. ~four_bytes_mode => ~addr4
    BY DEF FlashIInv, Modes
  <2> QED BY <1>1, <1>10, <2>1 DEF Commanding, FlashIInv, FlashTypeOK
<1>15. Outside'
  BY <1>1 DEF FlashIInv, Outside, Touched, Asked, Flash!BlockOf
<1>16. ~returned
  BY DEF FlashIInv, Modes, Ops
<1>17. Modes'
  BY <1>1, <1>16 DEF FlashIInv, Modes, Ops
<1>18. Underway' /\ Finished' /\ Erasing' /\ Comparing' /\ InCall'
  BY <1>1, <1>16 DEF Underway, Finished, Erasing, Comparing, InCall
<1> QED BY <1>11, <1>13, <1>14, <1>15, <1>17, <1>18 DEF FlashIInv

(* The extent of the block and of the write, in plain numbers.             *)
LEMMA Extent ==
  ASSUME Position, call.offset \in Nat, req.offset \in Nat,
         Len(req.src) \in Nat, Len(call.src) \in Nat
  PROVE  \E off \in Nat, n \in Nat, start \in Nat, end \in Nat, len \in Nat :
           /\ off = call.offset /\ n = call.n /\ start = req.offset
           /\ end = start + Len(req.src) /\ start <= off /\ off < end /\ n >= 1
           /\ len = Len(call.src) /\ len = end - off /\ n <= len /\ off + n <= end
<1>1. PICK off \in Nat, start \in Nat, len \in Nat, m \in Nat :
        /\ off = call.offset /\ start = req.offset
        /\ len = Len(call.src) /\ m = Len(req.src)
  OBVIOUS
<1>2. call.n \in 1 .. len /\ start <= off /\ off < start + m /\ len = start + m - off
  BY <1>1 DEF Position
<1>3. PICK n \in Nat, end \in Nat : n = call.n /\ end = start + m
  BY <1>2
<1>4. n >= 1 /\ n <= len /\ start <= off /\ off < end /\ len = end - off /\ off + n <= end
  BY <1>2, <1>3
<1> QED BY <1>1, <1>3, <1>4

(* The bytes of a block are written, the others as they were or erased.    *)
LEMMA PresentWritten ==
  ASSUME Flash!FlashAssumption, FlashTypeOK, Position,
         \A j \in 1 .. call.n : mem[call.offset + j - 1] = call.src[j],
         \A a \in Flash!Address : InPresent(a) /\ ~(call.offset <= a /\ a < call.offset + call.n)
                              => mem[a] \in {before[a], Flash!Erased}
  PROVE  \A a \in Flash!Address : InPresent(a) => AsWritten(a)
<1> SUFFICES ASSUME NEW a \in Flash!Address, InPresent(a) PROVE AsWritten(a)
  OBVIOUS
<1>1. /\ call.offset \in Nat /\ a \in Nat /\ req.offset \in Nat
      /\ req.src \in Seq(Contents) /\ call.src \in Seq(Contents)
  BY AddressesAreNatural, Within DEF Position, FlashTypeOK, CallRecords
<1>2. Len(req.src) \in Nat /\ Len(call.src) \in Nat
  BY <1>1, LenProperties
<1>3. PICK off \in Nat, n \in Nat, start \in Nat, end \in Nat :
        /\ off = call.offset /\ n = call.n /\ start = req.offset
        /\ end = start + Len(req.src) /\ start <= off /\ n >= 1
        /\ Len(call.src) = end - off /\ n <= Len(call.src) /\ off + n <= end
  BY <1>1, <1>2, Extent
<1>4. Asked(a) <=> (start <= a /\ a < end)
  BY <1>3 DEF Position, Asked
<1>5. CASE off <= a /\ a < off + n
  <2>1. PICK j \in 1 .. n : j = a - off + 1
    BY <1>1, <1>5
  <2>2. mem[a] = call.src[j]
    <3>1. off + j - 1 = a
      BY <1>1, <2>1
    <3> QED BY <1>3, <3>1
  <2>3. call.src[j] = req.src[off - start + j]
    <3>1. j \in 1 .. Len(call.src)
      BY <1>2, <1>3, <2>1
    <3> QED BY <1>3, <3>1 DEF Position
  <2>4. off - start + j = a - start + 1
    BY <1>1, <2>1
  <2>5. Asked(a)
    <3>1. start <= off /\ off + n <= end
      BY <1>3
    <3>2. start <= a /\ a < end
      BY <1>1, <1>5, <3>1
    <3> QED BY <1>4, <3>2
  <2> QED BY <1>3, <2>2, <2>3, <2>4, <2>5 DEF AsWritten
<1>6. CASE ~(off <= a /\ a < off + n)
  <2>1. ~Asked(a)
    <3>1. CASE a < off
      BY <1>3, <3>1 DEF Position
    <3>2. CASE a >= off + n
      <4>1. PICK next \in Nat : next = NextBlockStart(off)
        BY <1>3, BlockBounds
      <4>2. a < next
        <5>1. a >= NextBlockStart(off) <=> Flash!BlockOf(a) > Flash!BlockOf(off)
          BY <1>1, BlockOrder
        <5>2. Flash!BlockOf(a) = Flash!BlockOf(off) /\ Flash!BlockOf(off) \in Nat
          BY <1>1, <1>3, BlockBounds DEF InPresent
        <5> QED BY <1>1, <4>1, <5>1, <5>2
      <4>3. n = Len(call.src)
        BY <1>1, <1>3, <3>2, <4>1, <4>2 DEF Position
      <4>4. a >= end
        BY <1>1, <1>3, <3>2, <4>3
      <4> QED BY <1>1, <1>4, <4>4
    <3> QED BY <1>1, <1>3, <1>6, <3>1, <3>2
  <2>2. mem[a] \in {before[a], Flash!Erased}
    BY <1>3, <1>6
  <2> QED BY <2>1, <2>2 DEF AsWritten
<1> QED BY <1>5, <1>6

(* The bounds of a new call.                                               *)
LEMMA CallIs ==
  ASSUME Flash!FlashAssumption,
         NEW first \in Flash!Address, NEW data \in Seq(Contents), Len(data) # 0
  PROVE  /\ Flash!Call("compare", first, data) \in CallRecords
         /\ Flash!Call("compare", first, data).op = "compare"
         /\ Flash!Call("compare", first, data).offset = first
         /\ Flash!Call("compare", first, data).src = data
         /\ Flash!Call("compare", first, data).done = 0
         /\ Flash!Call("compare", first, data).n \in 1 .. Len(data)
         /\ first + Flash!Call("compare", first, data).n <= NextBlockStart(first)
         /\ \/ Flash!Call("compare", first, data).n = Len(data)
            \/ first + Flash!Call("compare", first, data).n = NextBlockStart(first)
<1>1. first \in Nat /\ Len(data) \in Nat \ {0}
  BY AddressesAreNatural, LenProperties
<1>2. PICK len \in Nat \ {0} : len = Len(data)
  BY <1>1
<1>3. PICK room \in Nat : room = NextBlockStart(first) - first /\ first + room = NextBlockStart(first)
  BY <1>1, BlockBounds
<1>4. PICK n \in 1 .. len : n = Flash!InBlock(first, len) /\ n = IF room <= len THEN room ELSE len
  BY <1>1, <1>3, InBlockIs
<1>5. first + n <= NextBlockStart(first) /\ (n = len \/ first + n = NextBlockStart(first))
  BY <1>1, <1>3, <1>4
<1>6. Flash!Call("compare", first, data) =
        [op |-> "compare", offset |-> first, src |-> data, n |-> n, done |-> 0]
  BY <1>2, <1>4 DEF Flash!Call
<1>7. [op |-> "compare", offset |-> first, src |-> data, n |-> n, done |-> 0] \in CallRecords
  BY <1>1 DEF CallRecords, Ops
<1> QED BY <1>2, <1>4, <1>5, <1>6, <1>7

(* A block is done: the next one, or the end.                              *)
LEMMA NextBlockStep ==
  ASSUME Flash!FlashAssumption, FlashIInv, call.op \in Ops, cmd.pc = "done", Flash!NextBlock,
         UNCHANGED <<Flash!device, Flash!driver, req, before>>,
         \A a \in Flash!Address : InPresent(a) => AsWritten(a)
  PROVE  FlashIInv'
<1>1. Position /\ OtherBlocks /\ FlashTypeOK
  BY DEF FlashIInv, InCall
<1>2. ~returned /\ registered
  BY DEF FlashIInv, Modes, Ops
<1>3. ~wip.busy /\ ~addr4
  BY DEF FlashIInv, Commanding
<1>4. UNCHANGED <<mem, big, wel, wip, addr4, four_bytes_mode, registered, req, before>>
  BY DEF Flash!device, Flash!driver
<1>5. /\ req.src \in Seq(Contents) /\ call.src \in Seq(Contents)
      /\ Len(req.src) \in Nat /\ Len(call.src) \in Nat
      /\ call.offset \in Nat /\ req.offset \in Nat
  BY <1>1, AddressesAreNatural, LenProperties DEF Position, FlashTypeOK, CallRecords
<1>6. PICK off \in Flash!Address, n \in Nat, start \in Nat, end \in Nat, len \in Nat :
        /\ off = call.offset /\ n = call.n /\ start = req.offset
        /\ end = start + Len(req.src) /\ start <= off /\ off < end /\ n >= 1
        /\ len = Len(call.src) /\ len = end - off /\ n <= len
  <2>1. call.offset \in Flash!Address
    BY <1>1 DEF Position
  <2> QED BY <1>1, <1>5, <2>1, Extent
<1>7. PICK next \in Nat : next = NextBlockStart(off) /\ next <= Flash!Size /\ off + n <= next
  BY <1>1, <1>5, <1>6, BlockBounds, BlockStarts DEF Position
<1>8. /\ n = len \/ off + n = next
      /\ \A a \in Nat : Asked(a) <=> (start <= a /\ a < end)
  BY <1>1, <1>6, <1>7 DEF Position, Asked
<1>9. /\ Flash!Size \in Nat /\ off \in Nat /\ Flash!BlockOf(off) \in Nat
      /\ \A a \in Flash!Address : a \in Nat /\ a < Flash!Size /\ Flash!BlockOf(a) \in Nat
                            /\ (a >= next <=> Flash!BlockOf(a) > Flash!BlockOf(off))
  BY <1>5, <1>6, <1>7, AddressesAreNatural, BlockBounds, BlockOrder
<1>10. Outside'
  BY <1>4 DEF FlashIInv, Outside, Touched, Asked, Flash!BlockOf
<1>11. ASSUME NEW a \in Flash!Address, Flash!BlockOf(a) <= Flash!BlockOf(off) PROVE AsWritten(a)
  <2>1. CASE Flash!BlockOf(a) = Flash!BlockOf(off)
    BY <1>6, <2>1 DEF InPresent
  <2>2. CASE Flash!BlockOf(a) < Flash!BlockOf(off)
    BY <1>1, <1>6, <2>2 DEF OtherBlocks
  <2> QED BY <1>9, <1>11, <2>1, <2>2
<1>12. \A a \in Flash!Address : Flash!BlockOf(a) > Flash!BlockOf(off) => mem[a] = before[a]
  BY <1>1, <1>6 DEF OtherBlocks
<1>13. CASE n = len \/ next = Flash!Size
  <2>1. call' = Flash!NoCall /\ cmd' = Flash!NoCmd /\ returned' = TRUE
    BY <1>6, <1>7, <1>13 DEF Flash!NextBlock, NextBlockStart
  <2>2. call'.op = "none" /\ "none" \notin Ops
    BY <2>1, Records DEF Ops
  <2>3. \A a \in Flash!Address : AsWritten(a)
    <3> SUFFICES ASSUME NEW a \in Flash!Address PROVE AsWritten(a)
      OBVIOUS
    <3>1. CASE Flash!BlockOf(a) > Flash!BlockOf(off)
      <4>1. a >= next /\ a < Flash!Size /\ a \in Nat
        BY <1>9, <3>1
      <4>2. n = len /\ off + n <= a
        BY <1>6, <1>7, <1>9, <1>13, <4>1
      <4>3. a >= end
        BY <1>6, <1>9, <4>1, <4>2
      <4>4. ~Asked(a)
        BY <1>6, <1>8, <4>1, <4>3
      <4> QED BY <1>12, <3>1, <4>4 DEF AsWritten
    <3> QED BY <1>9, <1>11, <3>1
  <2>4. Finished'
    BY <1>3, <1>4, <2>3 DEF Finished, AsWritten, Asked
  <2>5. FlashTypeOK'
    BY <1>4, <2>1, Records DEF FlashIInv, FlashTypeOK
  <2>6. Modes'
    BY <1>2, <1>3, <1>4, <2>1, <2>2 DEF FlashIInv, Modes
  <2>7. InCall' /\ Commanding' /\ Comparing' /\ Erasing' /\ Writing' /\ Underway'
    BY <1>3, <1>4, <2>2 DEF InCall, Commanding, Comparing, Erasing, Writing, Underway, Ops
  <2> QED BY <1>10, <2>4, <2>5, <2>6, <2>7 DEF FlashIInv
<1>14. CASE n # len /\ next # Flash!Size
  <2>1. off + n = next /\ next \in Flash!Address
    BY <1>7, <1>8, <1>9, <1>14, AddressesAreNatural
  <2>2. PICK rest \in Seq(Contents) :
          /\ rest = SubSeq(call.src, n + 1, len) /\ Len(rest) = len - n
          /\ \A j \in 1 .. len - n : rest[j] = call.src[n + j]
    <3>1. PICK s \in Seq(Contents) : s = call.src
      BY <1>5
    <3>2. /\ SubSeq(s, n + 1, len) \in Seq(Contents)
          /\ Len(SubSeq(s, n + 1, len)) = len - n
          /\ \A j \in 1 .. len - n : SubSeq(s, n + 1, len)[j] = s[n + j]
      <4>1. len = Len(s)
        BY <1>6, <3>1
      <4>2. len <= Len(s) /\ n <= len
        BY <1>6, <4>1
      <4> QED BY <4>2, Slice
    <3> QED BY <3>1, <3>2
  <2>3. Len(rest) # 0
    BY <1>6, <1>14, <2>2
  <2>4. PICK c \in CallRecords :
          /\ c = Flash!Call("compare", next, rest) /\ c.op = "compare" /\ c.offset = next
          /\ c.src = rest /\ c.done = 0 /\ c.n \in 1 .. Len(rest)
          /\ next + c.n <= NextBlockStart(next)
          /\ c.n = Len(rest) \/ next + c.n = NextBlockStart(next)
    BY <2>1, <2>3, CallIs
  <2>5. Flash!Compare(c) /\ UNCHANGED returned
    BY <1>6, <1>7, <1>14, <2>2, <2>4 DEF Flash!NextBlock, NextBlockStart
  <2>6. call' = c
    BY <2>5 DEF Flash!Compare
  <2>7. Flash!BlockOf(next) = Flash!BlockOf(off) + 1
    BY <1>7, BlockStarts
  <2>8. Position'
    <3>1. Len(rest) = end - next /\ next < end /\ start <= next
      <4>1. PICK left \in Nat : left = len - n
        BY <1>6
      <4>2. left = Len(rest) /\ left # 0
        BY <2>2, <2>3, <4>1
      <4>3. len = end - off /\ start <= off /\ off + n = next /\ off \in Nat /\ left > 0
        BY <1>6, <1>9, <2>1, <4>2
      <4>4. left = end - next /\ next < end /\ start <= next
        BY <4>1, <4>3
      <4> QED BY <4>2, <4>4
    <3>2. ASSUME NEW j \in 1 .. Len(rest) PROVE rest[j] = req.src[next - start + j]
      <4>1. rest[j] = call.src[n + j] /\ j \in 1 .. len - n
        <5>1. j \in 1 .. len - n
          BY <2>2, <3>2
        <5> QED BY <2>2, <5>1
      <4>2. PICK k \in 1 .. len : k = n + j
        BY <1>6, <4>1
      <4>3. call.src[k] = req.src[off - start + k]
        BY <1>1, <1>6 DEF Position
      <4>4. off - start + k = next - start + j
        BY <1>9, <2>1, <4>2
      <4> QED BY <4>1, <4>2, <4>3, <4>4
    <3>3. ASSUME NEW a \in Flash!Address, Flash!BlockOf(a) = Flash!BlockOf(next), a < next PROVE FALSE
      BY <1>9, <2>7, <3>3
    <3>4. c.done \in 0 .. c.n - 1
      BY <2>2, <2>4, <3>1
    <3>5. start \in Flash!Address
      BY <1>1, <1>6 DEF Position
    <3>6. /\ Len(rest) = start + Len(req.src) - next /\ next < start + Len(req.src)
          /\ req'.src = req.src /\ req'.offset = start
      BY <1>4, <1>6, <3>1
    <3>7. \A a \in Flash!Address : Flash!BlockOf(a) = Flash!BlockOf(c.offset) /\ a < c.offset => ~Asked(a)'
      BY <2>4, <3>3
    <3>8. /\ c.offset + c.n <= NextBlockStart(c.offset)
          /\ c.n = Len(c.src) \/ c.offset + c.n = NextBlockStart(c.offset)
      BY <2>4
    <3>9. \A j \in 1 .. Len(c.src) : c.src[j] = req'.src[c.offset - req'.offset + j]
      BY <2>4, <3>2, <3>6
    <3>10. /\ req'.offset \in Flash!Address /\ c.offset \in Flash!Address
           /\ req'.offset <= c.offset /\ c.offset < req'.offset + Len(req'.src)
           /\ Len(c.src) = req'.offset + Len(req'.src) - c.offset
           /\ c.n \in 1 .. Len(c.src) /\ c.done \in 0 .. c.n - 1
      BY <2>1, <2>4, <3>1, <3>4, <3>5, <3>6
    <3> QED BY <2>6, <3>7, <3>8, <3>9, <3>10 DEF Position,
     InPresent, NextBlockStart, Flash!BlockOf
  <2>9. OtherBlocks'
    <3>1. ASSUME NEW a \in Flash!Address, Flash!BlockOf(a) < Flash!BlockOf(next) PROVE AsWritten(a)'
      <4>1. AsWritten(a)
        BY <1>9, <1>11, <2>7, <3>1
      <4> QED BY <1>4, <4>1 DEF AsWritten, Asked
    <3>2. ASSUME NEW a \in Flash!Address, Flash!BlockOf(a) > Flash!BlockOf(next) PROVE mem[a] = before[a]
      BY <1>9, <1>12, <2>7, <3>2
    <3> QED BY <1>4, <2>4, <2>6, <3>1, <3>2 DEF OtherBlocks, Flash!BlockOf
  <2>10. \A a \in Flash!Address : Flash!BlockOf(a) = Flash!BlockOf(c.offset) => mem[a] = before'[a]
    BY <1>4, <1>9, <1>12, <2>4, <2>7
  <2>11. \A j \in 1 .. c.done : mem[c.offset + j - 1] = c.src[j]
    BY <2>4
  <2>12. before' \in [Flash!Address -> Contents] /\ req' \in [offset : Int, src : Seq(Contents)]
    BY <1>1, <1>4 DEF FlashTypeOK
  <2>13. returned' = FALSE
    BY <1>1, <1>2, <2>5 DEF FlashTypeOK
  <2> QED BY <1>2, <1>3, <1>10, <2>4, <2>5, <2>8, <2>9, <2>10, <2>11, <2>12, <2>13, CompareIssued
<1> QED BY <1>13, <1>14

(* A call at another place of its block.                                   *)
LEMMA CallGoesOn ==
  ASSUME NEW c \in CallRecords, NEW d \in Int, NEW f, f = [c EXCEPT !.done = d]
  PROVE  /\ f \in CallRecords /\ f.op = c.op /\ f.offset = c.offset
         /\ f.src = c.src /\ f.n = c.n /\ f.done = d
<1>1. f.op = c.op
  BY DEF CallRecords
<1>2. f.offset = c.offset
  BY DEF CallRecords
<1>3. f.src = c.src
  BY DEF CallRecords
<1>4. f.n = c.n
  BY DEF CallRecords
<1>5. f.done = d
  BY DEF CallRecords
<1>6. f \in CallRecords
  BY DEF CallRecords
<1> QED BY <1>1, <1>2, <1>3, <1>4, <1>5, <1>6

(* A call whose block is to be erased.                                     *)
LEMMA CallErases ==
  ASSUME NEW c \in CallRecords, NEW f, f = [c EXCEPT !.op = "erase", !.done = 0]
  PROVE  /\ f \in CallRecords /\ f.op = "erase" /\ f.offset = c.offset
         /\ f.src = c.src /\ f.n = c.n /\ f.done = 0
<1>1. f.op = "erase"
  BY DEF CallRecords
<1>2. f.offset = c.offset
  BY DEF CallRecords
<1>3. f.src = c.src
  BY DEF CallRecords
<1>4. f.n = c.n
  BY DEF CallRecords
<1>5. f.done = 0
  BY DEF CallRecords
<1>6. f \in CallRecords
  <2>1. PICK op \in Ops, d \in Int : op = "erase" /\ d = 0
    BY DEF Ops
  <2>2. PICK e : e = [c EXCEPT !.op = op, !.done = d]
    OBVIOUS
  <2>3. e \in CallRecords
    BY <2>2 DEF CallRecords
  <2> QED BY <2>1, <2>2, <2>3
<1> QED BY <1>1, <1>2, <1>3, <1>4, <1>5, <1>6

(* What a comparison found of the block equal to what is asked.            *)
LEMMA ComparedStep ==
  ASSUME Flash!FlashAssumption, FlashIInv, Flash!Compared
  PROVE  FlashIInv'
<1>1. /\ cmd.pc = "done" /\ call.op = "compare" /\ call.op \in Ops
      /\ UNCHANGED <<Flash!device, Flash!driver, req, before>>
  BY DEF Flash!Compared, Flash!Sending, Ops
<1>2. Position /\ OtherBlocks /\ FlashTypeOK /\ Comparing
  BY <1>1 DEF FlashIInv, InCall
<1>3. ~returned /\ registered /\ ~wip.busy /\ ~addr4
  BY <1>1 DEF FlashIInv, Modes, Commanding, Ops
<1>4. UNCHANGED <<mem, big, wel, wip, addr4, four_bytes_mode, registered, req, before>>
  BY <1>1 DEF Flash!device, Flash!driver
<1>5. PICK src \in Seq(Contents), data \in Seq(Contents) : src = call.src /\ data = cmd.data
  BY <1>2 DEF FlashTypeOK, CallRecords, Commands
<1>6. PICK off \in Nat, n \in Nat, done \in Nat, len \in Nat :
        /\ off = call.offset /\ n = call.n /\ done = call.done /\ len = Len(data)
        /\ done < n /\ n <= Len(src) /\ len >= 1 /\ done + len <= n
  <2>1. call.offset \in Nat /\ Len(src) \in Nat /\ Len(data) \in Nat
    BY <1>2, Within, LenProperties
  <2>2. call.n \in 1 .. Len(src) /\ call.done \in 0 .. call.n - 1
    BY <1>2, <1>5 DEF Position
  <2>3. Len(data) \in 1 .. call.n - call.done
    BY <1>1, <1>2, <1>5 DEF Comparing
  <2> QED BY <2>1, <2>2, <2>3
<1>7. PICK upto \in Nat : upto = done + len /\ done <= upto /\ upto <= n
  BY <1>6
<1>8. Outside'
  BY <1>4 DEF FlashIInv, Outside, Touched, Asked, Flash!BlockOf
<1>9. before' \in [Flash!Address -> Contents] /\ req' \in [offset : Int, src : Seq(Contents)]
  BY <1>2, <1>4 DEF FlashTypeOK
<1>10. \A a \in Flash!Address : InPresent(a) => mem[a] = before[a]
  BY <1>1, <1>2 DEF Comparing
<1>11. CASE data # SubSeq(src, done + 1, upto)
  <2>1. /\ call' = [call EXCEPT !.op = "erase", !.done = 0]
        /\ Flash!Issue("se", Flash!BlockOf(call.offset) * BlockSize, <<>>)
        /\ UNCHANGED returned
    BY <1>5, <1>6, <1>7, <1>11 DEF Flash!Compared
  <2>2. /\ call' \in CallRecords /\ call'.op = "erase" /\ call'.done = 0
        /\ call'.offset = call.offset /\ call'.src = call.src /\ call'.n = call.n
    <3>1. PICK c \in CallRecords : c = call
      BY <1>2 DEF FlashTypeOK
    <3>2. PICK f : f = call' /\ f = [c EXCEPT !.op = "erase", !.done = 0]
      BY <2>1, <3>1
    <3>3. /\ f \in CallRecords /\ f.op = "erase" /\ f.offset = c.offset
          /\ f.src = c.src /\ f.n = c.n /\ f.done = 0
      BY <3>2, CallErases
    <3> QED BY <3>1, <3>2, <3>3
  <2>3. PICK first \in Flash!Address :
          first = Flash!BlockOf(call.offset) * BlockSize /\ Flash!BlockOf(first) = Flash!BlockOf(call.offset)
    BY <1>2, BlockStarts DEF Position
  <2>4. <<>> \in Seq(Contents) /\ first \in Int
    BY AddressesAreNatural
  <2>5. /\ cmd' \in Commands /\ cmd'.name = "se" /\ cmd'.addr = first
        /\ cmd'.pc = IF four_bytes_mode THEN "enter" ELSE "wren"
    BY <2>1, <2>3, <2>4 DEF Flash!Issue, Commands
  <2>6. FlashTypeOK'
    BY <1>2, <1>4, <2>1, <2>2, <2>5 DEF FlashTypeOK
  <2>7. Position'
    BY <1>2, <1>4, <2>2 DEF Position,
            InPresent, Asked, NextBlockStart, Flash!BlockOf
  <2>8. OtherBlocks'
    BY <1>2, <1>4, <2>2 DEF OtherBlocks, AsWritten, Asked, Flash!BlockOf
  <2>9. Erasing'
    BY <2>2, <2>3, <2>5 DEF Erasing, ToSend, InPresent, Flash!BlockOf
  <2>10. Commanding'
    <3>1. ~four_bytes_mode => ~addr4
      BY <1>3 DEF FlashIInv, Modes
    <3> QED BY <1>3, <1>4, <2>2, <2>5, <3>1 DEF Commanding, FlashIInv, FlashTypeOK
  <2>11. Modes'
    BY <1>3, <1>4, <2>1, <2>2 DEF FlashIInv, Modes, Ops
  <2>12. Finished' /\ Underway' /\ Comparing' /\ Writing'
    BY <1>3, <1>4, <2>1, <2>2 DEF Finished, Underway, Comparing, Writing
  <2> QED BY <1>8, <2>6, <2>7, <2>8, <2>9, <2>10, <2>11, <2>12 DEF FlashIInv, InCall
<1>12. CASE data = SubSeq(src, done + 1, upto)
  <2>1. \A j \in 1 .. len : data[j] = src[done + j]
    <3>1. upto - done = len /\ upto <= Len(src)
      <4>1. PICK all \in Nat : all = Len(src)
        BY LenProperties
      <4> QED BY <1>6, <1>7, <4>1
    <3>2. \A j \in 1 .. upto - done : SubSeq(src, done + 1, upto)[j] = src[done + j]
      BY <1>7, <3>1, Slice
    <3> QED BY <1>12, <3>1, <3>2
  <2>2. \A j \in 1 .. upto : mem[off + j - 1] = src[j]
    <3> SUFFICES ASSUME NEW j \in 1 .. upto PROVE mem[off + j - 1] = src[j]
      OBVIOUS
    <3>1. CASE j <= done
      <4>1. j \in 1 .. done
        BY <3>1
      <4> QED BY <1>1, <1>2, <1>5, <1>6, <4>1 DEF Comparing
    <3>2. CASE j > done
      <4>1. PICK k \in 1 .. len : k = j - done
        BY <1>7, <3>2
      <4>2. data[k] = mem[off + done + k - 1]
        BY <1>1, <1>2, <1>5, <1>6 DEF Comparing
      <4>3. off + done + k - 1 = off + j - 1 /\ done + k = j
        BY <4>1
      <4> QED BY <2>1, <4>2, <4>3
    <3> QED BY <3>1, <3>2
  <2>3. CASE upto < n
    <3>1. PICK c \in CallRecords :
            /\ c = [call EXCEPT !.done = upto]
            /\ c.op = "compare" /\ c.offset = call.offset /\ c.src = call.src
            /\ c.n = call.n /\ c.done = upto
      <4>1. PICK e \in CallRecords, d \in Int : e = call /\ d = upto
        BY <1>2, <1>7 DEF FlashTypeOK
      <4>2. PICK f : f = [e EXCEPT !.done = d]
        OBVIOUS
      <4>3. /\ f \in CallRecords /\ f.op = e.op /\ f.offset = e.offset
            /\ f.src = e.src /\ f.n = e.n /\ f.done = d
        BY <4>2, CallGoesOn
      <4> QED BY <1>1, <4>1, <4>2, <4>3
    <3>2. Flash!Compare(c) /\ UNCHANGED returned
      BY <1>5, <1>6, <1>7, <1>12, <2>3, <3>1 DEF Flash!Compared
    <3>3. call' = c
      BY <3>2 DEF Flash!Compare
    <3>4. Position'
      <4>1. c.done \in 0 .. c.n - 1
        BY <1>6, <2>3, <3>1
      <4> QED BY <1>2, <1>4, <3>1, <3>3, <4>1 DEF Position,
            InPresent, Asked, NextBlockStart, Flash!BlockOf
    <3>5. OtherBlocks'
      BY <1>2, <1>4, <3>1, <3>3 DEF OtherBlocks, AsWritten, Asked, Flash!BlockOf
    <3>6. \A a \in Flash!Address : Flash!BlockOf(a) = Flash!BlockOf(c.offset) => mem[a] = before'[a]
      BY <1>4, <1>10, <3>1 DEF InPresent
    <3>7. \A j \in 1 .. c.done : mem[c.offset + j - 1] = c.src[j]
      BY <1>5, <1>6, <2>2, <3>1
    <3>8. returned' = FALSE
      BY <1>2, <1>3, <3>2 DEF FlashTypeOK
    <3> QED BY <1>1, <1>3, <1>8, <1>9, <3>1, <3>2, <3>4, <3>5, <3>6, <3>7, <3>8, CompareIssued
  <2>4. CASE ~(upto < n)
    <3>1. Flash!NextBlock
      BY <1>5, <1>6, <1>7, <1>12, <2>4 DEF Flash!Compared
    <3>2. \A j \in 1 .. call.n : mem[call.offset + j - 1] = call.src[j]
      <4>1. upto = n
        BY <1>7, <2>4
      <4>2. \A j \in 1 .. n : mem[off + j - 1] = src[j]
        BY <2>2, <4>1
      <4>3. n = call.n /\ off = call.offset /\ src = call.src
        BY <1>5, <1>6
      <4> QED BY <4>2, <4>3
    <3>3. \A a \in Flash!Address : InPresent(a) => AsWritten(a)
      BY <1>2, <1>10, <3>2, PresentWritten
    <3> QED BY <1>1, <3>1, <3>3, NextBlockStep
  <2> QED BY <2>3, <2>4
<1> QED BY <1>11, <1>12

(* The block is erased: its first page.                                    *)
LEMMA ErasedBlockStep ==
  ASSUME Flash!FlashAssumption, FlashIInv, Flash!ErasedBlock
  PROVE  FlashIInv'
<1>1. /\ cmd.pc = "done" /\ call.op = "erase" /\ call.op \in Ops
      /\ Flash!WritePage([call EXCEPT !.op = "write"])
      /\ UNCHANGED <<Flash!device, Flash!driver, req, before, returned>>
  BY DEF Flash!ErasedBlock, Flash!Sending, Ops, Flash!ghosts
<1>2. Position /\ OtherBlocks /\ FlashTypeOK /\ Erasing
  BY <1>1 DEF FlashIInv, InCall
<1>3. registered /\ ~wip.busy
  BY <1>1 DEF FlashIInv, Modes, Commanding
<1>4. UNCHANGED <<mem, req, before>>
  BY <1>1 DEF Flash!device
<1>5. PICK c \in CallRecords :
        /\ c = [call EXCEPT !.op = "write"]
        /\ c.op = "write" /\ c.offset = call.offset /\ c.src = call.src
        /\ c.n = call.n /\ c.done = 0
  <2>1. /\ [call EXCEPT !.op = "write"] \in CallRecords
        /\ [call EXCEPT !.op = "write"].op = "write"
        /\ [call EXCEPT !.op = "write"].offset = call.offset
        /\ [call EXCEPT !.op = "write"].src = call.src
        /\ [call EXCEPT !.op = "write"].n = call.n
        /\ [call EXCEPT !.op = "write"].done = call.done
    BY <1>2 DEF FlashTypeOK, CallRecords, Ops
  <2>2. call.done = 0
    BY <1>1, <1>2 DEF Erasing
  <2> QED BY <2>1, <2>2
<1>6. Flash!WritePage(c) /\ call' = c
  BY <1>1, <1>5 DEF Flash!WritePage
<1>7. c.done = call.done
  BY <1>1, <1>2, <1>5 DEF Erasing
<1>8. Position'
  BY <1>2, <1>4, <1>5, <1>6, <1>7 DEF Position,
            InPresent, Asked, NextBlockStart, Flash!BlockOf
<1>9. OtherBlocks'
  BY <1>2, <1>4, <1>5, <1>6 DEF OtherBlocks, AsWritten, Asked, Flash!BlockOf
<1>10. ASSUME NEW a \in Flash!Address, Flash!BlockOf(a) = Flash!BlockOf(c.offset)
       PROVE  mem[a] = IF c.offset <= a /\ a < c.offset + c.done
                       THEN c.src[a - c.offset + 1] ELSE Flash!Erased
  <2>1. mem[a] = Flash!Erased
    BY <1>1, <1>2, <1>5, <1>10 DEF Erasing, ToSend, InPresent
  <2>2. ~(c.offset <= a /\ a < c.offset + c.done)
    <3>1. c.offset \in Nat /\ a \in Nat
      BY <1>2, <1>5, Within, AddressesAreNatural
    <3> QED BY <1>5, <3>1
  <2> QED BY <2>1, <2>2
<1> QED BY <1>1, <1>3, <1>5, <1>6, <1>8, <1>9, <1>10, PageIssued

(* A page is written: the next one, or the next block.                     *)
LEMMA WrittenPageStep ==
  ASSUME Flash!FlashAssumption, FlashIInv, Flash!WrittenPage
  PROVE  FlashIInv'
<1>1. /\ cmd.pc = "done" /\ call.op = "write" /\ call.op \in Ops
      /\ UNCHANGED <<Flash!device, Flash!driver, req, before>>
  BY DEF Flash!WrittenPage, Flash!Sending, Ops
<1>2. Position /\ OtherBlocks /\ FlashTypeOK /\ Writing
  BY <1>1 DEF FlashIInv, InCall
<1>3. registered /\ ~wip.busy
  BY <1>1 DEF FlashIInv, Modes, Commanding
<1>4. UNCHANGED <<mem, req, before>>
  BY <1>1 DEF Flash!device
<1>5. PICK off \in Nat, n \in Nat, upto \in Nat :
        /\ off = call.offset /\ n = call.n /\ upto = call.done + Len(cmd.data) /\ upto <= n
  <2>1. call.offset \in Nat
    BY <1>2, Within
  <2>2. PICK n \in Nat, done \in Nat : n = call.n /\ done = call.done /\ done < n
    BY <1>2 DEF Position
  <2>3. Len(cmd.data) \in 1 .. n - done
    BY <1>1, <1>2, <2>2 DEF Writing
  <2>4. PICK upto \in Nat : upto = done + Len(cmd.data) /\ upto <= n
    BY <2>2, <2>3
  <2> QED BY <2>1, <2>2, <2>4
<1>6. ASSUME NEW a \in Flash!Address, InPresent(a)
      PROVE  mem[a] = IF off <= a /\ a < off + upto THEN call.src[a - off + 1] ELSE Flash!Erased
  <2>1. Upto = upto
    BY <1>1, <1>5 DEF Upto, ToSend
  <2> QED BY <1>1, <1>2, <1>5, <1>6, <2>1 DEF Writing
<1>7. PICK c \in CallRecords :
        /\ c = [call EXCEPT !.done = @ + Len(cmd.data)]
        /\ c.op = "write" /\ c.offset = off /\ c.src = call.src
        /\ c.n = n /\ c.done = upto
  <2>1. PICK e \in CallRecords, d \in Int : e = call /\ d = upto
    BY <1>2, <1>5 DEF FlashTypeOK
  <2>2. PICK f : f = [e EXCEPT !.done = d]
    OBVIOUS
  <2>3. /\ f \in CallRecords /\ f.op = e.op /\ f.offset = e.offset
        /\ f.src = e.src /\ f.n = e.n /\ f.done = d
    BY <2>2, CallGoesOn
  <2>4. f = [call EXCEPT !.done = @ + Len(cmd.data)]
    BY <1>5, <2>1, <2>2
  <2> QED BY <1>1, <1>5, <2>1, <2>3, <2>4
<1>8. CASE upto < n
  <2>1. Flash!WritePage(c) /\ UNCHANGED returned /\ call' = c
    BY <1>7, <1>8 DEF Flash!WrittenPage, Flash!WritePage
  <2>2. Position'
    <3>1. c.done \in 0 .. c.n - 1
      BY <1>7, <1>8
    <3> QED BY <1>2, <1>4, <1>5, <1>7, <2>1, <3>1 DEF Position,
            InPresent, Asked, NextBlockStart, Flash!BlockOf
  <2>3. OtherBlocks'
    BY <1>2, <1>4, <1>5, <1>7, <2>1 DEF OtherBlocks, AsWritten, Asked, Flash!BlockOf
  <2>4. \A a \in Flash!Address : Flash!BlockOf(a) = Flash!BlockOf(c.offset) =>
          mem[a] = IF c.offset <= a /\ a < c.offset + c.done
                   THEN c.src[a - c.offset + 1] ELSE Flash!Erased
    BY <1>5, <1>6, <1>7 DEF InPresent
  <2> QED BY <1>1, <1>3, <1>7, <2>1, <2>2, <2>3, <2>4, PageIssued
<1>9. CASE ~(upto < n)
  <2>1. Flash!NextBlock
    BY <1>7, <1>9 DEF Flash!WrittenPage
  <2>2. upto = n
    BY <1>5, <1>9
  <2>3. \A j \in 1 .. call.n : mem[call.offset + j - 1] = call.src[j]
    <3> SUFFICES ASSUME NEW j \in 1 .. n PROVE mem[off + j - 1] = call.src[j]
      BY <1>5
    <3>1. PICK k \in 0 .. n - 1 : k = j - 1
      BY <1>5
    <3>2. PICK a \in Flash!Address : a = off + k /\ InPresent(a)
      BY <1>2, <1>5, Within
    <3>3. off <= a /\ a < off + upto /\ a - off + 1 = j /\ a = off + j - 1
      <4>1. PICK b \in Nat : b = a /\ b = off + k
        BY <3>2
      <4>2. off <= b /\ b < off + n /\ b - off + 1 = j /\ b = off + j - 1
        BY <3>1, <4>1
      <4> QED BY <2>2, <4>1, <4>2
    <3> QED BY <1>6, <3>2, <3>3
  <2>4. \A a \in Flash!Address : InPresent(a) /\ ~(call.offset <= a /\ a < call.offset + call.n)
                             => mem[a] \in {before[a], Flash!Erased}
    BY <1>5, <1>6, <2>2
  <2>5. \A a \in Flash!Address : InPresent(a) => AsWritten(a)
    BY <1>2, <2>3, <2>4, PresentWritten
  <2> QED BY <1>1, <2>1, <2>5, NextBlockStep
<1> QED BY <1>8, <1>9

(* alt_epcs_flash_write, on the device or off it.                          *)
LEMMA WriteStep ==
  ASSUME Flash!FlashAssumption, FlashIInv, NEW r \in Requests, Flash!flash_write(r)
  PROVE  FlashIInv'
<1>1. /\ registered /\ call.op = "none" /\ req' = r /\ before' = mem
      /\ UNCHANGED <<Flash!device, Flash!driver>>
      /\ UNCHANGED <<mem, big, wel, wip, addr4, four_bytes_mode, registered>>
  BY DEF Flash!flash_write, Flash!device, Flash!driver
<1>2. FlashTypeOK /\ ~wip.busy
  BY <1>1 DEF FlashIInv, Modes
<1>3. r \in [offset : Int, src : Seq(Contents)]
  BY DEF Flash!FlashAssumption, Contents
<1>4. before' \in [Flash!Address -> Contents] /\ req' \in [offset : Int, src : Seq(Contents)]
  BY <1>1, <1>2, <1>3 DEF FlashTypeOK
<1>5. Outside'
  BY <1>1 DEF Outside
<1>6. CASE r.offset \in Flash!Address /\ r.src # <<>>
  <2>1. PICK first \in Flash!Address, data \in Seq(Contents) : first = r.offset /\ data = r.src
    BY <1>3, <1>6
  <2>2. Len(data) # 0 /\ Len(data) \in Nat /\ first \in Nat
    BY <1>6, <2>1, EmptySeq, LenProperties, AddressesAreNatural
  <2>3. PICK c \in CallRecords :
          /\ c = Flash!Call("compare", first, data) /\ c.op = "compare" /\ c.offset = first
          /\ c.src = data /\ c.done = 0 /\ c.n \in 1 .. Len(data)
          /\ first + c.n <= NextBlockStart(first)
          /\ c.n = Len(data) \/ first + c.n = NextBlockStart(first)
    BY <2>2, CallIs
  <2>4. Flash!Compare(c) /\ returned' = FALSE /\ call' = c
    BY <1>6, <2>1, <2>3 DEF Flash!flash_write, Flash!Compare
  <2>5. \A a \in Flash!Address : a \in Nat /\ Flash!BlockOf(a) \in Nat /\ Flash!BlockOf(first) \in Nat
                           /\ (a >= first => Flash!BlockOf(a) >= Flash!BlockOf(first))
    BY <2>2, AddressesAreNatural, BlockBounds, BlockOrder
  <2>6. \A a \in Flash!Address : a < first => ~Asked(a)'
    BY <1>1, <2>1, <2>2, <2>5 DEF Asked
  <2>7. Position'
    <3>1. first <= first /\ first < first + Len(data) /\ Len(data) = first + Len(data) - first
          /\ \A j \in 1 .. Len(data) : data[j] = data[first - first + j]
      BY <2>2
    <3>2. c.done \in 0 .. c.n - 1
      BY <2>2, <2>3
    <3> QED BY <1>1, <2>1, <2>3, <2>4, <2>6, <3>1, <3>2 DEF Position,
     InPresent, NextBlockStart, Flash!BlockOf
  <2>8. OtherBlocks'
    <3>1. ASSUME NEW a \in Flash!Address, Flash!BlockOf(a) < Flash!BlockOf(first) PROVE AsWritten(a)'
      <4>1. a < first
        BY <2>2, <2>5, <3>1
      <4>2. ~Asked(a)'
        BY <2>6, <4>1
      <4> QED BY <1>1, <4>2 DEF AsWritten
    <3> QED BY <1>1, <2>3, <2>4, <3>1 DEF OtherBlocks, Flash!BlockOf
  <2>9. \A a \in Flash!Address : Flash!BlockOf(a) = Flash!BlockOf(c.offset) => mem[a] = before'[a]
    BY <1>1
  <2>10. \A j \in 1 .. c.done : mem[c.offset + j - 1] = c.src[j]
    BY <2>3
  <2> QED BY <1>1, <1>2, <1>4, <1>5, <2>3, <2>4, <2>7, <2>8, <2>9, <2>10, CompareIssued
<1>7. CASE ~(r.offset \in Flash!Address /\ r.src # <<>>)
  <2>1. returned' = TRUE /\ UNCHANGED <<call, cmd>>
    BY <1>7 DEF Flash!flash_write
  <2>2. \A a \in Flash!Address : ~Asked(a)'
    <3> SUFFICES ASSUME NEW a \in Flash!Address, r.offset \in Flash!Address,
                        r.offset <= a, a < r.offset + Len(r.src)
                 PROVE  FALSE
      BY <1>1 DEF Asked
    <3>1. Len(r.src) = 0
      BY <1>7
    <3>2. a \in Nat /\ r.offset \in Nat
      BY AddressesAreNatural
    <3> QED BY <3>1, <3>2
  <2>3. Finished'
    <3>1. \A a \in Flash!Address : AsWritten(a)'
      BY <1>1, <2>2 DEF AsWritten
    <3> QED BY <1>1, <1>7, <3>1 DEF Finished
  <2>4. FlashTypeOK'
    BY <1>1, <1>2, <1>4, <2>1 DEF FlashTypeOK
  <2>5. Modes'
    BY <1>1, <2>1 DEF FlashIInv, Modes
  <2>6. InCall' /\ Commanding' /\ Comparing' /\ Erasing' /\ Writing' /\ Underway'
    BY <1>1, <1>2, <2>1 DEF InCall, Commanding, Comparing, Erasing, Writing, Underway, Ops
  <2> QED BY <1>5, <2>3, <2>4, <2>5, <2>6 DEF FlashIInv
<1> QED BY <1>6, <1>7

-----------------------------------------------------------------------------

(* The invariant is inductive.                                             *)
LEMMA FlashInit ==
  ASSUME Flash!FlashAssumption, Flash!Init
  PROVE  FlashIInv
<1>1. /\ mem \in {[a \in Flash!Address |-> Flash!Erased], [a \in Flash!Address |-> {}]}
      /\ big \in BOOLEAN /\ wel = FALSE /\ wip = Flash!Ready /\ addr4 = FALSE
      /\ four_bytes_mode = FALSE /\ registered = FALSE
      /\ call = [Flash!NoCall EXCEPT !.op = "boot"] /\ cmd = Flash!NoCmd
      /\ req = [offset |-> 0, src |-> <<>>] /\ before = mem /\ returned = FALSE
  BY DEF Flash!Init, Flash!FlashAssumption
<1>2. wip \in [busy : BOOLEAN, cmd : Commands] /\ ~wip.busy
  BY <1>1, Records DEF Flash!Ready
<1>3. call \in CallRecords /\ cmd \in Commands /\ call.op = "boot" /\ "boot" \notin Ops
  BY <1>1, Records DEF Ops
<1>4. mem \in [Flash!Address -> Contents]
  BY <1>1 DEF Flash!Erased, Contents
<1>5. req \in [offset : Int, src : Seq(Contents)]
  <2>1. <<>> \in Seq(Contents)
    OBVIOUS
  <2> QED BY <1>1, <2>1
<1>6. FlashTypeOK
  BY <1>1, <1>2, <1>3, <1>4, <1>5 DEF FlashTypeOK
<1>7. Outside /\ Underway /\ Finished /\ Modes
  BY <1>1, <1>2, <1>3 DEF Outside, Underway, Finished, Modes
<1>8. InCall /\ Commanding /\ Comparing /\ Erasing /\ Writing
  BY <1>3 DEF InCall, Commanding, Comparing, Erasing, Writing
<1> QED BY <1>6, <1>7, <1>8 DEF FlashIInv

LEMMA FlashStep ==
  ASSUME Flash!FlashAssumption, FlashIInv, [Flash!Next]_(Flash!vars)
  PROVE  FlashIInv'
<1>1. CASE Flash!Finish
  BY <1>1, FinishStep
<1>2. CASE Flash!flash_init
  BY <1>2, BootStep
<1>3. CASE Flash!enter_4_bytes_mode
  BY <1>3, EnterStep
<1>4. CASE Flash!write_enable
  BY <1>4, WriteEnableStep
<1>5. CASE Flash!Start
  BY <1>5, StartStep
<1>6. CASE Flash!await_wip_released
  BY <1>6, AwaitStep
<1>7. CASE Flash!Read
  BY <1>7, ReadStep
<1>8. CASE Flash!exit_4_bytes_mode
  BY <1>8, ExitStep
<1>9. ASSUME NEW r \in Requests, Flash!flash_write(r) PROVE FlashIInv'
  BY <1>9, WriteStep
<1>10. CASE Flash!Compared
  BY <1>10, ComparedStep
<1>11. CASE Flash!ErasedBlock
  BY <1>11, ErasedBlockStep
<1>12. CASE Flash!WrittenPage
  BY <1>12, WrittenPageStep
<1>13. CASE Flash!Reset
  BY <1>13, ResetStep
<1>14. CASE UNCHANGED Flash!vars
  <2>1. UNCHANGED <<mem, big, wel, wip, addr4, four_bytes_mode, registered,
                  call, cmd, req, before, returned>>
    BY <1>14 DEF Flash!vars, Flash!device, Flash!driver, Flash!ghosts
  <2>2. ToSend' <=> ToSend
    BY <2>1 DEF ToSend
  <2>3. InCall' /\ Outside' /\ Comparing' /\ Erasing' /\ Writing'
    BY <2>1, <2>2, CommandGoesOn
  <2>4. FlashTypeOK' /\ Commanding' /\ Modes'
    BY <2>1 DEF FlashIInv, FlashTypeOK, Commanding, Modes
  <2>5. Underway'
    BY <2>1 DEF FlashIInv, Underway, Touched, Asked, Flash!BlockOf, Flash!PageOf
  <2>6. Finished'
    BY <2>1 DEF FlashIInv, Finished, AsWritten, Asked
  <2> QED BY <2>3, <2>4, <2>5, <2>6 DEF FlashIInv
<1> QED BY <1>1, <1>2, <1>3, <1>4, <1>5, <1>6, <1>7, <1>8, <1>9, <1>10, <1>11, <1>12, <1>13, <1>14
     DEF Flash!Next

(* The invariant gives the property.                                       *)
LEMMA FlashHolds ==
  ASSUME Flash!FlashAssumption, FlashIInv
  PROVE  Flash!FlashAsWritten
<1>1. /\ mem \in [Flash!Address -> Contents]
      /\ req.offset \in Int /\ req.src \in Seq(Contents)
  BY DEF FlashIInv, FlashTypeOK
<1>2. DOMAIN req.src = 1 .. Len(req.src) /\ Len(req.src) \in Nat
  BY <1>1, LenProperties
<1>3. ASSUME NEW a \in Nat, Asked(a)
      PROVE  a \in DOMAIN Flash!Wanted /\ Flash!Wanted[a] = req.src[a - req.offset + 1]
  <2>1. req.offset \in Flash!Address /\ req.offset <= a /\ a < req.offset + Len(req.src)
    BY <1>3 DEF Asked
  <2>2. PICK j \in DOMAIN req.src : a = req.offset + j - 1
    <3>1. PICK j \in Int : j = a - req.offset + 1
      BY <1>1
    <3>2. j \in 1 .. Len(req.src) /\ a = req.offset + j - 1
      BY <1>1, <1>2, <2>1, <3>1
    <3> QED BY <1>2, <3>2
  <2> QED BY <2>1, <2>2 DEF Flash!Wanted
<1>4. ASSUME NEW a \in DOMAIN Flash!Wanted PROVE a \in Nat /\ Asked(a)
  <2>1. req.offset \in Flash!Address /\ \E j \in DOMAIN req.src : a = req.offset + j - 1
    BY DEF Flash!Wanted
  <2>2. PICK j \in 1 .. Len(req.src) : a = req.offset + j - 1
    BY <1>2, <2>1
  <2>3. req.offset \in Nat
    BY <2>1, AddressesAreNatural
  <2>4. a \in Nat /\ req.offset <= a /\ a < req.offset + Len(req.src)
    BY <1>2, <2>2, <2>3
  <2> QED BY <2>1, <2>4 DEF Asked
<1>5. \A a \in Flash!Address :
        mem[a] = before[a] \/ \E b \in DOMAIN Flash!Wanted : Flash!BlockOf(a) = Flash!BlockOf(b)
  BY <1>3 DEF FlashIInv, Outside, Touched
<1>6. returned => \A a \in Flash!Address : IF a \in DOMAIN Flash!Wanted THEN mem[a] = Flash!Wanted[a]
                                     ELSE mem[a] \in {before[a], Flash!Erased}
  <2> SUFFICES ASSUME returned, NEW a \in Flash!Address
               PROVE  IF a \in DOMAIN Flash!Wanted THEN mem[a] = Flash!Wanted[a]
                      ELSE mem[a] \in {before[a], Flash!Erased}
    OBVIOUS
  <2>1. AsWritten(a) /\ a \in Nat
    BY AddressesAreNatural DEF FlashIInv, Finished
  <2> QED BY <1>3, <1>4, <2>1 DEF AsWritten
<1>7. returned /\ req.offset \in Flash!Address /\ req.src # <<>> => ~wip.busy /\ ~addr4
  BY DEF FlashIInv, Finished, Modes
<1> QED BY <1>5, <1>6, <1>7 DEF Flash!FlashAsWritten

(* alt_epcs_flash_write: a write that has returned left on the device what *)
(* was asked, in its blocks what was there or nothing, and the others as   *)
(* they were; a write cut short by a reset touched only its own blocks.    *)
THEOREM WritesAsAsked ==
  ASSUME Flash!FlashAssumption
  PROVE  Flash!Spec => []Flash!FlashAsWritten
<1>1. Flash!Init => FlashIInv
  BY FlashInit
<1>2. FlashIInv /\ [Flash!Next]_(Flash!vars) => FlashIInv'
  BY FlashStep
<1>3. FlashIInv => Flash!FlashAsWritten
  BY FlashHolds
<1> QED BY <1>1, <1>2, <1>3, PTL DEF Flash!Spec
=============================================================================
