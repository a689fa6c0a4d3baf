----------------------------- MODULE SpiMaster -----------------------------
(***************************************************************************)
(* alt_avalon_spi_command, one transaction of the SPI master: the bytes of *)
(* the command, then zeros for as many bytes as are to be read, at most as *)
(* many under way as there are credits, and the bytes that come back.  The *)
(* core moves a byte from its holding register to its shift register, and  *)
(* what comes back to RXDATA, by itself; so the polling loop sees any mix. *)
(***************************************************************************)
EXTENDS Integers, Sequences

CONSTANTS
  MaxLength,    \* bounds write_length and read_length
  Stale         \* what RXDATA may hold beforehand

VARIABLES
  write_length, read_length, merge, toggle,    \* the arguments
  pc, credits, sent, zeros, ignored, read_data, status,
  txdata, shift, rxdata, selected,    \* the core: registers, <<>> when empty
  exchanged, overrun                  \* bytes the slave saw; one was lost

args == <<write_length, read_length, merge, toggle>>
locals == <<pc, credits, sent, zeros, ignored, read_data, status>>
core == <<txdata, shift, rxdata, selected, exchanged, overrun>>
vars == <<args, locals, core>>

\* The slave answers its k-th byte with k; bytes of the command are numbered.
Reply(k) == k
Zero == 0

Init ==
  /\ write_length \in 0 .. MaxLength /\ read_length \in 0 .. MaxLength
  /\ write_length + read_length > 0
  /\ merge \in BOOLEAN /\ toggle \in BOOLEAN
  /\ pc = "select" /\ credits = 1 /\ sent = 0 /\ zeros = 0 /\ ignored = 0 /\ read_data = <<>>
  /\ status = {} /\ txdata = <<>> /\ shift = <<>> /\ rxdata \in {<<>>} \cup {<<s>> : s \in Stale}
  /\ selected = FALSE /\ exchanged = <<>> /\ overrun = FALSE

Load ==
  /\ txdata # <<>> /\ shift = <<>>
  /\ shift' = txdata /\ txdata' = <<>>
  /\ UNCHANGED <<args, locals, rxdata, selected, exchanged, overrun>>

\* The last bit of a byte is out, and the last of the reply in.
Shift ==
  /\ shift # <<>>
  /\ exchanged' = exchanged \o shift /\ shift' = <<>>
  /\ rxdata' = <<Reply(Len(exchanged'))>> /\ overrun' = (overrun \/ rxdata # <<>>)
  /\ UNCHANGED <<args, locals, txdata, selected>>

Select ==
  /\ pc = "select" /\ pc' = "discard"
  /\ selected' = (selected \/ ~toggle)
  /\ UNCHANGED <<args, credits, sent, zeros, ignored, read_data, status, txdata, shift, rxdata,
                 exchanged, overrun>>

Discard ==
  /\ pc = "discard" /\ pc' = "poll"
  /\ rxdata' = <<>>
  /\ UNCHANGED <<args, credits, sent, zeros, ignored, read_data, status, txdata, shift, selected,
                 exchanged, overrun>>

Status == {b \in {"TRDY", "RRDY"} : IF b = "TRDY" THEN txdata = <<>> ELSE rxdata # <<>>}

Poll ==
  /\ pc = "poll"
  /\ status' = Status
  /\ pc' = IF ("TRDY" \in Status /\ credits # 0) \/ "RRDY" \in Status THEN "send" ELSE "poll"
  /\ UNCHANGED <<args, credits, sent, zeros, ignored, read_data, core>>

\* Once everything is sent, credits stays below zero whatever comes back.
Send ==
  /\ pc = "send" /\ pc' = "receive"
  /\ IF "TRDY" \notin status \/ credits <= 0
     THEN UNCHANGED <<credits, sent, zeros, txdata>>
     ELSE IF sent < write_length
     THEN sent' = sent + 1 /\ txdata' = <<sent + 1>> /\ credits' = credits - 1 /\ UNCHANGED zeros
     ELSE IF zeros < read_length
     THEN zeros' = zeros + 1 /\ txdata' = <<Zero>> /\ credits' = credits - 1 /\ UNCHANGED sent
     ELSE credits' = -1024 /\ UNCHANGED <<sent, zeros, txdata>>
  /\ UNCHANGED <<args, ignored, read_data, status, shift, rxdata, selected, exchanged, overrun>>

Receive ==
  /\ pc = "receive"
  /\ IF "RRDY" \notin status
     THEN pc' = "poll" /\ UNCHANGED <<credits, ignored, read_data, rxdata>>
     ELSE /\ rxdata' = <<>> /\ credits' = credits + 1
          /\ IF ignored < write_length
             THEN ignored' = ignored + 1 /\ UNCHANGED read_data
             ELSE read_data' = read_data \o rxdata /\ UNCHANGED ignored
          /\ pc' = IF ignored' = write_length /\ Len(read_data') = read_length
                   THEN "drain" ELSE "poll"
  /\ UNCHANGED <<args, sent, zeros, status, txdata, shift, selected, exchanged, overrun>>

\* TMT: nothing left in the core; then release the slave, unless merging.
Drain ==
  /\ pc = "drain" /\ txdata = <<>> /\ shift = <<>>
  /\ pc' = "done" /\ selected' = (selected /\ merge)
  /\ UNCHANGED <<args, credits, sent, zeros, ignored, read_data, status, txdata, shift, rxdata,
                 exchanged, overrun>>

Transaction == Select \/ Discard \/ Poll \/ Send \/ Receive \/ Drain
Next == Load \/ Shift \/ Transaction
Spec == Init /\ [][Next]_vars
FairSpec ==
  Spec /\ WF_vars(Load) /\ WF_vars(Shift)
       /\ WF_vars(Transaction)

-----------------------------------------------------------------------------
\* When the call returns, the slave has seen the command and then a zero for
\* each byte to read, the replies to those zeros are what was read, and no reply
\* was lost in RXDATA, whatever was left there before.
Exchange ==
  /\ ~overrun
  /\ pc = "done" =>
       /\ exchanged = [i \in 1 .. write_length + read_length |-> IF i <= write_length THEN i ELSE Zero]
       /\ read_data = [i \in 1 .. read_length |-> Reply(write_length + i)]

\* A transaction comes to its end.
Done == pc = "done"
Returns == <>Done
=============================================================================
