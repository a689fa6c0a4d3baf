---------------------------- MODULE TimersProofs ----------------------------
(***************************************************************************)
(* The clocks and timers: the system clock, for any alarms, delays,        *)
(* periods and width of the tick counter; timer.c, for every width and     *)
(* frequency, all delays that fit the counter and any number of calls; the *)
(* timestamp, the time of day, the performance counter and the busy sleep, *)
(* for every width of their registers and words.  SystemClock is extended, *)
(* the others are the instances Tmr, Stamp, Day, Perf and Sleep.  Some     *)
(* share the name of a constant or a variable; every theorem is about one. *)
(***************************************************************************)
EXTENDS SystemClock, Sequences, TLAPS

CONSTANTS Half, FREQ, BASE, MaxCalls                           \* of Tmr
VARIABLES pc, routine, ms, calls, periodLow, periodHigh, count, running, timeout,
          snap, period, value, started, since, atCall
Tmr == INSTANCE OneShotTimer

-----------------------------------------------------------------------------
(* The system clock.                                                       *)

Started == {a \in Alarms : due[a] # 0}

(* The list as a chain: r numbers the alarms L that are in it upwards from *)
(* the head, so that After is what a walk still has before it.             *)
After(L, r, a) == {b \in L : a = alt_alarm_list \/ r[b] > r[a]}
Chained(nx, L, r) ==
  \A a \in L \cup {alt_alarm_list} :
    IF nx[a] = alt_alarm_list THEN After(L, r, a) = {}
    ELSE nx[a] \in After(L, r, a) /\ \A b \in After(L, r, a) : r[nx[a]] <= r[b]
ListOK(nx, pv, L, r) ==
  /\ nx \in [List -> List] /\ pv \in [List -> List]
  /\ \A a \in List : pv[nx[a]] = a /\ nx[pv[a]] = a
  /\ \A a \in Alarms \ L : nx[a] = a
  /\ \A a, b \in L : r[a] = r[b] => a = b
  /\ Chained(nx, L, r)

(* What alt_tick has yet to visit in this tick.                            *)
Pending(r) ==
  CASE tick.pc = "visit" -> {b \in Started : r[b] >= r[tick.alarm]}
    [] tick.pc = "return" -> {b \in Started : tick.next # alt_alarm_list /\ r[b] >= r[tick.next]}
    [] OTHER -> {}
Walking(r) ==
  /\ tick.pc = "idle" => tick = Idle
  /\ tick.pc = "visit" => tick.alarm \in Started
  /\ tick.pc = "return" =>
       /\ tick.alarm \in Alarms \ Pending(r)
       /\ tick.next \in Started \cup {alt_alarm_list}
       /\ tick.alarm \in Started => due[tick.alarm] = total /\ time[tick.alarm] = nticks

(* When the counter is to come to the time of an alarm, had it no end.     *)
Unwrapped(a) == nticks + (due[a] - total)
Timed(a) == time[a] = IF Unwrapped(a) < W THEN Unwrapped(a) ELSE Unwrapped(a) - W

(* An alarm is ahead by less than a round of the counter, and rollover     *)
(* says whether the wrap is before it; alt_tick has yet to see to that of  *)
(* the alarms it has not visited.                                          *)
Ahead(a) ==
  due[a] - total \in 1 .. W - 1 /\ Timed(a) /\ (rollover[a] <=> Unwrapped(a) >= W)
InTurn(a) ==
  /\ due[a] - total \in 0 .. W - 2 /\ Timed(a)
  /\ rollover[a] <=> (nticks = 0 \/ Unwrapped(a) >= W)
Timely(r) ==
  \A a \in Started :
    IF a \in Pending(r) THEN InTurn(a)
    ELSE (tick.pc = "return" => a # tick.alarm) => Ahead(a)

TypeOK ==
  /\ nticks \in 0 .. W - 1 /\ total \in Nat
  /\ time \in [Alarms -> 0 .. W - 1] /\ rollover \in [Alarms -> BOOLEAN]
  /\ due \in [Alarms -> Nat]
  /\ tick \in [pc : {"idle", "visit", "return"}, alarm : List, next : List]

Ranked(r) ==
  /\ ListOK(next, previous, Started, r) /\ Walking(r) /\ Timely(r)
IInv ==
  /\ TypeOK /\ fired.at = fired.due
  /\ \E r \in [Alarms -> Int] : Ranked(r) /\ \E m \in Int : \A a \in Started : r[a] > m

-----------------------------------------------------------------------------
(* The two operations on the list.                                         *)

LEMMA Removed ==
  ASSUME ClockAssumption, NEW nx, NEW pv, NEW L \in SUBSET Alarms,
         NEW r \in [Alarms -> Int], ListOK(nx, pv, L, r), NEW e \in Alarms
  PROVE  ListOK([nx EXCEPT ![pv[e]] = nx[e], ![e] = e],
                [pv EXCEPT ![nx[e]] = pv[e], ![e] = e], L \ {e}, r)
<1> DEFINE h == alt_alarm_list
           nx2 == [nx EXCEPT ![pv[e]] = nx[e], ![e] = e]
           pv2 == [pv EXCEPT ![nx[e]] = pv[e], ![e] = e]
<1>1. /\ nx \in [List -> List] /\ pv \in [List -> List]
      /\ \A a \in List : pv[nx[a]] = a /\ nx[pv[a]] = a
      /\ \A a \in Alarms \ L : nx[a] = a
      /\ \A a, b \in L : r[a] = r[b] => a = b
      /\ h \notin Alarms /\ h \in List /\ Alarms \subseteq List /\ e \in List
  BY DEF ListOK, ClockAssumption, List
<1>2. Chained(nx, L, r)
  BY DEF ListOK
<1>3. /\ nx2 \in [List -> List] /\ pv2 \in [List -> List]
      /\ \A a \in List : nx2[a] = IF a = e THEN e ELSE IF a = pv[e] THEN nx[e] ELSE nx[a]
      /\ \A a \in List : pv2[a] = IF a = e THEN e ELSE IF a = nx[e] THEN pv[e] ELSE pv[a]
  BY <1>1
<1>4. \A a \in List : pv2[nx2[a]] = a /\ nx2[pv2[a]] = a
  <2> SUFFICES ASSUME NEW a \in List PROVE pv2[nx2[a]] = a /\ nx2[pv2[a]] = a
    OBVIOUS
  <2>1. /\ nx[a] \in List /\ pv[a] \in List /\ nx[e] \in List /\ pv[e] \in List
        /\ pv[nx[a]] = a /\ nx[pv[a]] = a /\ pv[nx[e]] = e /\ nx[pv[e]] = e
    BY <1>1
  <2> HIDE DEF nx2, pv2
  <2>2. pv2[nx2[a]] = a
    <3>1. CASE a = e
      BY <1>1, <1>3, <3>1
    <3>2. CASE a # e /\ a = pv[e]
      <4>1. nx2[a] = nx[e] /\ nx[e] # e
        BY <1>3, <2>1, <3>2
      <4> QED BY <1>3, <2>1, <3>2, <4>1
    <3>3. CASE a # e /\ a # pv[e]
      <4>1. nx2[a] = nx[a] /\ nx[a] # e /\ nx[a] # nx[e]
        BY <1>3, <2>1, <3>3
      <4> QED BY <1>3, <2>1, <4>1
    <3> QED BY <3>1, <3>2, <3>3
  <2>3. nx2[pv2[a]] = a
    <3>1. CASE a = e
      BY <1>1, <1>3, <3>1
    <3>2. CASE a # e /\ a = nx[e]
      <4>1. pv2[a] = pv[e] /\ pv[e] # e
        BY <1>3, <2>1, <3>2
      <4> QED BY <1>3, <2>1, <3>2, <4>1
    <3>3. CASE a # e /\ a # nx[e]
      <4>1. pv2[a] = pv[a] /\ pv[a] # e /\ pv[a] # pv[e]
        BY <1>3, <2>1, <3>3
      <4> QED BY <1>3, <2>1, <4>1
    <3> QED BY <3>1, <3>2, <3>3
  <2> QED BY <2>2, <2>3
<1>5. \A a \in Alarms \ (L \ {e}) : nx2[a] = a
  <2> SUFFICES ASSUME NEW a \in Alarms \ (L \ {e}), a # e PROVE nx2[a] = a
    BY <1>1, <1>3
  <2>1. nx[a] = a /\ a \in List
    BY <1>1
  <2>2. a # pv[e]
    BY <1>1, <2>1
  <2> QED BY <1>3, <2>1, <2>2
<1>6. Chained(nx2, L \ {e}, r)
  <2> SUFFICES ASSUME NEW a \in (L \ {e}) \cup {h}
               PROVE  IF nx2[a] = h THEN After(L \ {e}, r, a) = {}
                      ELSE /\ nx2[a] \in After(L \ {e}, r, a)
                           /\ \A b \in After(L \ {e}, r, a) : r[nx2[a]] <= r[b]
    BY DEF Chained
  <2>1. a \in List /\ a # e /\ a \in L \cup {h}
    BY <1>1
  <2>2. After(L \ {e}, r, a) = After(L, r, a) \ {e}
    BY DEF After
  <2>3. IF nx[a] = h THEN After(L, r, a) = {}
        ELSE nx[a] \in After(L, r, a) /\ \A b \in After(L, r, a) : r[nx[a]] <= r[b]
    BY <1>2, <2>1 DEF Chained
  <2>4. CASE a # pv[e]
    <3>1. nx2[a] = nx[a] /\ nx[a] # e
      BY <1>1, <1>3, <2>1, <2>4
    <3> QED BY <2>2, <2>3, <3>1
  <2>5. CASE a = pv[e]
    <3>1. nx[a] = e /\ nx2[a] = nx[e]
      BY <1>1, <1>3, <2>1, <2>5
    <3>2. e \in After(L, r, a) /\ \A b \in After(L, r, a) : r[e] <= r[b]
      BY <1>1, <2>3, <3>1
    <3>3. e \in L /\ (a = h \/ r[e] > r[a])
      BY <3>2 DEF After
    <3>4. After(L, r, a) \ {e} = After(L, r, e)
      <4>1. \A b \in After(L, r, a) : b # e => b \in After(L, r, e)
        <5> SUFFICES ASSUME NEW b \in After(L, r, a), b # e PROVE r[b] > r[e]
          BY DEF After
        <5>1. b \in L /\ r[b] \in Int /\ r[e] \in Int /\ r[e] <= r[b]
          BY <3>2 DEF After
        <5> QED BY <1>1, <3>3, <5>1
      <4>2. \A b \in After(L, r, e) : b \in After(L, r, a) /\ b # e
        <5> SUFFICES ASSUME NEW b \in After(L, r, e) PROVE b \in After(L, r, a) /\ b # e
          OBVIOUS
        <5>1. b \in L /\ r[b] \in Int /\ r[e] \in Int /\ r[b] > r[e] /\ (a # h => r[a] \in Int)
          BY <1>1, <2>1 DEF After
        <5> QED BY <3>3, <5>1 DEF After
      <4> QED BY <4>1, <4>2
    <3>5. IF nx[e] = h THEN After(L, r, e) = {}
          ELSE nx[e] \in After(L, r, e) /\ \A b \in After(L, r, e) : r[nx[e]] <= r[b]
      BY <1>2, <3>3 DEF Chained
    <3> QED BY <2>2, <3>1, <3>4, <3>5
  <2> QED BY <2>4, <2>5
<1> QED BY <1>1, <1>3, <1>4, <1>5, <1>6 DEF ListOK

LEMMA Inserted ==
  ASSUME ClockAssumption, NEW nx, NEW pv, NEW L \in SUBSET Alarms,
         NEW r \in [Alarms -> Int], ListOK(nx, pv, L, r), NEW e \in Alarms \ L,
         NEW m \in Int, \A a \in L : r[a] > m
  PROVE  ListOK([nx EXCEPT ![e] = nx[alt_alarm_list], ![alt_alarm_list] = e],
                [pv EXCEPT ![e] = alt_alarm_list, ![nx[alt_alarm_list]] = e],
                L \cup {e}, [r EXCEPT ![e] = m])
<1> DEFINE h == alt_alarm_list
           nx2 == [nx EXCEPT ![e] = nx[h], ![h] = e]
           pv2 == [pv EXCEPT ![e] = h, ![nx[h]] = e]
           r2 == [r EXCEPT ![e] = m]
           L2 == L \cup {e}
<1>1. /\ nx \in [List -> List] /\ pv \in [List -> List]
      /\ \A a \in List : pv[nx[a]] = a /\ nx[pv[a]] = a
      /\ \A a \in Alarms \ L : nx[a] = a
      /\ \A a, b \in L : r[a] = r[b] => a = b
      /\ h \notin Alarms /\ h \in List /\ Alarms \subseteq List /\ e \in List
  BY DEF ListOK, ClockAssumption, List
<1>2. Chained(nx, L, r)
  BY DEF ListOK
<1>3. /\ nx2 \in [List -> List] /\ pv2 \in [List -> List]
      /\ \A a \in List : nx2[a] = IF a = h THEN e ELSE IF a = e THEN nx[h] ELSE nx[a]
      /\ \A a \in List : pv2[a] = IF a = nx[h] THEN e ELSE IF a = e THEN h ELSE pv[a]
  BY <1>1
<1>4. nx[e] = e /\ pv[e] = e /\ nx[h] # e /\ e # h
  <2>1. nx[e] = e /\ pv[nx[e]] = e /\ pv[nx[h]] = h /\ e # h
    BY <1>1
  <2> QED BY <2>1
<1>5. \A a \in List : pv2[nx2[a]] = a /\ nx2[pv2[a]] = a
  <2> SUFFICES ASSUME NEW a \in List PROVE pv2[nx2[a]] = a /\ nx2[pv2[a]] = a
    OBVIOUS
  <2>1. /\ nx[a] \in List /\ pv[a] \in List /\ nx[h] \in List
        /\ pv[nx[a]] = a /\ nx[pv[a]] = a /\ pv[nx[h]] = h
    BY <1>1
  <2> HIDE DEF nx2, pv2
  <2>2. pv2[nx2[a]] = a
    <3>1. CASE a = h
      BY <1>1, <1>3, <1>4, <3>1
    <3>2. CASE a = e
      BY <1>3, <1>4, <2>1, <3>2
    <3>3. CASE a # e /\ a # h
      <4>1. nx2[a] = nx[a] /\ nx[a] # e /\ nx[a] # nx[h]
        BY <1>3, <1>4, <2>1, <3>3
      <4> QED BY <1>3, <2>1, <4>1
    <3> QED BY <3>1, <3>2, <3>3
  <2>3. nx2[pv2[a]] = a
    <3>1. CASE a = nx[h]
      BY <1>1, <1>3, <1>4, <3>1
    <3>2. CASE a = e
      BY <1>1, <1>3, <1>4, <3>2
    <3>3. CASE a # e /\ a # nx[h]
      <4>1. pv2[a] = pv[a] /\ pv[a] # e /\ pv[a] # h
        BY <1>3, <1>4, <2>1, <3>3
      <4> QED BY <1>3, <2>1, <4>1
    <3> QED BY <3>1, <3>2, <3>3
  <2> QED BY <2>2, <2>3
<1>6. \A a \in Alarms \ L2 : nx2[a] = a
  <2> SUFFICES ASSUME NEW a \in Alarms \ L2 PROVE nx2[a] = a
    OBVIOUS
  <2>1. a \in List /\ a # h /\ a # e /\ nx[a] = a
    BY <1>1
  <2> QED BY <1>3, <2>1
<1>7. r2 \in [Alarms -> Int] /\ r2[e] = m /\ \A a \in L : r2[a] = r[a] /\ r2[a] > m
  OBVIOUS
<1>8. \A a, b \in L2 : r2[a] = r2[b] => a = b
  BY <1>1, <1>7
<1>9. Chained(nx2, L2, r2)
  <2> SUFFICES ASSUME NEW a \in L2 \cup {h}
               PROVE  IF nx2[a] = h THEN After(L2, r2, a) = {}
                      ELSE /\ nx2[a] \in After(L2, r2, a)
                           /\ \A b \in After(L2, r2, a) : r2[nx2[a]] <= r2[b]
    BY DEF Chained
  <2>1. CASE a = h
    <3>1. nx2[a] = e /\ e # h /\ After(L2, r2, a) = L2
      BY <1>1, <1>3, <2>1 DEF After
    <3>2. e \in L2 /\ r2[e] = m /\ \A b \in L2 : r2[b] \in Int /\ r2[b] >= m
      BY <1>7
    <3> HIDE DEF r2, nx2, L2
    <3> QED BY <3>1, <3>2
  <2>2. CASE a \in L2
    <3> DEFINE c == IF a = e THEN h ELSE a
    <3>1. a # h /\ c \in L \cup {h} /\ nx2[a] = nx[c]
      BY <1>1, <1>3, <2>2
    <3>2. After(L2, r2, a) = After(L, r, c)
      <4>1. CASE a = e
        <5>1. After(L, r, c) = L
          BY <4>1 DEF After
        <5>2. After(L2, r2, a) = L
          BY <1>7, <3>1, <4>1 DEF After
        <5> QED BY <5>1, <5>2
      <4>2. CASE a # e
        <5>1. a \in L /\ c = a /\ r2[a] = r[a] /\ r2[a] > m /\ r[a] \in Int
          BY <1>7, <2>2, <4>2
        <5>2. \A b \in L2 : r2[b] > r2[a] <=> b \in L /\ r[b] > r[a]
          BY <1>7, <5>1
        <5> QED BY <3>1, <5>1, <5>2 DEF After
      <4> QED BY <4>1, <4>2
    <3>3. After(L, r, c) \subseteq L
      BY DEF After
    <3>4. IF nx[c] = h THEN After(L, r, c) = {}
          ELSE nx[c] \in After(L, r, c) /\ \A b \in After(L, r, c) : r[nx[c]] <= r[b]
      BY <1>2, <3>1 DEF Chained
    <3> HIDE DEF c
    <3>5. \A b \in After(L, r, c) : r2[b] = r[b]
      BY <1>7, <3>3
    <3> QED BY <3>1, <3>2, <3>4, <3>5
  <2> QED BY <2>1, <2>2
<1> QED BY <1>3, <1>5, <1>6, <1>8, <1>9 DEF ListOK
\* What is linked after a.
LEMMA Following ==
  ASSUME ClockAssumption, NEW nx, NEW pv, NEW L \in SUBSET Alarms, NEW r \in [Alarms -> Int],
         ListOK(nx, pv, L, r), NEW a \in L \cup {alt_alarm_list}
  PROVE  /\ nx[a] \in L \cup {alt_alarm_list}
         /\ nx[a] = alt_alarm_list => After(L, r, a) = {}
         /\ nx[a] # alt_alarm_list => After(L, r, a) = {b \in L : r[b] >= r[nx[a]]}
<1> DEFINE h == alt_alarm_list
<1>1. IF nx[a] = h THEN After(L, r, a) = {}
      ELSE nx[a] \in After(L, r, a) /\ \A b \in After(L, r, a) : r[nx[a]] <= r[b]
  BY DEF ListOK, Chained
<1>2. nx[a] # h => nx[a] \in L /\ (a = h \/ r[nx[a]] > r[a])
  BY <1>1 DEF After
<1>3. ASSUME nx[a] # h PROVE After(L, r, a) = {b \in L : r[b] >= r[nx[a]]}
  <2>1. \A b \in After(L, r, a) : b \in L /\ r[b] >= r[nx[a]]
    <3> SUFFICES ASSUME NEW b \in After(L, r, a) PROVE b \in L /\ r[b] >= r[nx[a]]
      OBVIOUS
    <3>1. b \in L /\ r[b] \in Int /\ r[nx[a]] \in Int /\ r[nx[a]] <= r[b]
      BY <1>1, <1>2, <1>3 DEF After
    <3> QED BY <3>1
  <2>2. ASSUME NEW b \in L, r[b] >= r[nx[a]] PROVE b \in After(L, r, a)
    <3>1. CASE a = h
      BY <3>1 DEF After
    <3>2. CASE a # h
      <4>1. r[b] \in Int /\ r[nx[a]] \in Int /\ r[a] \in Int /\ r[nx[a]] > r[a]
        BY <1>2, <1>3, <3>2
      <4> QED BY <2>2, <4>1 DEF After
    <3> QED BY <3>1, <3>2
  <2> QED BY <2>1, <2>2 DEF After
<1> QED BY <1>1, <1>2, <1>3

LEMMA Unlinked ==
  ASSUME ClockAssumption, NEW nx, NEW pv, NEW L \in SUBSET Alarms, NEW r \in [Alarms -> Int],
         ListOK(nx, pv, L, r), NEW a \in Alarms, nx[a] = a
  PROVE  a \notin L
<1> SUFFICES ASSUME a \in L PROVE FALSE
  OBVIOUS
<1>1. a # alt_alarm_list /\ r[a] \in Int
  BY DEF ClockAssumption
<1>2. a \in After(L, r, a)
  BY <1>1 DEF ListOK, Chained
<1> QED BY <1>1, <1>2 DEF After

\* The counter goes round once at most.
LEMMA OneRound ==
  ASSUME W \in Nat \ {0}, NEW x \in Nat, x < 2 * W
  PROVE  x % W = IF x < W THEN x ELSE x - W
<1>1. CASE x < W
  BY <1>1
<1>2. CASE x >= W
  <2>1. x = W + (x - W) /\ x - W \in 0 .. W - 1
    BY <1>2
  <2> QED BY <1>2, <2>1
<1> QED BY <1>1, <1>2

-----------------------------------------------------------------------------
(* What the two calls of the program do.                                   *)

LEMMA Stops ==
  ASSUME ClockAssumption, TypeOK, NEW r \in [Alarms -> Int],
         ListOK(next, previous, Started, r), NEW a \in Alarms, alarm_stop(a)
  PROVE  /\ Started' = Started \ {a} /\ ListOK(next', previous', Started', r)
         /\ due' \in [Alarms -> Nat] /\ due'[a] = 0 /\ \A b \in Alarms : b # a => due'[b] = due[b]
         /\ time' = time /\ rollover' = rollover
<1>1. /\ due' = [due EXCEPT ![a] = 0] /\ time' = time /\ rollover' = rollover
      /\ next' = [next EXCEPT ![previous[a]] = next[a], ![a] = a]
      /\ previous' = [previous EXCEPT ![next[a]] = previous[a], ![a] = a]
  BY DEF alarm_stop, llist_remove
<1>2. due' \in [Alarms -> Nat] /\ due'[a] = 0 /\ \A b \in Alarms : b # a => due'[b] = due[b]
  BY <1>1 DEF TypeOK
<1>3. Started' = Started \ {a}
  BY <1>2 DEF Started
<1>4. Started \in SUBSET Alarms
  BY DEF Started
<1>5. ListOK(next', previous', Started \ {a}, r)
  BY <1>1, <1>4, Removed
<1> QED BY <1>1, <1>2, <1>3, <1>5

LEMMA Starts ==
  ASSUME ClockAssumption, TypeOK, NEW r \in [Alarms -> Int], NEW m \in Int,
         ListOK(next, previous, Started, r), \A b \in Started : r[b] > m,
         UNCHANGED <<nticks, total>>,
         NEW a \in Alarms, NEW n \in Delays, alarm_start(a, n)
  PROVE  /\ a \notin Started /\ Started' = Started \cup {a}
         /\ ListOK(next', previous', Started', [r EXCEPT ![a] = m])
         /\ due' \in [Alarms -> Nat] /\ \A b \in Alarms : b # a => due'[b] = due[b]
         /\ time' \in [Alarms -> 0 .. W - 1] /\ \A b \in Alarms : b # a => time'[b] = time[b]
         /\ rollover' \in [Alarms -> BOOLEAN] /\ \A b \in Alarms : b # a => rollover'[b] = rollover[b]
         /\ Ahead(a)'
<1>1. /\ next[a] = a /\ rollover' = [rollover EXCEPT ![a] = time'[a] < nticks]
      /\ due' = [due EXCEPT ![a] = total + n + 1]
      /\ next' = [next EXCEPT ![a] = next[alt_alarm_list], ![alt_alarm_list] = a]
      /\ previous' = [previous EXCEPT ![a] = alt_alarm_list, ![next[alt_alarm_list]] = a]
  BY DEF alarm_start, llist_insert, Linked
<1>2. time' = [time EXCEPT ![a] = (n + nticks + 1) % W]
  BY DEF alarm_start
<1>3. /\ W \in Nat \ {0} /\ n \in 0 .. W - 2 /\ nticks \in 0 .. W - 1 /\ total \in Nat
      /\ time \in [Alarms -> 0 .. W - 1] /\ rollover \in [Alarms -> BOOLEAN]
      /\ due \in [Alarms -> Nat]
  BY DEF ClockAssumption, TypeOK
<1> DEFINE x == n + nticks + 1
           t == IF x < W THEN x ELSE x - W
<1>4. x \in Nat /\ x < 2 * W /\ t \in 0 .. W - 1
  BY <1>3
<1>5. x % W = t
  BY <1>3, <1>4, OneRound
<1>6. time' = [time EXCEPT ![a] = t]
  BY <1>2, <1>5
<1>7. /\ time' \in [Alarms -> 0 .. W - 1] /\ time'[a] = t
      /\ \A b \in Alarms : b # a => time'[b] = time[b]
  <2> HIDE DEF t
  <2> QED BY <1>3, <1>4, <1>6
<1>8. /\ rollover' \in [Alarms -> BOOLEAN] /\ rollover'[a] = (t < nticks)
      /\ \A b \in Alarms : b # a => rollover'[b] = rollover[b]
  <2> HIDE DEF t
  <2> QED BY <1>1, <1>3, <1>7
<1>9. /\ due' \in [Alarms -> Nat] /\ due'[a] = total + n + 1
      /\ \A b \in Alarms : b # a => due'[b] = due[b]
  BY <1>1, <1>3
<1>10. a \notin Started /\ Started \in SUBSET Alarms
  <2>1. Started \in SUBSET Alarms
    BY DEF Started
  <2> QED BY <1>1, <2>1, Unlinked
<1>11. Started' = Started \cup {a}
  <2>1. due'[a] # 0
    BY <1>3, <1>9
  <2> QED BY <1>9, <2>1 DEF Started
<1>12. ListOK(next', previous', Started \cup {a}, [r EXCEPT ![a] = m])
  BY <1>1, <1>10, Inserted
<1>13. Ahead(a)'
  <2>1. nticks' = nticks /\ total' = total
    OBVIOUS
  <2>2. due'[a] - total = n + 1 /\ n + 1 \in 1 .. W - 1
    BY <1>3, <1>9
  <2>3. nticks + (n + 1) = x
    BY <1>3
  <2>4. (t < nticks) <=> x >= W
    BY <1>3
  <2> HIDE DEF x
  <2> QED BY <1>7, <1>8, <2>1, <2>2, <2>3, <2>4 DEF Ahead, Timed, Unwrapped
<1> QED BY <1>7, <1>8, <1>9, <1>10, <1>11, <1>12, <1>13

LEMMA Programs ==
  ASSUME ClockAssumption, IInv, Program
  PROVE  IInv'
<1> PICK r \in [Alarms -> Int] : Ranked(r) /\ \E m \in Int : \A a \in Started : r[a] > m
  BY DEF IInv
<1> PICK m \in Int : \A a \in Started : r[a] > m
  OBVIOUS
<1>1. /\ TypeOK /\ fired.at = fired.due /\ tick = Idle /\ tick' = tick /\ fired' = fired
      /\ nticks' = nticks /\ total' = total /\ rate' = rate
      /\ ListOK(next, previous, Started, r) /\ Timely(r) /\ tick.pc = "idle"
  BY DEF IInv, Program, Ranked, Idle
<1>2. \A b \in Started : Ahead(b)
  BY <1>1 DEF Timely, Pending
<1>3. \A q \in [Alarms -> Int] : Walking(q)'
  BY <1>1 DEF Walking
<1>4. ASSUME \A b \in Started' : Ahead(b)' PROVE \A q \in [Alarms -> Int] : Timely(q)'
  BY <1>1, <1>4 DEF Timely, Pending
<1>5. ASSUME NEW a \in Alarms, alarm_stop(a) PROVE IInv'
  <2>1. /\ Started' = Started \ {a} /\ ListOK(next', previous', Started', r)
        /\ due' \in [Alarms -> Nat] /\ \A b \in Alarms : b # a => due'[b] = due[b]
        /\ time' = time /\ rollover' = rollover
    BY <1>1, <1>5, Stops
  <2>2. TypeOK'
    BY <1>1, <2>1 DEF TypeOK
  <2>3. \A b \in Started' : Ahead(b)'
    <3> TAKE b \in Started'
    <3>1. b \in Started /\ due'[b] = due[b]
      BY <2>1 DEF Started
    <3>2. Ahead(b)
      BY <1>2, <3>1
    <3> QED BY <1>1, <2>1, <3>1, <3>2 DEF Ahead, Timed, Unwrapped
  <2>4. Ranked(r)'
    BY <1>3, <1>4, <2>1, <2>3 DEF Ranked
  <2>5. \A b \in Started' : r[b] > m
    BY <2>1
  <2> QED BY <1>1, <2>2, <2>4, <2>5 DEF IInv
<1>6. ASSUME NEW a \in Alarms, NEW n \in Delays, alarm_start(a, n) PROVE IInv'
  <2> DEFINE q == [r EXCEPT ![a] = m]
  <2>1. /\ a \notin Started /\ Started' = Started \cup {a} /\ ListOK(next', previous', Started', q)
        /\ due' \in [Alarms -> Nat] /\ \A b \in Alarms : b # a => due'[b] = due[b]
        /\ time' \in [Alarms -> 0 .. W - 1] /\ \A b \in Alarms : b # a => time'[b] = time[b]
        /\ rollover' \in [Alarms -> BOOLEAN] /\ \A b \in Alarms : b # a => rollover'[b] = rollover[b]
        /\ Ahead(a)'
    BY <1>1, <1>6, Starts
  <2>2. TypeOK'
    BY <1>1, <2>1 DEF TypeOK
  <2>3. \A b \in Started' : Ahead(b)'
    <3> SUFFICES ASSUME NEW b \in Started', b # a PROVE Ahead(b)'
      BY <2>1
    <3>1. b \in Started /\ b \in Alarms
      BY <2>1 DEF Started
    <3>2. Ahead(b) /\ due'[b] = due[b] /\ time'[b] = time[b] /\ rollover'[b] = rollover[b]
      BY <1>2, <2>1, <3>1
    <3> QED BY <1>1, <3>2 DEF Ahead, Timed, Unwrapped
  <2>4. q \in [Alarms -> Int] /\ Started \subseteq Alarms
    BY DEF Started
  <2>5. Ranked(q)'
    BY <1>3, <1>4, <2>1, <2>3, <2>4 DEF Ranked
  <2>6. \A b \in Started' : q[b] > m - 1
    BY <2>1, <2>4
  <2>7. m - 1 \in Int
    OBVIOUS
  <2> HIDE DEF q
  <2> QED BY <1>1, <2>2, <2>4, <2>5, <2>6, <2>7 DEF IInv
<1> QED BY <1>5, <1>6 DEF Program

-----------------------------------------------------------------------------
(* The interrupt.                                                          *)

LEMMA Ticks ==
  ASSUME ClockAssumption, IInv, Tick
  PROVE  IInv'
<1> DEFINE h == alt_alarm_list
<1> PICK r \in [Alarms -> Int] : Ranked(r) /\ \E m \in Int : \A a \in Started : r[a] > m
  BY DEF IInv
<1>1. /\ TypeOK /\ fired.at = fired.due /\ tick = Idle /\ fired' = fired
      /\ total' = total + 1 /\ nticks' = (nticks + 1) % W /\ tick' = Goto(next[h])
      /\ next' = next /\ previous' = previous /\ time' = time /\ rollover' = rollover /\ due' = due
      /\ ListOK(next, previous, Started, r) /\ Timely(r) /\ tick.pc = "idle"
  BY DEF IInv, Tick, Ranked, Idle, alarms
<1>2. \A b \in Started : Ahead(b)
  BY <1>1 DEF Timely, Pending
<1>3. /\ W \in Nat \ {0} /\ nticks \in 0 .. W - 1 /\ total \in Nat /\ h \notin Alarms
      /\ Started \in SUBSET Alarms /\ Started' = Started
  BY <1>1 DEF ClockAssumption, TypeOK, Started
<1>4. nticks' = IF nticks + 1 < W THEN nticks + 1 ELSE 0
  <2> DEFINE x == nticks + 1
  <2>1. x \in Nat /\ x < 2 * W
    BY <1>3
  <2>2. nticks' = x % W
    BY <1>1
  <2>3. x <= W
    BY <1>3
  <2> HIDE DEF x
  <2>4. x % W = IF x < W THEN x ELSE x - W
    BY <1>3, <2>1, OneRound
  <2>5. nticks' = IF x < W THEN x ELSE 0
    BY <1>3, <2>1, <2>2, <2>3, <2>4
  <2> QED BY <2>5 DEF x
<1>5. /\ next[h] \in Started \cup {h} /\ h \in List
      /\ next[h] = h => Started = {}
      /\ next[h] # h => \A b \in Started : r[b] >= r[next[h]]
  <2>1. After(Started, r, h) = Started
    BY DEF After
  <2> QED BY <1>1, <1>3, <2>1, Following DEF List
<1>6. Pending(r)' = Started
  <2>1. CASE next[h] = h
    <3>1. tick'.pc = "idle" /\ Started = {}
      BY <1>1, <1>5, <2>1 DEF Goto, Idle
    <3> QED BY <3>1 DEF Pending
  <2>2. CASE next[h] # h
    <3>1. tick'.pc = "visit" /\ tick'.alarm = next[h]
      BY <1>1, <2>2 DEF Goto
    <3> QED BY <1>3, <1>5, <2>2, <3>1 DEF Pending
  <2> QED BY <2>1, <2>2
<1>7. Walking(r)'
  <2>1. CASE next[h] = h
    BY <1>1, <2>1 DEF Walking, Goto, Idle
  <2>2. CASE next[h] # h
    BY <1>1, <1>3, <1>5, <2>2 DEF Walking, Goto
  <2> QED BY <2>1, <2>2
<1>8. TypeOK'
  <2>1. nticks' \in 0 .. W - 1 /\ total' \in Nat
    BY <1>1, <1>3, <1>4
  <2>2. tick' \in [pc : {"idle", "visit", "return"}, alarm : List, next : List]
    BY <1>1, <1>3, <1>5 DEF Goto, Idle, List
  <2> QED BY <1>1, <2>1, <2>2 DEF TypeOK
<1>9. Timely(r)'
  <2> SUFFICES ASSUME NEW b \in Started PROVE InTurn(b)'
    BY <1>3, <1>6 DEF Timely
  <2> DEFINE d == due[b] - total
  <2>1. /\ d \in 1 .. W - 1 /\ time[b] \in Int
        /\ time[b] = IF nticks + d < W THEN nticks + d ELSE nticks + d - W
        /\ rollover[b] <=> nticks + d >= W
    BY <1>1, <1>2, <1>3 DEF Ahead, Timed, Unwrapped, TypeOK
  <2>2. (due[b] - total)' = d - 1
    <3>1. due[b] \in Nat
      BY <1>1, <1>3 DEF TypeOK
    <3> QED BY <1>1, <1>3, <3>1
  <2> HIDE DEF d
  <2>3. d - 1 \in 0 .. W - 2
    BY <1>3, <2>1
  <2>4. /\ time[b] = IF nticks' + (d - 1) < W THEN nticks' + (d - 1) ELSE nticks' + (d - 1) - W
        /\ nticks + d >= W <=> (nticks' = 0 \/ nticks' + (d - 1) >= W)
    BY <1>3, <1>4, <2>1
  <2>5. time'[b] = time[b] /\ rollover'[b] = rollover[b]
    BY <1>1
  <2>6. Unwrapped(b)' = nticks' + (d - 1) /\ d \in Int /\ nticks' \in Int
    BY <1>3, <1>4, <2>1, <2>2 DEF Unwrapped
  <2>7. Timed(b)'
    BY <1>3, <2>4, <2>5, <2>6 DEF Timed
  <2>8. rollover'[b] <=> (nticks' = 0 \/ Unwrapped(b)' >= W)
    BY <2>1, <2>4, <2>5, <2>6
  <2> QED BY <2>2, <2>3, <2>7, <2>8 DEF InTurn
<1>10. Ranked(r)'
  BY <1>1, <1>3, <1>7, <1>9 DEF Ranked
<1> QED BY <1>1, <1>3, <1>8, <1>10 DEF IInv

\* What alt_tick has before it once it has done with alarm a.
LEMMA Onwards ==
  ASSUME ClockAssumption, NEW nx, NEW pv, NEW L \in SUBSET Alarms, NEW r \in [Alarms -> Int],
         ListOK(nx, pv, L, r), NEW a \in L
  PROVE  /\ nx[a] \in L \cup {alt_alarm_list} /\ nx[a] # a
         /\ \A b \in L : nx[a] # alt_alarm_list /\ r[b] >= r[nx[a]] <=> r[b] >= r[a] /\ b # a
<1> DEFINE h == alt_alarm_list
<1>1. /\ nx[a] \in L \cup {h} /\ (nx[a] = h => After(L, r, a) = {})
      /\ nx[a] # h => After(L, r, a) = {b \in L : r[b] >= r[nx[a]]}
  BY Following
<1>2. a # h /\ r[a] \in Int /\ \A b \in L : r[b] \in Int /\ (r[b] = r[a] => b = a)
  BY DEF ClockAssumption, ListOK
<1>3. After(L, r, a) = {b \in L : r[b] >= r[a]} \ {a}
  <2>1. \A b \in L : r[b] > r[a] <=> r[b] >= r[a] /\ b # a
    BY <1>2
  <2> QED BY <1>2, <2>1 DEF After
<1>4. nx[a] # a
  <2> SUFFICES ASSUME nx[a] = a PROVE FALSE
    OBVIOUS
  <2>1. a \in After(L, r, a)
    BY <1>1, <1>2
  <2> QED BY <1>3, <2>1
<1> QED BY <1>1, <1>3, <1>4

LEMMA Passes ==
  ASSUME ClockAssumption, IInv, NEW a \in Alarms, Pass(a)
  PROVE  IInv'
<1> DEFINE h == alt_alarm_list
<1> PICK r \in [Alarms -> Int] : Ranked(r) /\ \E m \in Int : \A b \in Started : r[b] > m
  BY DEF IInv
<1>1. /\ TypeOK /\ fired.at = fired.due /\ tick.pc = "visit" /\ tick.alarm = a /\ fired' = fired
      /\ total' = total /\ nticks' = nticks /\ tick' = Goto(next[a])
      /\ next' = next /\ previous' = previous /\ time' = time /\ due' = due
      /\ rollover' = [rollover EXCEPT ![a] = Rolled(a)] /\ ~Expired(a)
      /\ ListOK(next, previous, Started, r) /\ Timely(r) /\ Walking(r)
  BY DEF IInv, Pass, Ranked
<1>2. /\ W \in Nat \ {0} /\ nticks \in 0 .. W - 1 /\ total \in Nat /\ h \notin Alarms
      /\ Started \in SUBSET Alarms /\ Started' = Started /\ a \in Started
  BY <1>1 DEF ClockAssumption, TypeOK, Started, Walking
<1>3. /\ next[a] \in Started \cup {h} /\ next[a] # a
      /\ \A b \in Started : next[a] # h /\ r[b] >= r[next[a]] <=> r[b] >= r[a] /\ b # a
  <2>1. ListOK(next, previous, Started, r) /\ Started \in SUBSET Alarms /\ a \in Started
    BY <1>1, <1>2
  <2> QED BY <2>1, Onwards
<1>4. Pending(r) = {b \in Started : r[b] >= r[a]}
  BY <1>1 DEF Pending
<1>5. Pending(r)' = Pending(r) \ {a}
  <2>1. CASE next[a] = h
    <3>1. tick'.pc = "idle"
      BY <1>1, <2>1 DEF Goto, Idle
    <3> QED BY <1>3, <1>4, <2>1, <3>1 DEF Pending
  <2>2. CASE next[a] # h
    <3>1. tick'.pc = "visit" /\ tick'.alarm = next[a]
      BY <1>1, <2>2 DEF Goto
    <3> QED BY <1>2, <1>3, <1>4, <2>2, <3>1 DEF Pending
  <2> QED BY <2>1, <2>2
<1>6. Walking(r)' /\ tick'.pc # "return"
  <2>1. CASE next[a] = h
    BY <1>1, <2>1 DEF Walking, Goto, Idle
  <2>2. CASE next[a] # h
    BY <1>1, <1>2, <1>3, <2>2 DEF Walking, Goto
  <2> QED BY <2>1, <2>2
<1>7. (Rolled(a) <=> rollover[a] /\ nticks # 0) /\ Rolled(a) \in BOOLEAN
  BY DEF Rolled
<1>8. /\ rollover' \in [Alarms -> BOOLEAN] /\ (rollover'[a] <=> rollover[a] /\ nticks # 0)
      /\ \A b \in Alarms : b # a => rollover'[b] = rollover[b]
  <2> DEFINE x == Rolled(a)
  <2>1. rollover' = [rollover EXCEPT ![a] = x] /\ x \in BOOLEAN /\ (x <=> rollover[a] /\ nticks # 0)
    BY <1>1, <1>7
  <2> HIDE DEF x
  <2> QED BY <1>1, <2>1 DEF TypeOK
<1>9. TypeOK'
  <2>1. tick' \in [pc : {"idle", "visit", "return"}, alarm : List, next : List]
    BY <1>1, <1>2, <1>3 DEF Goto, Idle, List
  <2> QED BY <1>1, <1>8, <2>1 DEF TypeOK
<1>10. Timely(r)'
  <2> SUFFICES ASSUME NEW b \in Started PROVE IF b \in Pending(r)' THEN InTurn(b)' ELSE Ahead(b)'
    BY <1>2, <1>6 DEF Timely
  <2>1. CASE b # a
    <3>1. rollover'[b] = rollover[b]
      BY <1>2, <1>8, <2>1
    <3>2. b \in Pending(r)' <=> b \in Pending(r)
      BY <1>5, <2>1
    <3>3. IF b \in Pending(r) THEN InTurn(b) ELSE Ahead(b)
      BY <1>1 DEF Timely
    <3> QED BY <1>1, <3>1, <3>2, <3>3 DEF InTurn, Ahead, Timed, Unwrapped
  <2>2. CASE b = a
    <3> DEFINE d == due[a] - total
    <3>1. a \in Pending(r)
      BY <1>2, <1>4
    <3>2. /\ d \in 0 .. W - 2 /\ time[a] \in Int
          /\ time[a] = IF nticks + d < W THEN nticks + d ELSE nticks + d - W
          /\ rollover[a] <=> (nticks = 0 \/ nticks + d >= W)
      BY <1>1, <1>2, <3>1 DEF Timely, InTurn, Timed, Unwrapped, TypeOK
    <3>3. ~(time[a] <= nticks /\ ~(rollover[a] /\ nticks # 0))
      BY <1>1 DEF Expired, Rolled
    <3> HIDE DEF d
    <3>4. d \in 1 .. W - 1 /\ (rollover[a] /\ nticks # 0 <=> nticks + d >= W)
      <4>1. CASE nticks = 0
        BY <1>2, <3>2, <3>3, <4>1
      <4>2. CASE nticks # 0 /\ nticks + d >= W
        BY <1>2, <3>2, <4>2
      <4>3. CASE nticks # 0 /\ nticks + d < W
        <5>1. ~rollover[a] /\ time[a] = nticks + d
          BY <1>2, <3>2, <4>3
        <5> QED BY <1>2, <3>2, <3>3, <4>3, <5>1
      <4> QED BY <1>2, <3>2, <4>1, <4>2, <4>3
    <3>5. total' = total /\ nticks' = nticks /\ time' = time /\ due' = due
      BY <1>1
    <3>6. Ahead(a)'
      <4>1. Unwrapped(a)' = nticks + d /\ (due[a] - total)' = d
        BY <3>5 DEF Unwrapped, d
      <4>2. Timed(a)'
        BY <1>2, <3>2, <3>5, <4>1 DEF Timed
      <4>3. rollover'[a] <=> Unwrapped(a)' >= W
        BY <1>8, <3>4, <4>1
      <4> QED BY <3>4, <4>1, <4>2, <4>3 DEF Ahead
    <3> QED BY <1>5, <2>2, <3>6
  <2> QED BY <2>1, <2>2
<1>11. Ranked(r)'
  BY <1>1, <1>2, <1>6, <1>10 DEF Ranked
<1> QED BY <1>1, <1>2, <1>9, <1>11 DEF IInv

LEMMA Calls ==
  ASSUME ClockAssumption, StopsNext = FALSE, IInv, NEW a \in Alarms, Call(a)
  PROVE  IInv'
<1> DEFINE h == alt_alarm_list
<1> PICK r \in [Alarms -> Int] : Ranked(r) /\ \E m \in Int : \A b \in Started : r[b] > m
  BY DEF IInv
<1> PICK m \in Int : \A b \in Started : r[b] > m
  OBVIOUS
<1>1. /\ TypeOK /\ tick.pc = "visit" /\ tick.alarm = a /\ Expired(a)
      /\ tick' = [pc |-> "return", alarm |-> a, next |-> next[a]]
      /\ fired' = [due |-> due[a], at |-> total] /\ total' = total /\ nticks' = nticks
      /\ ListOK(next, previous, Started, r) /\ Timely(r) /\ Walking(r)
  BY DEF IInv, Call, Ranked
<1>2. /\ W \in Nat \ {0} /\ nticks \in 0 .. W - 1 /\ total \in Nat /\ h \notin Alarms
      /\ Started \in SUBSET Alarms /\ a \in Started
  BY <1>1 DEF ClockAssumption, TypeOK, Started, Walking
<1>3. /\ next[a] \in Started \cup {h} /\ next[a] # a
      /\ \A b \in Started : next[a] # h /\ r[b] >= r[next[a]] <=> r[b] >= r[a] /\ b # a
  <2>1. ListOK(next, previous, Started, r) /\ Started \in SUBSET Alarms /\ a \in Started
    BY <1>1, <1>2
  <2> QED BY <2>1, Onwards
<1>4. Pending(r) = {b \in Started : r[b] >= r[a]}
  BY <1>1 DEF Pending
<1>5. due[a] = total /\ time[a] = nticks
  <2> DEFINE d == due[a] - total
  <2>1. a \in Pending(r)
    BY <1>2, <1>4
  <2>2. /\ d \in 0 .. W - 2 /\ time[a] \in Int
        /\ time[a] = IF nticks + d < W THEN nticks + d ELSE nticks + d - W
        /\ rollover[a] <=> (nticks = 0 \/ nticks + d >= W)
    BY <1>1, <1>2, <2>1 DEF Timely, InTurn, Timed, Unwrapped, TypeOK
  <2>3. time[a] <= nticks /\ ~(rollover[a] /\ nticks # 0)
    BY <1>1 DEF Expired, Rolled
  <2>4. due[a] \in Nat
    BY <1>1 DEF TypeOK
  <2> HIDE DEF d
  <2>5. d = 0 /\ time[a] = nticks
    <3>1. CASE nticks + d >= W
      <4>1. nticks # 0
        BY <1>2, <2>2, <3>1
      <4> QED BY <2>2, <2>3, <3>1, <4>1
    <3>2. CASE nticks + d < W
      BY <1>2, <2>2, <2>3, <3>2
    <3> QED BY <1>2, <2>2, <3>1, <3>2
  <2> QED BY <1>2, <2>4, <2>5 DEF d
<1>6. ASSUME NEW q \in [Alarms -> Int], ListOK(next', previous', Started', q), Started' \subseteq Alarms,
             next[a] \in Started' \cup {h},
             \A b \in Started' : next[a] # h /\ q[b] >= q[next[a]] <=> b \in Pending(r) \ {a},
             \A b \in Started' :
               \/ b \in Started /\ due'[b] = due[b] /\ time'[b] = time[b] /\ rollover'[b] = rollover[b]
               \/ b \notin Pending(r) /\ Ahead(b)'
      PROVE  Ranked(q)'
  <2>1. Pending(q)' = {b \in Started' : next[a] # h /\ q[b] >= q[next[a]]}
    BY <1>1 DEF Pending
  <2>2. Walking(q)'
    <3>1. tick'.pc = "return" /\ tick'.alarm = a /\ tick'.next = next[a]
      BY <1>1
    <3>2. a \notin Pending(q)'
      BY <1>6, <2>1
    <3>3. a \in Started' => due'[a] = total /\ time'[a] = nticks
      <4>1. a \in Pending(r)
        BY <1>2, <1>4
      <4> QED BY <1>5, <1>6, <4>1
    <3> QED BY <1>1, <1>6, <3>1, <3>2, <3>3 DEF Walking
  <2>3. ASSUME NEW b \in Started', b # a
        PROVE  IF b \in Pending(q)' THEN InTurn(b)' ELSE Ahead(b)'
    <3>1. b \in Pending(q)' <=> b \in Pending(r)
      BY <1>6, <2>1, <2>3
    <3>2. CASE b \in Started /\ due'[b] = due[b] /\ time'[b] = time[b] /\ rollover'[b] = rollover[b]
      <4>1. IF b \in Pending(r) THEN InTurn(b) ELSE Ahead(b)
        BY <1>1, <3>2 DEF Timely
      <4>2. nticks' = nticks /\ total' = total
        BY <1>1
      <4>3. InTurn(b) => InTurn(b)'
        BY <3>2, <4>2 DEF InTurn, Timed, Unwrapped
      <4>4. Ahead(b) => Ahead(b)'
        BY <3>2, <4>2 DEF Ahead, Timed, Unwrapped
      <4> QED BY <3>1, <4>1, <4>3, <4>4
    <3>3. CASE b \notin Pending(r) /\ Ahead(b)'
      BY <3>1, <3>3
    <3> QED BY <1>6, <3>2, <3>3
  <2>4. Timely(q)'
    <3>1. tick'.alarm = a /\ tick'.pc = "return" /\ a \notin Pending(q)'
      BY <1>1, <1>6, <2>1
    <3> QED BY <2>3, <3>1 DEF Timely
  <2> QED BY <1>6, <2>2, <2>4 DEF Ranked
<1>7. fired'.at = fired'.due
  BY <1>1, <1>5
<1>8. tick' \in [pc : {"idle", "visit", "return"}, alarm : List, next : List]
  BY <1>1, <1>2, <1>3 DEF List
<1>9. \A b \in Started : next[a] # h /\ r[b] >= r[next[a]] <=> b \in Pending(r) \ {a}
  BY <1>3, <1>4
<1>10. ASSUME NEW b \in Alarms \ {a}, NEW n \in Delays, alarm_start(b, n) PROVE IInv'
  <2> DEFINE q == [r EXCEPT ![b] = m]
  <2>1. /\ b \notin Started /\ Started' = Started \cup {b} /\ ListOK(next', previous', Started', q)
        /\ due' \in [Alarms -> Nat] /\ \A c \in Alarms : c # b => due'[c] = due[c]
        /\ time' \in [Alarms -> 0 .. W - 1] /\ \A c \in Alarms : c # b => time'[c] = time[c]
        /\ rollover' \in [Alarms -> BOOLEAN] /\ \A c \in Alarms : c # b => rollover'[c] = rollover[c]
        /\ Ahead(b)'
    <3>1. UNCHANGED <<nticks, total>>
      BY <1>1
    <3> QED BY <1>1, <1>10, <3>1, Starts
  <2>2. TypeOK'
    BY <1>1, <1>8, <2>1 DEF TypeOK
  <2>3. q \in [Alarms -> Int] /\ q[b] = m /\ \A c \in Started : q[c] = r[c] /\ q[c] > m
    BY <1>2, <2>1
  <2>4. b \notin Pending(r)
    BY <1>4, <2>1
  <2> HIDE DEF q
  <2>5. \A c \in Started' : next[a] # h /\ q[c] >= q[next[a]] <=> c \in Pending(r) \ {a}
    <3> SUFFICES ASSUME NEW c \in Started'
                 PROVE  next[a] # h /\ q[c] >= q[next[a]] <=> c \in Pending(r) \ {a}
      OBVIOUS
    <3>1. next[a] # h => next[a] \in Started /\ q[next[a]] = r[next[a]] /\ q[next[a]] > m /\ r[next[a]] \in Int
      BY <1>2, <1>3, <2>3
    <3>2. CASE c = b
      BY <2>3, <2>4, <3>1, <3>2
    <3>3. CASE c \in Started
      <4>1. q[c] = r[c] /\ r[c] \in Int
        BY <1>2, <2>3, <3>3
      <4> QED BY <1>9, <3>1, <3>3, <4>1
    <3> QED BY <2>1, <3>2, <3>3
  <2>6. \A c \in Started' :
          \/ c \in Started /\ due'[c] = due[c] /\ time'[c] = time[c] /\ rollover'[c] = rollover[c]
          \/ c \notin Pending(r) /\ Ahead(c)'
    <3> TAKE c \in Started'
    <3>1. CASE c = b
      BY <2>1, <2>4, <3>1
    <3>2. CASE c \in Started
      BY <1>2, <2>1, <3>2
    <3> QED BY <2>1, <3>1, <3>2
  <2>7. Started' \subseteq Alarms /\ next[a] \in Started' \cup {h}
    BY <1>2, <1>3, <2>1
  <2>8. Ranked(q)'
    BY <1>6, <2>1, <2>3, <2>5, <2>6, <2>7
  <2>9. \A c \in Started' : q[c] > m - 1
    <3> TAKE c \in Started'
    <3>1. q[c] \in Int /\ q[c] >= m
      BY <1>2, <2>1, <2>3
    <3> QED BY <3>1
  <2>10. m - 1 \in Int
    OBVIOUS
  <2> QED BY <1>7, <2>2, <2>3, <2>8, <2>9, <2>10 DEF IInv
<1>11. ASSUME NEW b \in Alarms, b # next[a], alarm_stop(b) PROVE IInv'
  <2>1. /\ Started' = Started \ {b} /\ ListOK(next', previous', Started', r)
        /\ due' \in [Alarms -> Nat] /\ \A c \in Alarms : c # b => due'[c] = due[c]
        /\ time' = time /\ rollover' = rollover
    BY <1>1, <1>11, Stops
  <2>2. TypeOK'
    BY <1>1, <1>8, <2>1 DEF TypeOK
  <2>3. Started' \subseteq Alarms /\ next[a] \in Started' \cup {h}
    BY <1>2, <1>3, <1>11, <2>1
  <2>4. \A c \in Started' : c \in Started /\ due'[c] = due[c] /\ time'[c] = time[c] /\ rollover'[c] = rollover[c]
    BY <1>2, <2>1
  <2>5. Ranked(r)'
    BY <1>6, <1>9, <2>1, <2>3, <2>4
  <2>6. \A c \in Started' : r[c] > m
    BY <2>1
  <2> QED BY <1>7, <2>2, <2>5, <2>6 DEF IInv
<1>12. ASSUME UNCHANGED <<alarms, due>> PROVE IInv'
  <2>1. /\ next' = next /\ previous' = previous /\ time' = time /\ rollover' = rollover /\ due' = due
        /\ Started' = Started
    BY <1>12 DEF alarms, Started
  <2>2. TypeOK'
    BY <1>1, <1>8, <2>1 DEF TypeOK
  <2>3. Ranked(r)'
    BY <1>1, <1>2, <1>3, <1>6, <1>9, <2>1
  <2> QED BY <1>7, <2>1, <2>2, <2>3 DEF IInv
<1>13. \/ \E b \in Alarms \ {a}, n \in Delays : alarm_start(b, n)
       \/ \E b \in Alarms : b # next[a] /\ alarm_stop(b)
       \/ UNCHANGED <<alarms, due>>
  BY DEF Call
<1> QED BY <1>10, <1>11, <1>12, <1>13

LEMMA Returns ==
  ASSUME ClockAssumption, IInv, NEW a \in Alarms, NEW p \in Periods, Return(a, p)
  PROVE  IInv'
<1> DEFINE h == alt_alarm_list
           x == tick.next
<1> PICK r \in [Alarms -> Int] : Ranked(r) /\ \E m \in Int : \A b \in Started : r[b] > m
  BY DEF IInv
<1> PICK m \in Int : \A b \in Started : r[b] > m
  OBVIOUS
<1>1. /\ TypeOK /\ fired.at = fired.due /\ fired' = fired /\ tick.pc = "return" /\ tick.alarm = a
      /\ tick' = Goto(x) /\ total' = total /\ nticks' = nticks
      /\ ListOK(next, previous, Started, r) /\ Timely(r) /\ Walking(r)
  BY DEF IInv, Return, Ranked
<1>2. /\ W \in Nat \ {0} /\ nticks \in 0 .. W - 1 /\ total \in Nat /\ h \notin Alarms /\ p \in 0 .. W - 1
      /\ Started \in SUBSET Alarms /\ a \notin Pending(r) /\ x \in Started \cup {h}
      /\ a \in Started => due[a] = total /\ time[a] = nticks
  BY <1>1 DEF ClockAssumption, TypeOK, Started, Walking
<1>3. Pending(r) = {b \in Started : x # h /\ r[b] >= r[x]}
  BY <1>1 DEF Pending
<1>4. x # h => x # a /\ x \in Started
  <2> SUFFICES ASSUME x # h PROVE x \in Pending(r)
    BY <1>2
  <2>1. x \in Started /\ r[x] \in Int
    BY <1>2
  <2> QED BY <1>3, <2>1
<1>5. tick' \in [pc : {"idle", "visit", "return"}, alarm : List, next : List]
  BY <1>1, <1>2 DEF Goto, Idle, List
<1>6. ASSUME ListOK(next', previous', Started', r),
             Started' \subseteq Started, Started \ {a} \subseteq Started',
             \A b \in Started' \ {a} :
               due'[b] = due[b] /\ time'[b] = time[b] /\ rollover'[b] = rollover[b],
             a \in Started' => Ahead(a)'
      PROVE  Ranked(r)'
  <2>1. Pending(r)' = Pending(r) /\ Walking(r)' /\ tick'.pc # "return"
    <3>1. CASE x = h
      <4>1. tick' = Idle /\ tick'.pc = "idle"
        BY <1>1, <3>1 DEF Goto, Idle
      <4> QED BY <1>3, <3>1, <4>1 DEF Pending, Walking, Idle
    <3>2. CASE x # h
      <4>1. tick'.pc = "visit" /\ tick'.alarm = x
        BY <1>1, <3>2 DEF Goto
      <4>2. Pending(r)' = {b \in Started' : r[b] >= r[x]}
        BY <4>1 DEF Pending
      <4>3. Pending(r) = {b \in Started : r[b] >= r[x]}
        BY <1>3, <3>2
      <4>4. Pending(r)' = Pending(r)
        BY <1>2, <1>6, <4>2, <4>3
      <4>5. Walking(r)'
        BY <1>4, <1>6, <3>2, <4>1 DEF Walking
      <4> QED BY <4>1, <4>4, <4>5
    <3> QED BY <3>1, <3>2
  <2>2. Timely(r)'
    <3> SUFFICES ASSUME NEW b \in Started'
                 PROVE  IF b \in Pending(r) THEN InTurn(b)' ELSE Ahead(b)'
      BY <2>1 DEF Timely
    <3>1. CASE b = a
      BY <1>2, <1>6, <3>1
    <3>2. CASE b # a
      <4>1. IF b \in Pending(r) THEN InTurn(b) ELSE Ahead(b)
        BY <1>1, <1>6, <3>2 DEF Timely
      <4>2. /\ nticks' = nticks /\ total' = total
            /\ due'[b] = due[b] /\ time'[b] = time[b] /\ rollover'[b] = rollover[b]
        BY <1>1, <1>6, <3>2
      <4>3. InTurn(b) => InTurn(b)'
        BY <4>2 DEF InTurn, Timed, Unwrapped
      <4>4. Ahead(b) => Ahead(b)'
        BY <4>2 DEF Ahead, Timed, Unwrapped
      <4> QED BY <4>1, <4>3, <4>4
    <3> QED BY <3>1, <3>2
  <2> QED BY <1>6, <2>1, <2>2 DEF Ranked
<1>7. ASSUME p = 0, alarm_stop(a) PROVE IInv'
  <2>1. /\ Started' = Started \ {a} /\ ListOK(next', previous', Started', r)
        /\ due' \in [Alarms -> Nat] /\ \A b \in Alarms : b # a => due'[b] = due[b]
        /\ time' = time /\ rollover' = rollover
    BY <1>1, <1>7, Stops
  <2>2. TypeOK'
    BY <1>1, <1>5, <2>1 DEF TypeOK
  <2>3. \A b \in Started' \ {a} :
          due'[b] = due[b] /\ time'[b] = time[b] /\ rollover'[b] = rollover[b]
    BY <1>2, <2>1
  <2>4. Ranked(r)'
    BY <1>6, <2>1, <2>3
  <2>5. \A b \in Started' : r[b] > m
    BY <2>1
  <2> QED BY <1>1, <2>2, <2>4, <2>5 DEF IInv
<1>8. ASSUME p # 0, time' = [time EXCEPT ![a] = (@ + p) % W],
             rollover' = [rollover EXCEPT ![a] = time'[a] < nticks],
             due' = [due EXCEPT ![a] = IF @ = 0 THEN 0 ELSE @ + p],
             next' = next, previous' = previous
      PROVE  IInv'
  <2> DEFINE y == time[a] + p
             t == IF y < W THEN y ELSE y - W
             d == IF due[a] = 0 THEN 0 ELSE due[a] + p
  <2>1. /\ time \in [Alarms -> 0 .. W - 1] /\ rollover \in [Alarms -> BOOLEAN]
        /\ due \in [Alarms -> Nat] /\ p \in 1 .. W - 1
    BY <1>1, <1>2, <1>8 DEF TypeOK
  <2>2. y \in Nat /\ y < 2 * W /\ t \in 0 .. W - 1
    BY <1>2, <2>1
  <2>3. y % W = t
    BY <1>2, <2>2, OneRound
  <2>4. time' = [time EXCEPT ![a] = t]
    BY <1>8, <2>3
  <2>5. /\ time' \in [Alarms -> 0 .. W - 1] /\ time'[a] = t
        /\ \A b \in Alarms : b # a => time'[b] = time[b]
    <3> HIDE DEF t
    <3> QED BY <2>1, <2>2, <2>4
  <2>6. /\ rollover' \in [Alarms -> BOOLEAN] /\ rollover'[a] = (t < nticks)
        /\ \A b \in Alarms : b # a => rollover'[b] = rollover[b]
    <3> HIDE DEF t
    <3> QED BY <1>8, <2>1, <2>5
  <2>7. /\ due' \in [Alarms -> Nat] /\ due'[a] = d
        /\ \A b \in Alarms : b # a => due'[b] = due[b]
    BY <1>8, <2>1
  <2>8. Started' = Started
    <3>1. due'[a] # 0 <=> due[a] # 0
      BY <2>1, <2>7
    <3> HIDE DEF d
    <3> QED BY <2>7, <3>1 DEF Started
  <2>9. a \in Started' => Ahead(a)'
    <3> SUFFICES ASSUME a \in Started PROVE Ahead(a)'
      BY <2>8
    <3>1. due[a] = total /\ time[a] = nticks /\ due[a] # 0
      BY <1>2 DEF Started
    <3>2. d = total + p /\ y = nticks + p
      BY <3>1
    <3>3. (due[a] - total)' = p
      BY <1>1, <1>2, <2>1, <2>7, <3>2
    <3>4. Unwrapped(a)' = y
      BY <1>1, <3>2, <3>3 DEF Unwrapped
    <3>5. Timed(a)'
      BY <2>5, <3>4 DEF Timed
    <3>6. (t < nticks) <=> y >= W
      BY <1>2, <2>1, <3>2
    <3>7. rollover'[a] <=> Unwrapped(a)' >= W
      <4> HIDE DEF t, y
      <4> QED BY <2>6, <3>4, <3>6
    <3> QED BY <2>1, <3>3, <3>5, <3>7 DEF Ahead
  <2>10. TypeOK'
    BY <1>1, <1>5, <2>5, <2>6, <2>7 DEF TypeOK
  <2>11. \A b \in Started' \ {a} :
          due'[b] = due[b] /\ time'[b] = time[b] /\ rollover'[b] = rollover[b]
    <3> HIDE DEF t, d
    <3> QED BY <1>2, <2>5, <2>6, <2>7, <2>8
  <2>12. Ranked(r)'
    BY <1>1, <1>6, <1>8, <2>8, <2>9, <2>11
  <2>13. \A b \in Started' : r[b] > m
    BY <2>8
  <2> QED BY <1>1, <2>10, <2>12, <2>13 DEF IInv
<1> QED BY <1>7, <1>8 DEF Return

-----------------------------------------------------------------------------
(* A callback comes in the very tick it is promised for, and no tick ends  *)
(* with one that is due: for every set of alarms, delay, period, length of *)
(* the counter and order of callbacks that start and stop alarms, as long  *)
(* as none stops the alarm after its own.                                  *)
THEOREM CallbacksOnTime ==
  ASSUME ClockAssumption, StopsNext = FALSE PROVE Spec => []AlarmOnTime
<1>1. Init => IInv
  <2> SUFFICES ASSUME Init PROVE IInv
    OBVIOUS
  <2>1. /\ W \in Nat \ {0} /\ nticks = 0 /\ total = 0 /\ tick = Idle
        /\ next = [a \in List |-> a] /\ previous = [a \in List |-> a]
        /\ time = [a \in Alarms |-> 0] /\ rollover = [a \in Alarms |-> FALSE]
        /\ due = [a \in Alarms |-> 0] /\ fired = [due |-> 0, at |-> 0]
    BY DEF Init, ClockAssumption
  <2>2. Started = {} /\ alt_alarm_list \in List
    BY <2>1 DEF Started, List
  <2>3. TypeOK
    BY <2>1, <2>2 DEF TypeOK, Idle
  <2> DEFINE r == [a \in Alarms |-> 0]
  <2>4. ListOK(next, previous, Started, r)
    BY <2>1, <2>2 DEF ListOK, Chained, After, List
  <2>5. Walking(r)
    BY <2>1 DEF Walking, Idle
  <2>6. Timely(r)
    BY <2>2 DEF Timely
  <2>7. Ranked(r)
    BY <2>4, <2>5, <2>6 DEF Ranked
  <2>8. r \in [Alarms -> Int] /\ 0 \in Int /\ \A a \in Started : r[a] > 0
    BY <2>2
  <2> HIDE DEF r
  <2> QED BY <2>1, <2>3, <2>7, <2>8 DEF IInv
<1>2. IInv /\ [Next]_vars => IInv'
  <2> SUFFICES ASSUME IInv, [Next]_vars PROVE IInv'
    OBVIOUS
  <2>1. ASSUME UNCHANGED <<nticks, total, alarms, tick, due, fired>> PROVE IInv'
    <3>1. /\ nticks' = nticks /\ total' = total /\ tick' = tick /\ due' = due /\ fired' = fired
          /\ next' = next /\ previous' = previous /\ time' = time /\ rollover' = rollover
      BY <2>1 DEF alarms
    <3>2. Started' = Started
      BY <3>1 DEF Started
    <3>3. TypeOK' /\ (fired.at = fired.due)'
      BY <3>1 DEF IInv, TypeOK
    <3> PICK r \in [Alarms -> Int] : Ranked(r) /\ \E m \in Int : \A a \in Started : r[a] > m
      BY DEF IInv
    <3>4. ListOK(next', previous', Started', r) /\ Walking(r)' /\ Pending(r)' = Pending(r)
      <4>1. ListOK(next', previous', Started', r)
        BY <3>1, <3>2 DEF Ranked
      <4>2. Pending(r)' = Pending(r)
        <5>1. CASE tick.pc = "visit"
          BY <3>1, <3>2, <5>1 DEF Pending
        <5>2. CASE tick.pc = "return"
          BY <3>1, <3>2, <5>2 DEF Pending
        <5>3. CASE tick.pc \notin {"visit", "return"}
          BY <3>1, <5>3 DEF Pending
        <5> QED BY <5>1, <5>2, <5>3
      <4>3. Walking(r)'
        BY <3>1, <3>2, <4>2 DEF Ranked, Walking
      <4> QED BY <4>1, <4>2, <4>3
    <3>5. Timely(r)'
      <4> SUFFICES ASSUME NEW a \in Started
                   PROVE  IF a \in Pending(r) THEN InTurn(a)'
                          ELSE (tick.pc = "return" => a # tick.alarm) => Ahead(a)'
        BY <3>1, <3>2, <3>4 DEF Timely
      <4>1. IF a \in Pending(r) THEN InTurn(a)
            ELSE (tick.pc = "return" => a # tick.alarm) => Ahead(a)
        BY DEF Ranked, Timely
      <4>2. InTurn(a) => InTurn(a)'
        BY <3>1 DEF InTurn, Timed, Unwrapped
      <4>3. Ahead(a) => Ahead(a)'
        BY <3>1 DEF Ahead, Timed, Unwrapped
      <4> QED BY <4>1, <4>2, <4>3
    <3>6. Ranked(r)'
      BY <3>4, <3>5 DEF Ranked
    <3> QED BY <3>2, <3>3, <3>6 DEF IInv
  <2>2. CASE sysclk_init
    BY <2>1, <2>2 DEF sysclk_init
  <2>3. CASE Program
    BY <2>3, Programs
  <2>4. CASE Tick
    BY <2>4, Ticks
  <2>5. ASSUME NEW a \in Alarms, Pass(a) PROVE IInv'
    BY <2>5, Passes
  <2>6. ASSUME NEW a \in Alarms, Call(a) PROVE IInv'
    BY <2>6, Calls
  <2>7. ASSUME NEW a \in Alarms, NEW p \in Periods, Return(a, p) PROVE IInv'
    BY <2>7, Returns
  <2>8. CASE UNCHANGED vars
    BY <2>1, <2>8 DEF vars
  <2> QED BY <2>2, <2>3, <2>4, <2>5, <2>6, <2>7, <2>8 DEF Next
<1>3. IInv => AlarmOnTime
  <2> SUFFICES ASSUME IInv PROVE AlarmOnTime
    OBVIOUS
  <2> PICK r \in [Alarms -> Int] : Ranked(r)
    BY DEF IInv
  <2>1. ASSUME tick = Idle, NEW a \in Alarms, due[a] # 0 PROVE due[a] > total
    <3>1. tick.pc = "idle" /\ Pending(r) = {} /\ a \in Started
      BY <2>1 DEF Idle, Pending, Started
    <3>2. due[a] - total \in 1 .. W - 1 /\ due[a] \in Nat /\ total \in Nat
      BY <3>1 DEF Ranked, Timely, Ahead, IInv, TypeOK
    <3> QED BY <3>2
  <2> QED BY <2>1 DEF AlarmOnTime, IInv
<1> QED BY <1>1, <1>2, <1>3, PTL DEF Spec

-----------------------------------------------------------------------------
(* timer.c.                                                                *)

TimerP == Tmr!PeriodOf(ms)
Loaded == periodLow + Half * periodHigh

SettingUp == {"clear", "periodl", "periodh_write", "start"}
Elapsing == {"periodh", "periodl_read", "snap", "snaph", "snapl", "elapsed"}

(* A start has no other run of the timer, and no timeout, to disturb it.   *)
SetUp ==
  /\ pc \in {"main", "stop", "poll"} \cup SettingUp \cup Elapsing
  /\ running \in BOOLEAN /\ timeout \in BOOLEAN /\ started \in BOOLEAN
  /\ ms \in Delays \cup {0}
  /\ pc \in SettingUp => ~running /\ ~started
  /\ pc \in {"periodl", "periodh_write", "start"} => ~timeout
  /\ pc = "periodh_write" => periodLow = TimerP % Half
  /\ pc = "start" => Loaded = TimerP /\ count = TimerP

(* The counter and the time since the start add up to the period.          *)
Counting ==
  /\ running => count + since <= Tmr!Width - 1
  /\ pc \in {"poll"} \cup Elapsing => started
  /\ started /\ pc # "stop" =>
       /\ Loaded = TimerP
       /\ IF running THEN count + since = TimerP /\ ~timeout
                     ELSE since = TimerP + 1 /\ timeout

(* What timer_elapsed has read so far is the time of one moment of the     *)
(* call, as long as the timer runs.                                        *)
Reading ==
  /\ pc \in Elapsing => atCall \in 0 .. since
  /\ pc = "periodl_read" => period = Half * periodHigh
  /\ pc \in {"snap", "snaph", "snapl", "elapsed"} => period = TimerP
  /\ pc \in {"snaph", "snapl", "elapsed"} /\ running =>
       TimerP - snap \in atCall .. since
  /\ pc = "snapl" => value = Half * (snap \div Half)
  /\ pc = "elapsed" => value = snap

TimerIInv == Tmr!TypeOK /\ SetUp /\ Counting /\ Reading

-----------------------------------------------------------------------------
(* Arithmetic of the two halves.                                           *)

LEMMA WidthIs == ASSUME Tmr!DelaysAssumption PROVE Tmr!Width \in Nat \ {0}
  BY DEF Tmr!DelaysAssumption, Tmr!Width

LEMMA Halves ==
  ASSUME NEW H \in Nat \ {0}, NEW x \in 0 .. H * H - 1
  PROVE  /\ x % H \in 0 .. H - 1
         /\ x \div H \in 0 .. H - 1
         /\ (x % H) + H * (x \div H) = x
<1> DEFINE q == x \div H
           r == x % H
<1>1. x = H * q + r /\ r \in 0 .. H - 1 /\ q \in Int
  OBVIOUS
<1> HIDE DEF q, r
<1>2. CASE q >= H
  <2>1. H * q >= H * H
    BY <1>1, <1>2
  <2> QED BY <1>1, <2>1
<1>3. CASE q < 0
  <2>1. H * q <= H * (-1)
    BY <1>1, <1>3
  <2>2. H * (-1) = -H
    OBVIOUS
  <2> QED BY <1>1, <2>1, <2>2
<1> QED BY <1>1, <1>2, <1>3 DEF q, r

LEMMA Joined ==
  ASSUME NEW H \in Nat \ {0}, NEW l \in 0 .. H - 1, NEW h \in 0 .. H - 1
  PROVE  l + H * h \in 0 .. H * H - 1
<1>1. H * h >= 0 /\ H * h \in Int
  OBVIOUS
<1>2. H * h <= H * (H - 1)
  OBVIOUS
<1>3. H * (H - 1) = H * H - H
  OBVIOUS
<1> QED BY <1>1, <1>2, <1>3

LEMMA QuotientGrows ==
  ASSUME NEW d \in Nat \ {0}, NEW a \in Nat, NEW b \in Nat, a <= b
  PROVE  a \div d <= b \div d
<1> DEFINE p == a \div d
           q == b \div d
<1>1. /\ p \in Int /\ q \in Int
      /\ d * p <= a /\ a < d * p + d
      /\ d * q <= b /\ b < d * q + d
  OBVIOUS
<1> HIDE DEF p, q
<1>2. CASE p >= q + 1
  <2>1. d * p >= d * (q + 1)
    BY <1>1, <1>2
  <2>2. d * (q + 1) = d * q + d
    BY <1>1
  <2> QED BY <1>1, <2>1, <2>2
<1> QED BY <1>1, <1>2 DEF p, q

(* The period is the delay in ticks less the one at zero.                  *)
LEMMA PeriodIs ==
  ASSUME Tmr!DelaysAssumption, ms \in Delays \cup {0}
  PROVE  /\ TimerP \in 0 .. Tmr!Width - 1
         /\ ms # 0 => TimerP = Tmr!PerMs * ms - 1
<1>1. Tmr!Width \in Nat \ {0} /\ Tmr!PerMs \in Nat \ {0}
  BY WidthIs DEF Tmr!DelaysAssumption
<1>2. CASE ms = 0
  <2>1. TimerP = (Tmr!PerMs * 0 - 1) % Tmr!Width
    BY <1>2 DEF TimerP, Tmr!PeriodOf
  <2>2. Tmr!PerMs * 0 - 1 = -1
    BY <1>1
  <2>3. (-1) % Tmr!Width \in 0 .. Tmr!Width - 1
    BY <1>1
  <2> QED BY <1>2, <2>1, <2>2, <2>3
<1>3. CASE ms # 0
  <2>1. ms \in Nat \ {0} /\ Tmr!PerMs * ms <= Tmr!Width
    BY <1>3 DEF Tmr!DelaysAssumption
  <2>2. Tmr!PerMs * ms \in Nat /\ Tmr!PerMs * ms >= 1
    BY <1>1, <2>1
  <2>3. Tmr!PerMs * ms - 1 \in 0 .. Tmr!Width - 1
    BY <1>1, <2>1, <2>2
  <2>4. (Tmr!PerMs * ms - 1) % Tmr!Width = Tmr!PerMs * ms - 1
    <3> DEFINE t == Tmr!PerMs * ms - 1
    <3>1. t \in 0 .. Tmr!Width - 1
      BY <2>3
    <3> HIDE DEF t
    <3>2. t % Tmr!Width = t
      BY <1>1, <3>1
    <3> QED BY <3>2 DEF t
  <2> QED BY <2>3, <2>4 DEF TimerP, Tmr!PeriodOf
<1> QED BY <1>2, <1>3

LEMMA PeriodHalves ==
  ASSUME Tmr!DelaysAssumption, ms \in Delays \cup {0}
  PROVE  /\ TimerP % Half \in 0 .. Half - 1
         /\ TimerP \div Half \in 0 .. Half - 1
         /\ (TimerP % Half) + Half * (TimerP \div Half) = TimerP
<1>1. Half \in Nat \ {0} /\ TimerP \in 0 .. Half * Half - 1
  BY PeriodIs DEF Tmr!DelaysAssumption, Tmr!Width
<1> HIDE DEF TimerP
<1> QED BY <1>1, Halves

LEMMA LoadedFits ==
  ASSUME Tmr!DelaysAssumption, NEW l \in 0 .. Half - 1, NEW h \in 0 .. Half - 1
  PROVE  l + Half * h \in 0 .. Tmr!Width - 1
  BY Joined DEF Tmr!DelaysAssumption, Tmr!Width

-----------------------------------------------------------------------------
LEMMA TimerInit ==
  ASSUME Tmr!DelaysAssumption, Tmr!Init
  PROVE  TimerIInv
<1>1. Half \in Nat \ {0} /\ Tmr!Width \in Nat \ {0} /\ Tmr!LoadValue \in 0 .. Tmr!Width - 1
  BY WidthIs DEF Tmr!DelaysAssumption, Tmr!LoadValue
<1>2. Tmr!LoadValue % Half \in 0 .. Half - 1 /\ Tmr!LoadValue \div Half \in 0 .. Half - 1
  BY <1>1, Halves DEF Tmr!Width
<1>3. Tmr!TypeOK
  BY <1>1, <1>2 DEF Tmr!Init, Tmr!TypeOK
<1>4. SetUp /\ Counting /\ Reading
  BY <1>1 DEF Tmr!Init, SetUp, Counting, Reading, SettingUp, Elapsing
<1> QED BY <1>3, <1>4 DEF TimerIInv

LEMMA SamePeriod ==
  /\ UNCHANGED ms => TimerP' = TimerP
  /\ UNCHANGED <<periodLow, periodHigh>> => Loaded' = Loaded
  BY DEF TimerP, Tmr!PeriodOf, Loaded

(* The timer counts, between any two steps of the program.                 *)
LEMMA TickInv ==
  ASSUME Tmr!DelaysAssumption, TimerIInv, Tmr!Tick
  PROVE  TimerIInv'
<1> USE DEF TimerIInv, Tmr!TypeOK, SetUp, Counting, Reading, SettingUp, Elapsing
<1>1. Tmr!Width \in Nat \ {0} /\ TimerP \in 0 .. Tmr!Width - 1
  BY WidthIs, PeriodIs
<1>2. /\ running /\ since' = since + 1
      /\ UNCHANGED <<pc, ms, periodLow, periodHigh, snap, period, value, started, atCall>>
      /\ TimerP' = TimerP /\ Loaded' = Loaded
  BY SamePeriod DEF Tmr!Tick, Tmr!program, Tmr!local
<1>3. pc \notin {"clear", "periodl", "periodh_write", "start"}
  BY <1>2
<1>4. CASE count = 0
  <2>1. timeout' = TRUE /\ running' = FALSE /\ count' = periodLow + Half * periodHigh
    BY <1>4 DEF Tmr!Tick
  <2>2. count' \in 0 .. Tmr!Width - 1
    BY <2>1, LoadedFits
  <2>3. Tmr!TypeOK'
    BY <1>1, <1>2, <1>4, <2>2
  <2>4. SetUp'
    BY <1>2, <1>3, <2>1
  <2>5. Counting'
    BY <1>1, <1>2, <1>4, <2>1
  <2>6. Reading'
    BY <1>1, <1>2, <2>1
  <2> QED BY <2>3, <2>4, <2>5, <2>6
<1>5. CASE count # 0
  <2>1. UNCHANGED <<timeout, running>> /\ count' = count - 1
    BY <1>5 DEF Tmr!Tick
  <2>2. Tmr!TypeOK'
    BY <1>1, <1>2, <1>5, <2>1
  <2>3. SetUp'
    BY <1>2, <1>3, <2>1
  <2>4. Counting'
    BY <1>1, <1>2, <1>5, <2>1
  <2>5. Reading'
    BY <1>1, <1>2, <2>1
  <2> QED BY <2>2, <2>3, <2>4, <2>5
<1> QED BY <1>4, <1>5

(* The reset stops the timer, and only then clears the timeout.            *)
LEMMA ResetInv ==
  ASSUME Tmr!DelaysAssumption, TimerIInv, Tmr!ResetStop \/ Tmr!ResetClear
  PROVE  TimerIInv'
<1> USE DEF TimerIInv, Tmr!TypeOK, SetUp, Counting, Reading, SettingUp, Elapsing
<1>1. CASE Tmr!ResetStop
  BY <1>1, SamePeriod DEF Tmr!ResetStop, Tmr!WriteStop, Tmr!local
<1>2. CASE Tmr!ResetClear
  <2>1. /\ pc = "clear" /\ pc' \in {"periodl", "main"} /\ timeout' = FALSE
        /\ UNCHANGED <<ms, periodLow, periodHigh, count, running, snap, period, value,
                       started, since, atCall>>
    BY <1>2 DEF Tmr!ResetClear, Tmr!WriteStatus, Tmr!local, Tmr!history
  <2> QED BY <2>1, SamePeriod
<1> QED BY <1>1, <1>2

(* The two halves of the period, and the start.                            *)
LEMMA StartInv ==
  ASSUME Tmr!DelaysAssumption, TimerIInv, Tmr!StartPeriodL \/ Tmr!StartPeriodH \/ Tmr!StartGo
  PROVE  TimerIInv'
<1> USE DEF TimerIInv, Tmr!TypeOK, SetUp, Counting, Reading, SettingUp, Elapsing
<1>1. Tmr!Width \in Nat \ {0} /\ TimerP \in 0 .. Tmr!Width - 1
  BY WidthIs, PeriodIs
<1>2. /\ TimerP % Half \in 0 .. Half - 1 /\ TimerP \div Half \in 0 .. Half - 1
      /\ (TimerP % Half) + Half * (TimerP \div Half) = TimerP
  BY PeriodHalves
<1>3. CASE Tmr!StartPeriodL
  <2>1. /\ pc = "periodl" /\ pc' = "periodh_write"
        /\ periodLow' = TimerP % Half /\ periodHigh' = periodHigh
        /\ count' = (TimerP % Half) + Half * periodHigh /\ running' = FALSE
        /\ UNCHANGED <<ms, timeout, snap, period, value, started, since, atCall>>
    BY <1>3 DEF Tmr!StartPeriodL, Tmr!WritePeriod, TimerP, Tmr!local, Tmr!history
  <2>2. TimerP' = TimerP
    BY <2>1, SamePeriod
  <2>3. count' \in 0 .. Tmr!Width - 1
    BY <1>2, <2>1, LoadedFits
  <2>4. Tmr!TypeOK'
    BY <1>2, <2>1, <2>3
  <2>5. SetUp' /\ Counting' /\ Reading'
    BY <2>1, <2>2
  <2> QED BY <2>4, <2>5
<1>4. CASE Tmr!StartPeriodH
  <2>1. /\ pc = "periodh_write" /\ pc' = "start"
        /\ periodLow' = periodLow /\ periodHigh' = TimerP \div Half
        /\ count' = periodLow + Half * (TimerP \div Half) /\ running' = FALSE
        /\ UNCHANGED <<ms, timeout, snap, period, value, started, since, atCall>>
    BY <1>4 DEF Tmr!StartPeriodH, Tmr!WritePeriod, TimerP, Tmr!local, Tmr!history
  <2>2. TimerP' = TimerP
    BY <2>1, SamePeriod
  <2>3. count' = TimerP /\ Loaded' = TimerP
    BY <1>2, <2>1 DEF Loaded
  <2>4. Tmr!TypeOK'
    BY <1>1, <1>2, <2>1, <2>3
  <2>5. SetUp' /\ Counting' /\ Reading'
    BY <2>1, <2>2, <2>3
  <2> QED BY <2>4, <2>5
<1>5. CASE Tmr!StartGo
  <2>1. /\ pc = "start" /\ pc' \in {"poll", "main"}
        /\ running' = TRUE /\ started' = TRUE /\ since' = 0
        /\ UNCHANGED <<ms, periodLow, periodHigh, count, timeout, snap, period, value,
                       atCall>>
    BY <1>5 DEF Tmr!StartGo, Tmr!WriteStart, Tmr!local
  <2>2. TimerP' = TimerP /\ Loaded' = Loaded
    BY <2>1, SamePeriod
  <2>3. Tmr!TypeOK'
    BY <1>1, <2>1
  <2>4. SetUp'
    BY <2>1
  <2>5. Counting'
    BY <1>1, <2>1, <2>2
  <2>6. Reading'
    BY <2>1
  <2> QED BY <2>3, <2>4, <2>5, <2>6
<1> QED BY <1>3, <1>4, <1>5

LEMMA PollInv ==
  ASSUME Tmr!DelaysAssumption, TimerIInv, Tmr!Poll
  PROVE  TimerIInv'
<1> USE DEF TimerIInv, Tmr!TypeOK, SetUp, Counting, Reading, SettingUp, Elapsing
<1>1. /\ pc = "poll" /\ pc' \in {"poll", "main"}
      /\ UNCHANGED <<ms, periodLow, periodHigh, count, running, timeout, snap, period,
                     value, started, since, atCall>>
  BY DEF Tmr!Poll, Tmr!registers, Tmr!local, Tmr!history
<1> QED BY <1>1, SamePeriod

(* The readings of timer_elapsed, one access each.                         *)
LEMMA ElapsedInv ==
  ASSUME Tmr!DelaysAssumption, TimerIInv,
         \/ Tmr!ElapsedPeriodH \/ Tmr!ElapsedPeriodL \/ Tmr!ElapsedSnap
         \/ Tmr!ElapsedSnapH \/ Tmr!ElapsedSnapL \/ Tmr!ElapsedReturn
  PROVE  TimerIInv'
<1> USE DEF TimerIInv, Tmr!TypeOK, SetUp, Counting, Reading, SettingUp, Elapsing
<1>1. Tmr!Width \in Nat \ {0} /\ TimerP \in 0 .. Tmr!Width - 1 /\ Half \in Nat \ {0}
  BY WidthIs, PeriodIs DEF Tmr!DelaysAssumption
<1>2. ASSUME UNCHANGED <<ms, periodLow, periodHigh, count, running, timeout, started,
                         since, atCall>>,
             pc \in Elapsing, pc' \in Elapsing \cup {"main"},
             snap' \in 0 .. Tmr!Width - 1, period' \in 0 .. Tmr!Width - 1, value' \in 0 .. Tmr!Width - 1,
             Reading'
      PROVE  TimerIInv'
  BY <1>2, SamePeriod
<1>3. CASE Tmr!ElapsedPeriodH
  <2>1. /\ pc = "periodh" /\ pc' = "periodl_read" /\ period' = Half * periodHigh
        /\ UNCHANGED <<ms, periodLow, periodHigh, count, running, timeout, snap, value,
                       started, since, atCall>>
    BY <1>3 DEF Tmr!ElapsedPeriodH, Tmr!registers, Tmr!history
  <2>2. period' \in 0 .. Tmr!Width - 1
    <3>1. Half \in Nat \ {0} /\ 0 \in 0 .. Half - 1
      BY <1>1
    <3>2. periodHigh \in 0 .. Half - 1
      OBVIOUS
    <3> DEFINE h == periodHigh
    <3> HIDE DEF h
    <3>3. h \in 0 .. Half - 1
      BY <3>2 DEF h
    <3>4. 0 + Half * h \in 0 .. Tmr!Width - 1
      BY ONLY Tmr!DelaysAssumption, <3>1, <3>3, LoadedFits
    <3>5. 0 + Half * h = Half * h
      BY <3>1, <3>3
    <3> QED BY <2>1, <3>4, <3>5 DEF h
  <2>3. Reading'
    BY <2>1
  <2> QED BY <1>2, <2>1, <2>2, <2>3
<1>4. CASE Tmr!ElapsedPeriodL
  <2>1. /\ pc = "periodl_read" /\ pc' = "snap" /\ period' = period + periodLow
        /\ UNCHANGED <<ms, periodLow, periodHigh, count, running, timeout, snap, value,
                       started, since, atCall>>
    BY <1>4 DEF Tmr!ElapsedPeriodL, Tmr!registers, Tmr!history
  <2>2. period' = TimerP
    <3>1. Loaded = TimerP /\ period = Half * periodHigh
      BY <2>1
    <3>2. Half * periodHigh \in Int /\ periodLow \in Int
      BY <1>1
    <3> QED BY <2>1, <3>1, <3>2 DEF Loaded
  <2>3. Reading'
    BY <2>1, <2>2, SamePeriod
  <2> QED BY <1>1, <1>2, <2>1, <2>2, <2>3
<1>5. CASE Tmr!ElapsedSnap
  <2>1. /\ pc = "snap" /\ pc' = "snaph" /\ snap' = count
        /\ UNCHANGED <<ms, periodLow, periodHigh, count, running, timeout, period, value,
                       started, since, atCall>>
    BY <1>5 DEF Tmr!ElapsedSnap, Tmr!WriteSnap, Tmr!local, Tmr!history
  <2>2. running => TimerP - count = since
    BY <1>1, <2>1
  <2>3. Reading'
    BY <1>1, <2>1, <2>2, SamePeriod
  <2> QED BY <1>2, <2>1, <2>3
<1>6. CASE Tmr!ElapsedSnapH
  <2>1. /\ pc = "snaph" /\ pc' = "snapl" /\ value' = Half * (snap \div Half)
        /\ UNCHANGED <<ms, periodLow, periodHigh, count, running, timeout, snap, period,
                       started, since, atCall>>
    BY <1>6 DEF Tmr!ElapsedSnapH, Tmr!registers, Tmr!history
  <2>2. value' \in 0 .. Tmr!Width - 1
    <3>1. snap \div Half \in 0 .. Half - 1
      BY <1>1, Halves DEF Tmr!Width
    <3>2. 0 \in 0 .. Half - 1 /\ 0 + Half * (snap \div Half) \in 0 .. Tmr!Width - 1
      BY <1>1, <3>1, LoadedFits
    <3>3. Half * (snap \div Half) \in Int
      BY <1>1, <3>1
    <3> QED BY <2>1, <3>2, <3>3
  <2>3. Reading'
    BY <2>1, SamePeriod
  <2> QED BY <1>2, <2>1, <2>2, <2>3
<1>7. CASE Tmr!ElapsedSnapL
  <2>1. /\ pc = "snapl" /\ pc' = "elapsed" /\ value' = value + (snap % Half)
        /\ UNCHANGED <<ms, periodLow, periodHigh, count, running, timeout, snap, period,
                       started, since, atCall>>
    BY <1>7 DEF Tmr!ElapsedSnapL, Tmr!registers, Tmr!history
  <2>2. value' = snap
    <3>1. /\ (snap % Half) + Half * (snap \div Half) = snap
          /\ snap % Half \in 0 .. Half - 1 /\ snap \div Half \in 0 .. Half - 1
      BY <1>1, Halves DEF Tmr!Width
    <3>2. value = Half * (snap \div Half)
      BY <2>1
    <3>3. Half * (snap \div Half) \in Int /\ snap % Half \in Int
      BY <1>1, <3>1
    <3> QED BY <2>1, <3>1, <3>2, <3>3
  <2>3. Reading'
    BY <2>1, <2>2, SamePeriod
  <2> QED BY <1>2, <2>1, <2>2, <2>3
<1>8. CASE Tmr!ElapsedReturn
  <2>1. /\ pc = "elapsed" /\ pc' = "main"
        /\ UNCHANGED <<ms, periodLow, periodHigh, count, running, timeout, snap, period,
                       value, started, since, atCall>>
    BY <1>8 DEF Tmr!ElapsedReturn, Tmr!registers, Tmr!local, Tmr!history
  <2> QED BY <1>2, <2>1
<1> QED BY <1>3, <1>4, <1>5, <1>6, <1>7, <1>8

LEMMA CallInv ==
  ASSUME Tmr!DelaysAssumption, TimerIInv, Tmr!CallAny
  PROVE  TimerIInv'
<1> USE DEF TimerIInv, Tmr!TypeOK, SetUp, Counting, Reading, SettingUp, Elapsing
<1>1. CASE Tmr!CallStart \/ Tmr!CallReset
  <2>1. /\ pc = "main" /\ pc' = "stop" /\ ms' \in Delays \cup {0}
        /\ UNCHANGED <<periodLow, periodHigh, count, running, timeout, snap, period,
                       value, started, since, atCall>>
    BY <1>1 DEF Tmr!CallStart, Tmr!CallReset, Tmr!Call, Tmr!registers, Tmr!local, Tmr!history
  <2> QED BY <2>1
<1>2. CASE Tmr!CallWaitForTo
  <2>1. /\ pc = "main" /\ pc' = "poll" /\ started
        /\ UNCHANGED <<ms, periodLow, periodHigh, count, running, timeout, snap, period,
                       value, started, since, atCall>>
    BY <1>2 DEF Tmr!CallWaitForTo, Tmr!Call, Tmr!registers, Tmr!local, Tmr!history
  <2> QED BY <2>1, SamePeriod
<1>3. CASE Tmr!CallElapsed
  <2>1. /\ pc = "main" /\ pc' = "periodh" /\ started /\ atCall' = since
        /\ UNCHANGED <<ms, periodLow, periodHigh, count, running, timeout, snap, period,
                       value, started, since>>
    BY <1>3 DEF Tmr!CallElapsed, Tmr!Call, Tmr!registers, Tmr!local
  <2> QED BY <2>1, SamePeriod
<1> QED BY <1>1, <1>2, <1>3 DEF Tmr!CallAny

LEMMA TimerStep ==
  ASSUME Tmr!DelaysAssumption, TimerIInv, [Tmr!Next]_(Tmr!vars)
  PROVE  TimerIInv'
<1>1. CASE Tmr!Next
  BY <1>1, TickInv, ResetInv, StartInv, PollInv, ElapsedInv, CallInv DEF Tmr!Next, Tmr!Step
<1>2. CASE UNCHANGED Tmr!vars
  <2>1. UNCHANGED <<pc, ms, periodLow, periodHigh, count, running, timeout, snap, period,
                    value, started, since, atCall>>
    BY <1>2 DEF Tmr!vars, Tmr!program, Tmr!registers, Tmr!local, Tmr!history
  <2> QED BY <2>1, SamePeriod DEF TimerIInv, Tmr!TypeOK, SetUp, Counting, Reading, SettingUp,
             Elapsing
<1> QED BY <1>1, <1>2

LEMMA Invariant ==
  ASSUME Tmr!DelaysAssumption
  PROVE  Tmr!Spec => []TimerIInv
<1>1. Tmr!Init => TimerIInv
  BY TimerInit
<1>2. TimerIInv /\ [Tmr!Next]_(Tmr!vars) => TimerIInv'
  BY TimerStep
<1> QED BY <1>1, <1>2, PTL DEF Tmr!Spec

(* A wait ends exactly when its delay has been counted, whatever the timer *)
(* was doing before and however long the program takes to set it up.       *)
THEOREM WaitsExactly ==
  ASSUME Tmr!DelaysAssumption
  PROVE  Tmr!Spec => Tmr!WaitsLongEnough
<1>1. ASSUME TimerIInv, [Tmr!Next]_(Tmr!vars)
      PROVE  [Tmr!WaitedLongEnough]_(Tmr!vars)
  <2> SUFFICES ASSUME Tmr!Next, pc = "poll", pc' = "main", ms # 0
               PROVE  since = Tmr!PerMs * ms
    BY <1>1 DEF Tmr!WaitedLongEnough
  <2>1. Tmr!Poll
    BY DEF Tmr!Next, Tmr!Tick, Tmr!Step, Tmr!CallAny, Tmr!ResetStop, Tmr!ResetClear, Tmr!StartPeriodL, Tmr!StartPeriodH,
           Tmr!StartGo, Tmr!ElapsedPeriodH, Tmr!ElapsedPeriodL, Tmr!ElapsedSnap, Tmr!ElapsedSnapH,
           Tmr!ElapsedSnapL, Tmr!ElapsedReturn, Tmr!CallStart, Tmr!CallReset, Tmr!CallWaitForTo, Tmr!CallElapsed,
           Tmr!Call, Tmr!program
  <2>2. timeout
    BY <2>1 DEF Tmr!Poll
  <2>3. since = TimerP + 1
    BY <1>1, <2>2 DEF TimerIInv, SetUp, Counting
  <2>4. TimerP = Tmr!PerMs * ms - 1 /\ TimerP \in Int
    BY <1>1, PeriodIs, WidthIs DEF TimerIInv, SetUp
  <2>5. Tmr!PerMs * ms \in Int
    BY <1>1 DEF Tmr!DelaysAssumption, TimerIInv, SetUp
  <2> QED BY <2>3, <2>4, <2>5
<1> QED BY <1>1, Invariant, PTL DEF Tmr!Spec, Tmr!WaitsLongEnough

(* The elapsed time that timer_elapsed_global returns was the time at some *)
(* moment of the call, although the counter moves while it is read.        *)
THEOREM ElapsedInTheCall ==
  ASSUME Tmr!DelaysAssumption
  PROVE  Tmr!Spec => []Tmr!GlobalInMs
<1>1. TimerIInv => Tmr!GlobalInMs
  <2> SUFFICES ASSUME TimerIInv, pc = "elapsed", running
               PROVE  Tmr!ElapsedGlobal \in (atCall \div Tmr!PerMs) .. (since \div Tmr!PerMs)
    BY DEF Tmr!GlobalInMs, Tmr!InMs
  <2>1. Tmr!Width \in Nat \ {0} /\ TimerP \in 0 .. Tmr!Width - 1 /\ Tmr!PerMs \in Nat \ {0}
    BY WidthIs, PeriodIs DEF Tmr!DelaysAssumption, TimerIInv, SetUp
  <2>2. /\ period = TimerP /\ value = snap /\ snap \in 0 .. Tmr!Width - 1
        /\ TimerP - snap \in atCall .. since /\ atCall \in 0 .. since /\ since \in Nat
    BY <2>1 DEF TimerIInv, Tmr!TypeOK, Reading, Elapsing
  <2> DEFINE d == TimerP - snap
  <2>3. d \in atCall .. since /\ d \in 0 .. Tmr!Width - 1 /\ d \in Nat /\ atCall \in Nat
    BY <2>1, <2>2
  <2>4. Tmr!ElapsedGlobal = (d % Tmr!Width) \div Tmr!PerMs
    BY <2>2 DEF Tmr!ElapsedGlobal, Tmr!Quotient, Tmr!PerMs
  <2> HIDE DEF d
  <2>5. d % Tmr!Width = d
    BY <2>1, <2>3
  <2>6. atCall \div Tmr!PerMs <= d \div Tmr!PerMs /\ d \div Tmr!PerMs <= since \div Tmr!PerMs
    BY <2>1, <2>2, <2>3, QuotientGrows
  <2>7. /\ atCall \div Tmr!PerMs \in Int /\ d \div Tmr!PerMs \in Int /\ since \div Tmr!PerMs \in Int
    BY <2>1, <2>2, <2>3
  <2> QED BY <2>4, <2>5, <2>6, <2>7
<1> QED BY <1>1, Invariant, PTL

-----------------------------------------------------------------------------
(* The timestamp of the interval timer driver.  It is the instance Stamp.  *)

VARIABLES freq, lower, result
Stamp == INSTANCE Timestamp

(* A number by its quotient and its remainder.                             *)
LEMMA Parts ==
  ASSUME NEW H \in Nat \ {0}, NEW n \in Int
  PROVE  \E q \in Int, r \in 0 .. H - 1 :
           n = H * q + r /\ n \div H = q /\ n % H = r
<1> DEFINE q == n \div H
           r == n % H
<1>1. q \in Int /\ r \in 0 .. H - 1 /\ n = H * q + r
  OBVIOUS
<1> HIDE DEF q, r
<1>2. n \div H = q /\ n % H = r
  BY DEF q, r
<1> QED BY <1>1, <1>2

LEMMA Divided ==
  ASSUME NEW H \in Nat \ {0}, NEW q \in Int, NEW r \in 0 .. H - 1
  PROVE  (H * q + r) % H = r /\ (H * q + r) \div H = q
<1> DEFINE n == H * q + r
           p == n \div H
           s == n % H
<1>1. n \in Int
  <2>1. H * q \in Int
    OBVIOUS
  <2> QED BY <2>1
<1>2. n = H * p + s /\ s \in 0 .. H - 1 /\ p \in Int
  <2> HIDE DEF n
  <2> QED BY <1>1
<1>3. n = H * q + r
  OBVIOUS
<1> HIDE DEF n, p, s
<1>4. ~(p > q)
  <2> SUFFICES ASSUME p > q PROVE FALSE
    OBVIOUS
  <2>1. H * p >= H * (q + 1) /\ H * (q + 1) = H * q + H
    BY <1>2
  <2> QED BY <1>2, <1>3, <2>1
<1>5. ~(p < q)
  <2> SUFFICES ASSUME p < q PROVE FALSE
    OBVIOUS
  <2>1. H * q >= H * (p + 1) /\ H * (p + 1) = H * p + H
    BY <1>2
  <2> QED BY <1>2, <1>3, <2>1
<1>6. p = q /\ s = r
  BY <1>2, <1>3, <1>4, <1>5
<1> QED BY <1>6 DEF p, s, n

LEMMA LastOne == ASSUME NEW H \in Nat \ {0} PROVE H * (H - 1) + (H - 1) = H * H - 1
<1>1. H * (H - 1) = H * H - H
  OBVIOUS
<1> QED BY <1>1

\* What the counter shows t ticks after the start.
Val(t) == IF t < Stamp!W THEN Stamp!W - 1 - t ELSE Stamp!W - 1

StampTypeOK ==
  /\ pc \in {"main", "periodl", "periodh", "start", "snap", "lower", "upper"}
  /\ period \in Nat /\ count \in Nat /\ running \in BOOLEAN
  /\ since \in 0 .. Stamp!W \cup {Stamp!None} /\ result \in Int

StampSetUp ==
  /\ pc \in {"periodl", "periodh", "start"} => since = Stamp!None /\ result = Stamp!None
  /\ pc = "periodh" => period % Half = Half - 1
  /\ pc = "start" => period = Stamp!W - 1 /\ count = Stamp!W - 1
  /\ IF since = Stamp!None THEN ~running
     ELSE period = Stamp!W - 1 /\ count = Val(since) /\ (running <=> since < Stamp!W)
  /\ freq = 0 => since = Stamp!None /\ pc = "main"

StampReading ==
  /\ pc \in {"snap", "lower", "upper"} =>
       since # Stamp!None /\ result = Stamp!None /\ atCall \in Nat /\ atCall <= since
  /\ pc \in {"lower", "upper"} => \E t \in atCall .. since : snap = Val(t)
  /\ pc = "upper" => lower = snap % Half
  /\ freq # 0 /\ result # Stamp!None =>
       since # Stamp!None /\ atCall \in Nat /\ \E t \in atCall .. since : result = Stamp!W - 1 - Val(t)

StampIInv == StampTypeOK /\ StampSetUp /\ StampReading

-----------------------------------------------------------------------------
LEMMA WordIs == ASSUME Stamp!TimestampAssumption PROVE Half \in Nat \ {0} /\ Stamp!W \in Nat \ {0} /\ Stamp!None = -1
BY DEF Stamp!TimestampAssumption, Stamp!W, Stamp!None

LEMMA StampInit == Stamp!TimestampAssumption /\ Stamp!Init => StampIInv
<1> SUFFICES ASSUME Stamp!TimestampAssumption, Stamp!Init PROVE StampIInv
  OBVIOUS
<1>1. /\ pc = "main" /\ period = 1 /\ count = 1 /\ running = FALSE
      /\ since = Stamp!None /\ result = Stamp!None
  BY DEF Stamp!Init
<1>2. StampTypeOK
  <2>1. result \in Int
    BY <1>1 DEF Stamp!None
  <2> QED BY <1>1, <2>1 DEF StampTypeOK
<1>3. StampSetUp
  BY <1>1 DEF StampSetUp
<1>4. StampReading
  BY <1>1 DEF StampReading
<1> QED BY <1>2, <1>3, <1>4 DEF StampIInv

\* Time goes on: what was seen since the call is still since the call.
LEMMA StampTick ==
  ASSUME Stamp!TimestampAssumption, StampIInv, Stamp!Tick
  PROVE  StampIInv'
<1> USE WordIs
<1>1. /\ since \in 0 .. Stamp!W - 1 /\ since' = since + 1 /\ period = Stamp!W - 1 /\ count = Val(since) /\ since' # Stamp!None
      /\ UNCHANGED <<freq, pc, lower, result, period, snap, atCall>>
  BY DEF Stamp!Tick, StampIInv, StampTypeOK, StampSetUp
<1>2. count' = Val(since') /\ (running' <=> since' < Stamp!W) /\ running' \in BOOLEAN /\ count' \in Nat
  <2>1. CASE count = 0
    <3>1. since = Stamp!W - 1
      BY <1>1, <2>1 DEF Val
    <3>2. since' = Stamp!W /\ count' = Stamp!W - 1 /\ running' = FALSE
      BY <1>1, <2>1, <3>1 DEF Stamp!Tick
    <3>3. Val(since') = Stamp!W - 1
      BY <3>2 DEF Val
    <3>4. ~(since' < Stamp!W)
      BY <3>2
    <3>5. Stamp!W - 1 \in Nat
      OBVIOUS
    <3> QED BY <3>2, <3>3, <3>4, <3>5
  <2>2. CASE count # 0
    <3>1. since < Stamp!W - 1
      BY <1>1, <2>2 DEF Val
    <3>2. running
      BY DEF Stamp!Tick
    <3> QED BY <1>1, <2>2, <3>1, <3>2 DEF Stamp!Tick, Val
  <2> QED BY <2>1, <2>2
<1>3. StampTypeOK'
  BY <1>1, <1>2 DEF StampIInv, StampTypeOK
<1>4. StampSetUp'
  BY <1>1, <1>2 DEF StampIInv, StampSetUp
<1>5. \A c \in Nat : c .. since \subseteq c .. since'
  BY <1>1
<1>6. StampReading'
  BY <1>1, <1>5 DEF StampIInv, StampReading
<1> QED BY <1>3, <1>4, <1>6 DEF StampIInv

LEMMA StampStarting ==
  ASSUME Stamp!TimestampAssumption, StampIInv, Stamp!Start \/ Stamp!PeriodL \/ Stamp!PeriodH \/ Stamp!Run
  PROVE  StampIInv'
<1> USE WordIs
<1>1. CASE Stamp!Start
  <2>1. /\ pc = "main" /\ result' = Stamp!None /\ since' = Stamp!None /\ running' \in BOOLEAN
        /\ period' = period /\ count' = count /\ pc' \in {"main", "periodl"}
        /\ running' = FALSE /\ freq' = freq /\ (freq = 0 => pc' = "main")
    <3>1. CASE freq = 0
      <4>1. ~running
        BY <1>1, <3>1 DEF Stamp!Start, StampIInv, StampSetUp
      <4> QED BY <1>1, <3>1, <4>1 DEF Stamp!Start, Stamp!timer, StampIInv, StampTypeOK, StampSetUp
    <3>2. CASE freq # 0
      BY <1>1, <3>2 DEF Stamp!Start, Stamp!timer
    <3> QED BY <3>1, <3>2
  <2>2. Stamp!None \in Int
    OBVIOUS
  <2>3. StampTypeOK'
    <3>1. /\ pc' \in {"main", "periodl", "periodh", "start", "snap", "lower", "upper"}
          /\ period' \in Nat /\ count' \in Nat /\ result' \in Int
      BY <2>1, <2>2 DEF StampIInv, StampTypeOK
    <3>2. since' \in 0 .. Stamp!W \cup {Stamp!None}
      BY <2>1
    <3>3. running' \in BOOLEAN
      BY <2>1
    <3> QED BY <3>1, <3>2, <3>3 DEF StampTypeOK
  <2>4. StampSetUp'
    BY <2>1 DEF StampSetUp
  <2>5. StampReading'
    BY <2>1 DEF StampReading
  <2> QED BY <2>3, <2>4, <2>5 DEF StampIInv
<1>2. CASE Stamp!PeriodL
  <2> DEFINE p == Half * (period \div Half) + Half - 1
  <2>1. period \div Half \in Nat
    BY DEF StampIInv, StampTypeOK
  <2>2. p = Half * (period \div Half) + (Half - 1) /\ Half - 1 \in 0 .. Half - 1
    BY <2>1
  <2>3. p % Half = Half - 1
    BY <2>1, <2>2, Divided
  <2>4. p \in Nat
    BY <2>1
  <2>5. period' = p /\ count' = p
    BY <1>2 DEF Stamp!PeriodL, Stamp!WritePeriod
  <2> HIDE DEF p
  <2> QED BY <1>2, <2>3, <2>4, <2>5 DEF Stamp!PeriodL, Stamp!WritePeriod, StampIInv, StampTypeOK, StampSetUp, StampReading
<1>3. CASE Stamp!PeriodH
  <2>1. period % Half = Half - 1
    BY <1>3 DEF Stamp!PeriodH, StampIInv, StampSetUp
  <2>2. Half * (Half - 1) + (period % Half) = Stamp!W - 1
    <3>1. Half * (Half - 1) + (Half - 1) = Half * Half - 1
      BY LastOne
    <3>2. Half * (Half - 1) + (period % Half) = Half * (Half - 1) + (Half - 1)
      BY <2>1
    <3> QED BY <3>1, <3>2 DEF Stamp!W
  <2>3. period' = Stamp!W - 1 /\ count' = Stamp!W - 1 /\ Stamp!W - 1 \in Nat
    <3>1. PICK p : p = Half * (Half - 1) + (period % Half)
      OBVIOUS
    <3>2. period' = p /\ count' = p
      BY <1>3, <3>1 DEF Stamp!PeriodH, Stamp!WritePeriod
    <3>3. p = Stamp!W - 1
      BY <2>2, <3>1
    <3> QED BY <3>2, <3>3
  <2> QED BY <1>3, <2>3 DEF Stamp!PeriodH, Stamp!WritePeriod, StampIInv, StampTypeOK, StampSetUp, StampReading
<1>4. CASE Stamp!Run
  BY <1>4 DEF Stamp!Run, Val, StampIInv, StampTypeOK, StampSetUp, StampReading
<1> QED BY <1>1, <1>2, <1>3, <1>4

LEMMA StampAsking ==
  ASSUME Stamp!TimestampAssumption, StampIInv, Stamp!Ask \/ Stamp!Snap \/ Stamp!Lower \/ Stamp!Upper
  PROVE  StampIInv'
<1> USE WordIs
<1>1. CASE Stamp!Ask
  BY <1>1 DEF Stamp!Ask, Stamp!timer, StampIInv, StampTypeOK, StampSetUp, StampReading
<1>2. CASE Stamp!Snap
  <2>1. since \in Nat /\ atCall \in Nat /\ atCall <= since /\ snap' = Val(since)
    BY <1>2 DEF Stamp!Snap, StampIInv, StampTypeOK, StampSetUp, StampReading
  <2>2. since \in atCall .. since
    BY <2>1
  <2> QED BY <1>2, <2>1, <2>2 DEF Stamp!Snap, StampIInv, StampTypeOK, StampSetUp, StampReading
<1>3. CASE Stamp!Lower
  BY <1>3 DEF Stamp!Lower, Stamp!timer, StampIInv, StampTypeOK, StampSetUp, StampReading
<1>4. CASE Stamp!Upper
  <2>1. since \in Nat /\ atCall \in Nat /\ since # Stamp!None /\ lower = snap % Half
    BY <1>4 DEF Stamp!Upper, StampIInv, StampTypeOK, StampReading
  <2>2. PICK t \in atCall .. since : snap = Val(t)
    BY <1>4 DEF Stamp!Upper, StampIInv, StampReading
  <2>3. snap \in Nat
    BY <2>1, <2>2 DEF Val
  <2>4. Half * (snap \div Half) + lower = snap
    <3>1. PICK n \in Int : n = snap
      BY <2>3
    <3>2. PICK q \in Int, r \in 0 .. Half - 1 : n = Half * q + r /\ n \div Half = q /\ n % Half = r
      BY Parts
    <3>3. snap \div Half = q /\ lower = r
      BY <2>1, <3>1, <3>2
    <3>4. Half * (snap \div Half) + lower = Half * q + r
      BY <3>3
    <3> QED BY <3>1, <3>2, <3>4
  <2>5. result' = Stamp!W - 1 - Val(t) /\ result' \in Int
    BY <1>4, <2>2, <2>3, <2>4 DEF Stamp!Upper
  <2>6. StampReading'
    BY <1>4, <2>1, <2>5 DEF Stamp!Upper, Stamp!timer, StampIInv, StampReading
  <2> QED BY <1>4, <2>5, <2>6 DEF Stamp!Upper, Stamp!timer, StampIInv, StampTypeOK, StampSetUp
<1> QED BY <1>1, <1>2, <1>3, <1>4

(***************************************************************************)
(* A timestamp is right for a moment within its call, however many ticks   *)
(* pass between the accesses to the registers, for every width of them.    *)
(***************************************************************************)
THEOREM TimestampsTrue == ASSUME Stamp!TimestampAssumption PROVE Stamp!Spec => []Stamp!TimestampTrue
<1>1. StampIInv /\ [Stamp!Next]_(Stamp!vars) => StampIInv'
  <2> SUFFICES ASSUME StampIInv, [Stamp!Next]_(Stamp!vars) PROVE StampIInv'
    OBVIOUS
  <2>1. CASE UNCHANGED Stamp!vars
    BY <2>1 DEF Stamp!vars, Stamp!timer, StampIInv, StampTypeOK, StampSetUp, StampReading
  <2> QED BY <2>1, StampTick, StampStarting, StampAsking DEF Stamp!Next
<1>2. StampIInv => Stamp!TimestampTrue
  <2> SUFFICES ASSUME StampIInv, freq # 0, result # Stamp!None
               PROVE  \E t \in atCall .. since : result = IF t < Stamp!W THEN t ELSE 0
    BY DEF Stamp!TimestampTrue
  <2>1. since \in Nat /\ atCall \in Nat
    BY WordIs DEF StampIInv, StampTypeOK, StampReading
  <2>2. PICK t \in atCall .. since : result = Stamp!W - 1 - Val(t)
    BY DEF StampIInv, StampReading
  <2>3. result = IF t < Stamp!W THEN t ELSE 0
    BY <2>1, <2>2, WordIs DEF Val
  <2> QED BY <2>2, <2>3
<1> QED BY StampInit, <1>1, <1>2, PTL DEF Stamp!Spec

-----------------------------------------------------------------------------
(* The time of day.  It is the instance Day, whose counter is nticks.      *)

CONSTANTS US, Rates, Seconds, Fractions
VARIABLES tick_rate, resettime, given, wrapped
Day == INSTANCE TimeOfDay

LEMMA Normalised ==
  ASSUME Day!TimeAssumption, NEW s \in Int, NEW v \in Int, -US < v, v < 2 * US
  PROVE  LET t == Day!Normal([sec |-> s, usec |-> v])
         IN  /\ t.usec \in 0 .. US - 1
             /\ Day!InFractions(t) = s * US + v \/ (s * US + v < 0 /\ Day!InFractions(t) = 0)
<1>0. US \in Nat \ {0}
  BY DEF Day!TimeAssumption
<1> DEFINE t == Day!Normal([sec |-> s, usec |-> v])
<1>1. CASE v < 0 /\ s <= 0
  <2>1. t = [sec |-> 0, usec |-> 0]
    BY <1>1 DEF Day!Normal, Day!NoTime
  <2>2. Day!InFractions(t) = 0 * US + 0 /\ t.usec = 0
    BY <2>1 DEF Day!InFractions
  <2>3. s * US <= 0
    BY <1>0, <1>1
  <2>4. PICK x \in Int : x = s * US
    BY <1>0
  <2>5. s * US + v < 0
    BY <1>1, <2>3, <2>4
  <2> QED BY <1>0, <2>2, <2>5
<1>2. CASE v < 0 /\ s > 0
  <2>2. t = [sec |-> s - 1, usec |-> v + US]
    BY <1>2 DEF Day!Normal
  <2>3. Day!InFractions(t) = (s - 1) * US + (v + US)
    BY <2>2 DEF Day!InFractions
  <2>4. (s - 1) * US = s * US - US
    BY <1>0
  <2>5. t.usec = v + US
    BY <2>2
  <2> QED BY <1>0, <1>2, <2>3, <2>4, <2>5
<1>3. CASE v >= US
  <2>2. t = [sec |-> s + 1, usec |-> v - US]
    BY <1>0, <1>3 DEF Day!Normal
  <2>3. Day!InFractions(t) = (s + 1) * US + (v - US)
    BY <2>2 DEF Day!InFractions
  <2>4. (s + 1) * US = s * US + US
    BY <1>0
  <2>5. t.usec = v - US
    BY <2>2
  <2> QED BY <1>0, <1>3, <2>3, <2>4, <2>5
<1>4. CASE v \in 0 .. US - 1
  <2>2. t = [sec |-> s, usec |-> v]
    BY <1>0, <1>4 DEF Day!Normal
  <2>3. Day!InFractions(t) = s * US + v /\ t.usec = v
    BY <2>2 DEF Day!InFractions
  <2> QED BY <1>4, <2>3
<1> QED BY <1>0, <1>1, <1>2, <1>3, <1>4

-----------------------------------------------------------------------------
Offset(t, n) ==
  [sec |-> t.sec - n \div tick_rate, usec |-> t.usec - (((n * Day!PerTick) % W) % US)]

TimeIInv ==
  /\ nticks \in 0 .. W - 1 /\ tick_rate \in Rates
  /\ given \in [t : [sec : Nat, usec : 0 .. US - 1], at : Nat]
  /\ wrapped \in BOOLEAN /\ (~wrapped => given.at <= nticks)
  /\ tick_rate # 0 => resettime = Offset(given.t, given.at)

LEMMA TimeInit == Day!TimeAssumption /\ Day!Init => TimeIInv
<1> SUFFICES ASSUME Day!TimeAssumption, Day!Init PROVE TimeIInv
  OBVIOUS
<1>0. W \in Nat \ {0} /\ US \in Nat \ {0} /\ Rates \subseteq 0 .. US
  BY DEF Day!TimeAssumption
<1>1. /\ nticks = 0 /\ tick_rate \in Rates /\ resettime = Day!NoTime /\ given = [t |-> Day!NoTime, at |-> 0]
      /\ wrapped = FALSE
  BY DEF Day!Init
<1>2. given \in [t : [sec : Nat, usec : 0 .. US - 1], at : Nat] /\ given.at = 0 /\ given.t = Day!NoTime
  BY <1>0, <1>1 DEF Day!NoTime
<1>3. ASSUME tick_rate # 0 PROVE resettime = Offset(given.t, given.at)
  <2>1. tick_rate \in Nat \ {0}
    BY <1>0, <1>1, <1>3
  <2>2. PICK p \in Int : p = Day!PerTick
    BY <1>0, <2>1 DEF Day!PerTick
  <2>3. 0 * p = 0
    OBVIOUS
  <2>4. 0 % W = 0 /\ 0 % US = 0 /\ 0 \div tick_rate = 0
    <3>1. \A H \in Nat \ {0} : H * 0 + 0 = 0
      OBVIOUS
    <3>2. \A H \in Nat \ {0} : (H * 0 + 0) % H = 0 /\ (H * 0 + 0) \div H = 0
      BY Divided
    <3> QED BY <1>0, <2>1, <3>1, <3>2
  <2>5. ((0 * Day!PerTick) % W) % US = 0
    BY <2>2, <2>3, <2>4
  <2>6. Offset(Day!NoTime, 0) = [sec |-> 0, usec |-> 0]
    BY <2>4, <2>5 DEF Offset, Day!NoTime
  <2> QED BY <1>1, <1>2, <2>6 DEF Day!NoTime
<1>4. nticks \in 0 .. W - 1 /\ given.at <= nticks
  BY <1>0, <1>1, <1>2
<1> QED BY <1>1, <1>2, <1>3, <1>4 DEF TimeIInv

LEMMA TimeStep ==
  ASSUME Day!TimeAssumption, TimeIInv, Day!Next
  PROVE  TimeIInv'
<1>1. CASE Day!Tick
  <2>1. /\ nticks' = (nticks + 1) % W /\ wrapped' = (wrapped \/ nticks' = 0)
        /\ UNCHANGED <<tick_rate, resettime, given>>
    BY <1>1 DEF Day!Tick
  <2>2. W \in Nat \ {0} /\ nticks \in 0 .. W - 1
    BY DEF Day!TimeAssumption, TimeIInv
  <2>3. nticks' = IF nticks = W - 1 THEN 0 ELSE nticks + 1
    <3>1. nticks < W - 1 => (nticks + 1) % W = nticks + 1
      BY <2>2
    <3>2. W % W = 0
      BY <2>2
    <3>3. nticks = W - 1 => nticks + 1 = W
      BY <2>2
    <3> QED BY <2>1, <2>2, <3>1, <3>2, <3>3
  <2>4. given.at \in Nat
    BY DEF TimeIInv
  <2>5. ASSUME ~wrapped'
        PROVE  given'.at <= nticks'
    <3>1. nticks' # 0 /\ ~wrapped /\ given'.at = given.at
      BY <2>1, <2>5
    <3>2. given.at <= nticks
      BY <3>1 DEF TimeIInv
    <3> QED BY <2>2, <2>3, <2>4, <3>1, <3>2
  <2>6. nticks' \in 0 .. W - 1 /\ wrapped' \in BOOLEAN
    BY <2>1, <2>2, <2>3 DEF TimeIInv
  <2> QED BY <2>1, <2>5, <2>6 DEF TimeIInv, Offset, Day!PerTick
<1>2. ASSUME NEW t \in [sec : Seconds, usec : Fractions], Day!SETTIMEOFDAY(t)
      PROVE  TimeIInv'
  <2>1. t \in [sec : Nat, usec : 0 .. US - 1]
    BY DEF Day!TimeAssumption
  <2>2. /\ tick_rate # 0 /\ given' = [t |-> t, at |-> nticks] /\ resettime' = Offset(t, nticks)
        /\ wrapped' = FALSE /\ UNCHANGED <<nticks, tick_rate>>
    BY <1>2 DEF Day!SETTIMEOFDAY, Offset
  <2>3. given'.t = t /\ given'.at = nticks /\ nticks \in 0 .. W - 1 /\ tick_rate \in Rates
    BY <2>2 DEF TimeIInv
  <2>4. Offset(given.t, given.at)' = Offset(t, nticks)
    BY <2>2, <2>3 DEF Offset, Day!PerTick
  <2>5. given'.at <= nticks' /\ nticks \in Nat
    BY <2>2, <2>3
  <2>6. given' \in [t : [sec : Nat, usec : 0 .. US - 1], at : Nat]
    BY <2>1, <2>2, <2>5
  <2> QED BY <2>2, <2>3, <2>4, <2>5, <2>6 DEF TimeIInv
<1> QED BY <1>1, <1>2 DEF Day!Next

LEMMA TimeIsKept ==
  ASSUME Day!TimeAssumption, TimeIInv, tick_rate # 0, US % tick_rate = 0, given.at * Day!PerTick < W
  PROVE  LET now == Day!InFractions(Day!GETTIMEOFDAY)
             counted == Day!InFractions(given.t) + (nticks - given.at) * Day!PerTick
         IN  /\ Day!GETTIMEOFDAY.usec \in 0 .. US - 1
             /\ ~wrapped => nticks >= given.at /\ now = counted
             /\ wrapped => now = counted \/ (counted < 0 /\ now = 0)
<1>0. W \in Nat \ {0} /\ US \in Nat \ {0} /\ Rates \subseteq 0 .. US
  BY DEF Day!TimeAssumption
<1>1. PICK r \in Nat \ {0} : r = tick_rate
  BY <1>0 DEF TimeIInv
<1>2. PICK p \in Nat \ {0} : p = Day!PerTick /\ US = r * p
  <2>1. PICK p \in Int, k \in 0 .. r - 1 : US = r * p + k /\ US \div r = p /\ US % r = k
    BY <1>0, Parts
  <2>2. k = 0 /\ Day!PerTick = p
    BY <1>1, <2>1 DEF Day!PerTick
  <2>3. p > 0
    <3> SUFFICES ASSUME p <= 0 PROVE FALSE
      BY <2>1
    <3>1. r * p <= 0
      BY <2>1
    <3> QED BY <1>0, <2>1, <2>2, <3>1
  <2> QED BY <2>1, <2>2, <2>3
<1>3. PICK n \in Nat, a \in Nat, ts \in Nat, tu \in 0 .. US - 1 :
        /\ n = nticks /\ a = given.at /\ given.t.sec = ts /\ given.t.usec = tu
        /\ ~wrapped => a <= n
  BY DEF TimeIInv
<1>u. PICK u \in Nat \ {0} : u = US /\ u = r * p
  BY <1>0, <1>2
<1>t. \A k \in Nat : \E q \in Nat, m \in 0 .. u - 1 : k \div r = q /\ k * p = u * q + m /\ (k * p) % u = m
  <2> SUFFICES ASSUME NEW k \in Nat
               PROVE  \E q \in Nat, m \in 0 .. u - 1 : k \div r = q /\ k * p = u * q + m /\ (k * p) % u = m
    OBVIOUS
  <2>1. PICK q \in Int, j \in 0 .. r - 1 : k = r * q + j /\ k \div r = q
    BY Parts
  <2>2. q >= 0
    <3> SUFFICES ASSUME q <= -1 PROVE FALSE
      BY <2>1
    <3>1. r * q <= -r
      BY <2>1
    <3> QED BY <2>1, <3>1
  <2>3. PICK m \in Int : m = j * p
    OBVIOUS
  <2>4. m \in 0 .. u - 1
    <3>1. j * p <= (r - 1) * p /\ j * p >= 0
      BY <2>1
    <3>2. (r - 1) * p = r * p - p
      OBVIOUS
    <3> QED BY <1>u, <2>3, <3>1, <3>2
  <2>5. k * p = u * q + m
    <3>1. (r * q + j) * p = (r * q) * p + j * p
      BY <2>1
    <3>2. (r * q) * p = (r * p) * q
      BY <2>1
    <3>3. PICK b \in Int : b = (r * p) * q
      BY <2>1
    <3>4. u * q = b
      BY <1>u, <3>3
    <3> QED BY <2>1, <2>3, <3>1, <3>2, <3>3, <3>4
  <2>6. (u * q + m) % u = m
    BY <2>1, <2>4, Divided
  <2> QED BY <2>1, <2>2, <2>4, <2>5, <2>6
<1>4. PICK qn \in Nat, mn \in 0 .. US - 1 : n \div r = qn /\ n * p = US * qn + mn /\ (n * p) % US = mn
  BY <1>u, <1>t
<1>5. PICK qa \in Nat, ma \in 0 .. US - 1 : a \div r = qa /\ a * p = US * qa + ma /\ (a * p) % US = ma
  BY <1>u, <1>t
<1>6. (a * p) % W = a * p
  <2>1. PICK x \in Nat : x = a * p
    BY <1>2, <1>3
  <2>2. x < W
    BY <1>2, <1>3, <2>1
  <2>3. x % W = x
    BY <1>0, <2>2
  <2> QED BY <2>1, <2>3
<1>7. resettime.sec = ts - qa /\ resettime.usec = tu - ma
  <2>1. resettime = Offset(given.t, given.at)
    BY DEF TimeIInv
  <2>2. resettime.sec = ts - a \div r
    BY <1>1, <1>3, <2>1 DEF Offset
  <2>3. resettime.usec = tu - (((a * p) % W) % US)
    BY <1>2, <1>3, <2>1 DEF Offset
  <2> QED BY <1>5, <1>6, <2>2, <2>3
<1> DEFINE s == ts - qa + qn
           v == tu - ma + mn
<1>8. Day!GETTIMEOFDAY = Day!Normal([sec |-> s, usec |-> v])
  <2>1. nticks \div tick_rate = qn /\ (nticks * Day!PerTick) % US = mn
    BY <1>1, <1>2, <1>3, <1>4
  <2> QED BY <1>7, <2>1 DEF Day!GETTIMEOFDAY
<1>9. s * US + v = ts * US + tu + (n - a) * p
  <2>1. s * US = ts * US - US * qa + US * qn
    BY <1>0, <1>3, <1>4, <1>5
  <2>2. (n - a) * p = n * p - a * p
    BY <1>2, <1>3
  <2>3. PICK x \in Int, y \in Int, z \in Int, xa \in Int, xn \in Int :
          x = ts * US /\ y = US * qa /\ z = US * qn /\ xa = a * p /\ xn = n * p
    BY <1>0, <1>2
  <2>4. s * US = x - y + z /\ (n - a) * p = xn - xa
    BY <2>1, <2>2, <2>3
  <2>5. xn = z + mn /\ xa = y + ma
    BY <1>4, <1>5, <2>3
  <2> QED BY <1>0, <2>3, <2>4, <2>5
<1>10. ~wrapped => s * US + v >= 0
  <2>1. ~wrapped => (n - a) * p >= 0 /\ ts * US >= 0
    BY <1>0, <1>2, <1>3
  <2> QED BY <1>0, <1>9, <2>1
<1>11. s \in Int /\ v \in Int /\ -US < v /\ v < 2 * US
  BY <1>0
<1> HIDE DEF s, v
<1> DEFINE t == Day!Normal([sec |-> s, usec |-> v])
<1>12. /\ t.usec \in 0 .. US - 1
       /\ Day!InFractions(t) = s * US + v \/ (s * US + v < 0 /\ Day!InFractions(t) = 0)
  BY <1>11, Normalised
<1>13. Day!InFractions(given.t) = ts * US + tu
  BY <1>3 DEF Day!InFractions
<1>14. (nticks - given.at) * Day!PerTick = (n - a) * p
  BY <1>2, <1>3
<1>15. PICK counted \in Int : counted = s * US + v
  BY <1>0, <1>11
<1>16. counted = Day!InFractions(given.t) + (nticks - given.at) * Day!PerTick
  BY <1>9, <1>13, <1>14, <1>15
<1>17. PICK now : now = Day!InFractions(Day!GETTIMEOFDAY)
  OBVIOUS
<1>18. now = counted \/ (counted < 0 /\ now = 0)
  BY <1>8, <1>12, <1>15, <1>17
<1>19. ~wrapped => nticks >= given.at /\ now = counted
  <2>1. ASSUME ~wrapped PROVE a <= n /\ counted >= 0
    BY <1>3, <1>10, <1>15, <2>1
  <2>2. counted >= 0 => now = counted
    BY <1>15, <1>18
  <2>3. a <= n => nticks >= given.at
    BY <1>3
  <2> QED BY <2>1, <2>2, <2>3
<1>20. Day!GETTIMEOFDAY.usec \in 0 .. US - 1
  BY <1>8, <1>12
<1> HIDE DEF t
<1> QED BY Zenon, <1>18, <1>19, <1>16, <1>17, <1>20

(***************************************************************************)
(* The time of day is the time given and the ticks since, for every rate   *)
(* that divides a second and every setting whose product fits a word, as   *)
(* long as the counter has not wrapped since the setting; then it is that  *)
(* of the counter's word, the ticks of whole turns missing.                *)
(***************************************************************************)
THEOREM TimeGoesOn == ASSUME Day!TimeAssumption PROVE Day!Spec => []Day!TimeKept
<1>1. TimeIInv /\ [Day!Next]_(Day!vars) => TimeIInv'
  <2> SUFFICES ASSUME TimeIInv, [Day!Next]_(Day!vars) PROVE TimeIInv'
    OBVIOUS
  <2>1. CASE UNCHANGED Day!vars
    BY <2>1 DEF Day!vars, TimeIInv, Offset, Day!PerTick
  <2> QED BY <2>1, TimeStep
<1>2. TimeIInv => Day!TimeKept
  BY TimeIsKept DEF Day!TimeKept
<1> QED BY <1>1, <1>2, TimeInit, PTL DEF Day!Spec

-----------------------------------------------------------------------------
(* The performance counter.  It is the instance Perf.                      *)

CONSTANTS Sections, HALF, MaxClocks
VARIABLES starts, on, elapsed, reading, report
Perf == INSTANCE PerfCounter

\* The sections are numbered, and nothing is measured longer than the counters count.
Measurable == 
  /\ HALF \in Nat \ {0} /\ MaxClocks \in Nat /\ MaxClocks < HALF * HALF
  /\ \E n \in Nat : Sections = 0 .. n

Rows == [time : Nat, starts : Nat]
Readings ==
  [pc : {"none", "lo", "hi", "row", "done", "reported"}, section : Sections, lo : Nat,
   result : Nat, listed : BOOLEAN]

PerfTypeOK ==
  /\ time \in [Sections -> Nat] /\ starts \in [Sections -> Nat] /\ on \subseteq Sections
  /\ reading \in Readings /\ report \in Seq(Rows)

Measured ==
  /\ elapsed = time
  /\ \A s \in Sections : time[s] <= MaxClocks /\ time[s] <= time[0]

Consistent ==
  /\ reading.pc # "none" => 0 \notin on
  /\ reading.pc = "hi" => reading.lo = time[reading.section] % HALF
  /\ reading.pc \in {"row", "done"} => reading.result = time[reading.section]
  /\ reading.pc = "row" => reading.listed
  /\ reading.pc = "done" => ~reading.listed

Listed(n) ==
  Len(report) = n /\ \A s \in Sections : s < n => report[s + 1] = [time |-> time[s], starts |-> starts[s]]

Reporting ==
  /\ reading.pc \in {"lo", "hi", "row"} /\ reading.listed => Listed(reading.section)
  /\ reading.pc = "reported" => Listed(1 + Perf!Max(Sections))

PerfIInv == PerfTypeOK /\ Measured /\ Consistent /\ Reporting

-----------------------------------------------------------------------------
LEMMA Greatest == ASSUME NEW n \in Nat PROVE Perf!Max(0 .. n) = n
<1>1. n \in 0 .. n /\ \A y \in 0 .. n : n >= y
  OBVIOUS
<1>2. \A x \in 0 .. n : (\A y \in 0 .. n : x >= y) => x = n
  OBVIOUS
<1> QED BY <1>1, <1>2 DEF Perf!Max

LEMMA SectionsAre ==
  ASSUME Measurable
  PROVE  Perf!Max(Sections) \in Nat /\ Sections = 0 .. Perf!Max(Sections)
BY Greatest DEF Measurable

LEMMA NoReading ==
  ASSUME Measurable
  PROVE  Perf!NotReading \in Readings /\ Perf!NotReading.pc = "none"
<1>1. 0 \in Sections
  BY SectionsAre
<1> QED BY <1>1 DEF Perf!NotReading, Readings

LEMMA PerfInit == Measurable /\ Perf!Init => PerfIInv
<1> SUFFICES ASSUME Measurable, Perf!Init PROVE PerfIInv
  OBVIOUS
<1>1. Perf!NotReading \in Readings /\ Perf!NotReading.pc = "none" /\ 0 \in Sections /\ MaxClocks \in Nat
  BY NoReading, SectionsAre DEF Measurable
<1>2. PerfTypeOK
  BY <1>1 DEF Perf!Init, Perf!Zeros, PerfTypeOK
<1>3. Measured
  BY <1>1 DEF Perf!Init, Perf!Zeros, Measured
<1>4. Consistent
  BY <1>1 DEF Perf!Init, Consistent
<1>5. Reporting
  BY <1>1 DEF Perf!Init, Reporting
<1> QED BY <1>2, <1>3, <1>4, <1>5 DEF PerfIInv

LEMMA PerfClock ==
  ASSUME Measurable, PerfIInv, Perf!Clock
  PROVE  PerfIInv'
<1>0. 0 \in Sections /\ HALF * HALF \in Nat /\ MaxClocks \in Nat /\ MaxClocks < HALF * HALF
  BY SectionsAre DEF Measurable
<1>1. time \in [Sections -> Nat] /\ elapsed = time /\ \A s \in Sections : time[s] < MaxClocks /\ time[s] <= time[0]
  BY DEF PerfIInv, PerfTypeOK, Measured, Perf!Clock
<1>2. elapsed' = [s \in Sections |-> time[s] + IF Perf!Counting(s) THEN 1 ELSE 0]
  BY <1>1 DEF Perf!Clock
<1>3. time' = elapsed'
  <2>1. \A s \in Sections : (time[s] + IF Perf!Counting(s) THEN 1 ELSE 0) % (HALF * HALF)
                              = time[s] + IF Perf!Counting(s) THEN 1 ELSE 0
    <3>1. TAKE s \in Sections
    <3>2. PICK w \in Nat : w = HALF * HALF
      BY <1>0
    <3>3. PICK t \in Nat : t = time[s] + IF Perf!Counting(s) THEN 1 ELSE 0
      BY <1>1
    <3>4. t < w
      BY <1>0, <1>1, <3>2, <3>3
    <3>5. t % w = t
      BY <3>4
    <3> QED BY <3>2, <3>3, <3>5
  <2>2. time' = [s \in Sections |-> (time[s] + IF Perf!Counting(s) THEN 1 ELSE 0) % (HALF * HALF)]
    BY DEF Perf!Clock
  <2> QED BY <1>2, <2>1, <2>2
<1>4. \A s \in Sections : time'[s] = time[s] + IF Perf!Counting(s) THEN 1 ELSE 0
  BY <1>2, <1>3
<1>5. UNCHANGED <<starts, on, reading, report>>
  BY DEF Perf!Clock
<1>6. PerfTypeOK'
  <2>1. time' \in [Sections -> Nat]
    BY <1>1, <1>2, <1>3
  <2> QED BY <1>5, <2>1 DEF PerfIInv, PerfTypeOK
<1>7. Measured'
  BY <1>0, <1>1, <1>3, <1>4 DEF Measured, Perf!Counting
<1>8. reading.pc # "none" => time' = time
  <2> SUFFICES ASSUME reading.pc # "none" PROVE time' = time
    OBVIOUS
  <2>1. 0 \notin on
    BY DEF PerfIInv, Consistent
  <2>2. \A s \in Sections : time'[s] = time[s]
    BY <1>1, <1>4, <2>1 DEF Perf!Counting
  <2> QED BY <1>1, <1>2, <1>3, <2>2
<1>9. Consistent'
  BY <1>5, <1>8 DEF PerfIInv, Consistent
<1>10. Reporting'
  BY <1>5, <1>8 DEF PerfIInv, Reporting, Listed
<1> QED BY <1>6, <1>7, <1>9, <1>10 DEF PerfIInv

LEMMA PerfProgram ==
  ASSUME Measurable, PerfIInv,
         Perf!PERF_RESET \/ Perf!Report \/ \E s \in Sections : Perf!PERF_BEGIN(s) \/ Perf!PERF_END(s) \/ Perf!Stop(s)
  PROVE  PerfIInv'
<1>0. 0 \in Sections /\ HALF \in Nat \ {0} /\ MaxClocks \in Nat
      /\ Perf!NotReading \in Readings /\ Perf!NotReading.pc = "none"
  BY SectionsAre, NoReading DEF Measurable
<1>1. CASE Perf!PERF_RESET
  <2>1. PerfTypeOK'
    BY <1>0, <1>1 DEF Perf!PERF_RESET, Perf!Zeros, PerfTypeOK
  <2>2. Measured'
    BY <1>0, <1>1 DEF Perf!PERF_RESET, Perf!Zeros, Measured
  <2>3. Consistent' /\ Reporting'
    BY <1>0, <1>1 DEF Perf!PERF_RESET, Consistent, Reporting
  <2> QED BY <2>1, <2>2, <2>3 DEF PerfIInv
<1>2. CASE Perf!Report
  <2>1. /\ on' = on \ {0} /\ report' = <<>> /\ UNCHANGED <<time, starts, elapsed>>
        /\ reading' = [Perf!NotReading EXCEPT !.pc = "lo", !.listed = TRUE]
    BY <1>2 DEF Perf!Report
  <2>2. reading' \in Readings /\ reading'.pc = "lo" /\ reading'.section = 0
    BY <1>0, <2>1 DEF Readings, Perf!NotReading
  <2>3. PerfTypeOK'
    BY <2>1, <2>2 DEF PerfIInv, PerfTypeOK
  <2>4. Measured'
    BY <2>1 DEF PerfIInv, Measured
  <2>5. Consistent'
    BY <2>1, <2>2 DEF Consistent
  <2>6. Listed(0)'
    <3>1. \A s \in Sections : ~(s < 0)
      BY SectionsAre
    <3> QED BY <2>1, <3>1 DEF Listed
  <2>7. Reporting'
    BY <2>2, <2>6 DEF Reporting
  <2> QED BY <2>3, <2>4, <2>5, <2>7 DEF PerfIInv
<1>3. ASSUME NEW s \in Sections, Perf!PERF_BEGIN(s) \/ Perf!PERF_END(s)
      PROVE  PerfIInv'
  <2>1. /\ UNCHANGED <<time, elapsed>> /\ reading' = Perf!NotReading /\ report' = <<>> /\ on' \subseteq Sections
    BY <1>3 DEF Perf!PERF_BEGIN, Perf!PERF_END, PerfIInv, PerfTypeOK
  <2>2. starts' \in [Sections -> Nat]
    <3>1. starts \in [Sections -> Nat]
      BY DEF PerfIInv, PerfTypeOK
    <3>2. (starts[s] + 1) % HALF \in Nat
      BY <1>0, <3>1
    <3> QED BY <1>3, <3>1, <3>2 DEF Perf!PERF_BEGIN, Perf!PERF_END
  <2>3. PerfTypeOK'
    BY <1>0, <2>1, <2>2 DEF PerfIInv, PerfTypeOK
  <2>4. Measured'
    BY <2>1 DEF PerfIInv, Measured
  <2>5. Consistent' /\ Reporting'
    BY <1>0, <2>1 DEF Consistent, Reporting
  <2> QED BY <2>3, <2>4, <2>5 DEF PerfIInv
<1>4. ASSUME NEW s \in Sections, Perf!Stop(s)
      PROVE  PerfIInv'
  <2>1. /\ on' = on \ {0} /\ report' = <<>> /\ UNCHANGED <<time, starts, elapsed>>
        /\ reading' = [Perf!NotReading EXCEPT !.pc = "lo", !.section = s]
    BY <1>4 DEF Perf!Stop
  <2>2. reading' \in Readings /\ reading'.pc = "lo" /\ ~reading'.listed
    BY <1>0, <2>1 DEF Readings, Perf!NotReading
  <2>3. PerfTypeOK'
    BY <2>1, <2>2 DEF PerfIInv, PerfTypeOK
  <2>4. Measured'
    BY <2>1 DEF PerfIInv, Measured
  <2>5. Consistent' /\ Reporting'
    BY <2>1, <2>2 DEF Consistent, Reporting
  <2> QED BY <2>3, <2>4, <2>5 DEF PerfIInv
<1> QED BY <1>1, <1>2, <1>3, <1>4

LEMMA PerfReading ==
  ASSUME Measurable, PerfIInv, Perf!ReadLow \/ Perf!ReadHigh \/ Perf!Row
  PROVE  PerfIInv'
<1>0. HALF \in Nat \ {0} /\ 0 \in Sections
  BY SectionsAre DEF Measurable
<1>1. /\ time \in [Sections -> Nat] /\ reading \in Readings /\ reading.section \in Sections
      /\ time[reading.section] \in Nat /\ report \in Seq(Rows) /\ reading.result \in Nat /\ reading.lo \in Nat
      /\ starts \in [Sections -> Nat]
  BY DEF PerfIInv, PerfTypeOK, Readings
<1>2. PICK t \in Nat : t = time[reading.section]
  BY <1>1
<1>3. PICK q \in Int, r \in 0 .. HALF - 1 : t = HALF * q + r /\ t \div HALF = q /\ t % HALF = r
  BY <1>0, Parts
<1>4. CASE Perf!ReadLow
  <2>1. /\ reading.pc = "lo" /\ UNCHANGED <<Perf!hardware, elapsed, report>>
        /\ reading' = [reading EXCEPT !.pc = "hi", !.lo = r]
    BY <1>2, <1>3, <1>4 DEF Perf!ReadLow
  <2>2. /\ reading' \in Readings /\ reading'.pc = "hi" /\ reading'.lo = r
        /\ reading'.section = reading.section /\ reading'.listed = reading.listed
    <3>1. r \in Nat
      OBVIOUS
    <3> QED BY <1>1, <2>1, <3>1 DEF Readings
  <2>3. PerfTypeOK' /\ Measured'
    BY <2>1, <2>2 DEF Perf!hardware, PerfIInv, PerfTypeOK, Measured
  <2>4. Consistent'
    BY <1>2, <1>3, <2>1, <2>2 DEF Perf!hardware, PerfIInv, Consistent
  <2>5. Reporting'
    BY <2>1, <2>2 DEF Perf!hardware, PerfIInv, Reporting, Listed
  <2> QED BY <2>3, <2>4, <2>5 DEF PerfIInv
<1>5. CASE Perf!ReadHigh
  <2>1. /\ reading.pc = "hi" /\ UNCHANGED <<Perf!hardware, elapsed, report>>
        /\ reading' = [reading EXCEPT !.pc = IF reading.listed THEN "row" ELSE "done", !.lo = 0,
                         !.result = (time[reading.section] \div HALF) * HALF + reading.lo]
    BY <1>5 DEF Perf!ReadHigh
  <2>2. reading.lo = r
    BY <1>2, <1>3, <2>1 DEF PerfIInv, Consistent
  <2>3. (time[reading.section] \div HALF) * HALF + reading.lo = t
    <3>1. time[reading.section] \div HALF = q
      BY <1>2, <1>3
    <3>2. q * HALF = HALF * q
      BY <1>0, <1>3
    <3> QED BY <1>3, <2>2, <3>1, <3>2
  <2>4. /\ reading' \in Readings /\ reading'.pc = (IF reading.listed THEN "row" ELSE "done")
        /\ reading'.result = t /\ reading'.section = reading.section /\ reading'.listed = reading.listed
    <3>1. reading' = [reading EXCEPT !.pc = IF reading.listed THEN "row" ELSE "done", !.lo = 0, !.result = t]
      BY <2>1, <2>3
    <3> QED BY <1>1, <3>1 DEF Readings
  <2>5. PerfTypeOK' /\ Measured'
    BY <2>1, <2>4 DEF Perf!hardware, PerfIInv, PerfTypeOK, Measured
  <2>6. Consistent'
    BY <1>2, <2>1, <2>4 DEF Perf!hardware, PerfIInv, Consistent
  <2>7. Reporting'
    BY <2>1, <2>4 DEF Perf!hardware, PerfIInv, Reporting, Listed
  <2> QED BY <2>5, <2>6, <2>7 DEF PerfIInv
<1>6. CASE Perf!Row
  <2> DEFINE row == [time |-> reading.result, starts |-> starts[reading.section]]
  <2>0. PICK n \in Sections : n = reading.section
    BY <1>1
  <2>1. /\ reading.pc = "row" /\ report' = Append(report, row) /\ UNCHANGED <<time, starts, elapsed>>
    BY <1>6 DEF Perf!Row
  <2>2. row \in Rows
    BY <1>1 DEF Rows
  <2>3. /\ Len(report) = n /\ n \in Nat /\ reading.listed /\ reading.result = time[n]
        /\ \A s \in Sections : s < n => report[s + 1] = [time |-> time[s], starts |-> starts[s]]
    BY <1>1, <2>0, <2>1, SectionsAre DEF PerfIInv, Consistent, Reporting, Listed
  <2>4. Listed(n + 1)'
    <3>1. Len(report') = n + 1
      BY <1>1, <2>1, <2>2, <2>3
    <3>2. ASSUME NEW s \in Sections, s < n + 1
          PROVE  report'[s + 1] = [time |-> time[s], starts |-> starts[s]]
      <4>1. s \in Nat
        BY SectionsAre
      <4>2. CASE s < n
        <5>1. s + 1 \in 1 .. Len(report)
          BY <2>3, <4>1, <4>2
        <5>2. report'[s + 1] = report[s + 1]
          BY <1>1, <2>1, <2>2, <5>1
        <5> QED BY <2>3, <4>2, <5>2
      <4>3. CASE s = n
        <5>1. report'[n + 1] = row
          BY <1>1, <2>1, <2>2, <2>3
        <5> QED BY <2>0, <2>3, <4>3, <5>1
      <4> QED BY <2>3, <3>2, <4>1, <4>2, <4>3
    <3> QED BY <2>1, <3>1, <3>2 DEF Listed
  <2>5. report' \in Seq(Rows)
    BY <1>1, <2>1, <2>2
  <2>6. CASE n + 1 \in Sections
    <3>1. on' = on \ {0} /\ reading' = [reading EXCEPT !.pc = "lo", !.section = n + 1]
      BY <1>6, <2>0, <2>6 DEF Perf!Row
    <3>2. reading' \in Readings /\ reading'.pc = "lo" /\ reading'.section = n + 1
      BY <1>1, <2>6, <3>1 DEF Readings
    <3>3. PerfTypeOK' /\ Measured'
      BY <2>1, <2>5, <3>1, <3>2 DEF PerfIInv, PerfTypeOK, Measured
    <3>4. Consistent' /\ Reporting'
      BY <2>4, <3>1, <3>2 DEF Consistent, Reporting
    <3> QED BY <3>3, <3>4 DEF PerfIInv
  <2>7. CASE n + 1 \notin Sections
    <3>1. on' = on /\ reading' = [Perf!NotReading EXCEPT !.pc = "reported"]
      BY <1>6, <2>0, <2>7 DEF Perf!Row
    <3>2. reading' \in Readings /\ reading'.pc = "reported"
      BY <1>0, <3>1 DEF Readings, Perf!NotReading
    <3>3. n + 1 = 1 + Perf!Max(Sections)
      <4>1. Perf!Max(Sections) \in Nat /\ n \in 0 .. Perf!Max(Sections) /\ n + 1 \notin 0 .. Perf!Max(Sections)
        BY <1>1, <2>7, SectionsAre
      <4> QED BY <4>1
    <3>4. PerfTypeOK' /\ Measured'
      BY <2>1, <2>5, <3>1, <3>2 DEF PerfIInv, PerfTypeOK, Measured
    <3>5. Consistent'
      <4>1. 0 \notin on
        BY <2>1 DEF PerfIInv, Consistent
      <4> QED BY <3>1, <3>2, <4>1 DEF Consistent
    <3>6. Reporting'
      BY <2>4, <3>2, <3>3 DEF Reporting
    <3> QED BY <3>4, <3>5, <3>6 DEF PerfIInv
  <2> QED BY <2>6, <2>7
<1> QED BY <1>4, <1>5, <1>6

(***************************************************************************)
(* A reading is the time its section was measured for, and the rows of a   *)
(* report are of one moment, for any number of sections and any width of   *)
(* the counters that the measurement fits.                                 *)
(***************************************************************************)
THEOREM SectionsTimed == ASSUME Measurable PROVE Perf!Spec => []Perf!SectionTimes
<1>1. PerfIInv /\ [Perf!Next]_(Perf!vars) => PerfIInv'
  <2> SUFFICES ASSUME PerfIInv, [Perf!Next]_(Perf!vars) PROVE PerfIInv'
    OBVIOUS
  <2>1. CASE UNCHANGED Perf!vars
    BY <2>1 DEF Perf!vars, Perf!hardware, PerfIInv, PerfTypeOK, Measured, Consistent, Reporting, Listed
  <2> QED BY <2>1, PerfClock, PerfProgram, PerfReading DEF Perf!Next
<1>2. PerfIInv => Perf!SectionTimes
  <2> SUFFICES ASSUME PerfIInv PROVE Perf!SectionTimes
    OBVIOUS
  <2>1. ASSUME reading.pc = "done"
        PROVE  reading.result = elapsed[reading.section] /\ reading.result <= time[0]
    BY <2>1 DEF PerfIInv, PerfTypeOK, Readings, Measured, Consistent
  <2>2. ASSUME reading.pc = "reported"
        PROVE  /\ Len(report) = 1 + Perf!Max(Sections)
               /\ \A s \in Sections : report[s + 1] = [time |-> elapsed[s], starts |-> starts[s]]
    <3>1. elapsed = time /\ Listed(1 + Perf!Max(Sections))
      BY <2>2 DEF PerfIInv, Measured, Reporting
    <3>2. \A s \in Sections : s < 1 + Perf!Max(Sections)
      BY SectionsAre
    <3> QED BY <3>1, <3>2 DEF Listed
  <2> QED BY <2>1, <2>2 DEF Perf!SectionTimes
<1> QED BY <1>1, <1>2, PerfInit, PTL DEF Perf!Spec

-----------------------------------------------------------------------------
(* The busy sleep.  It is the instance Sleep.                              *)

CONSTANT LoopsPerUs
VARIABLES asked, us, big_loops, i, register, hoisted, spent
Sleep == INSTANCE BusySleep

\* The iterations that are left when the register holds r, where 0 goes around.
Around0(r) == IF r = 0 THEN W ELSE r

\* The iterations of a big loop but the first, and of what comes after them.
Each == IF hoisted THEN W ELSE Sleep!INT_MAX
Left == IF asked % Sleep!UsPerBigLoop = 0 THEN W ELSE (asked % Sleep!UsPerBigLoop) * LoopsPerUs

SleepTypeOK ==
  /\ asked \in 0 .. W - 1 /\ pc \in {"big", "rest", "short", "returned"}
  /\ us \in Int /\ i \in Nat /\ hoisted \in BOOLEAN /\ spent \in Nat
  /\ register \in 0 .. W - 1 /\ big_loops = asked \div Sleep!UsPerBigLoop

BigLoops ==
  /\ pc = "big" =>
       /\ i < big_loops /\ us = asked - i * Sleep!UsPerBigLoop
       /\ spent + Around0(register) = Sleep!INT_MAX + i * Each
  /\ pc = "rest" =>
       /\ big_loops # 0
       /\ spent + Around0(register) = Sleep!INT_MAX + (big_loops - 1) * Each + Left
  /\ pc = "returned" /\ big_loops # 0 => spent = Sleep!INT_MAX + (big_loops - 1) * Each + Left

NoBigLoop ==
  /\ pc = "short" =>
       /\ big_loops = 0 /\ asked * LoopsPerUs <= Sleep!INT_MAX
       /\ spent + register = asked * LoopsPerUs /\ (register = 0 => spent = 0)
  /\ pc = "returned" /\ big_loops = 0 =>
       asked * LoopsPerUs <= spent /\ spent <= asked * LoopsPerUs + 1

SleepIInv == SleepTypeOK /\ BigLoops /\ NoBigLoop

-----------------------------------------------------------------------------
LEMMA SleepWordIs ==
  Sleep!SleepAssumption =>
    /\ W \in Nat \ {0} /\ LoopsPerUs \in Nat \ {0} /\ Sleep!INT_MAX \in Nat \ {0}
    /\ LoopsPerUs <= Sleep!INT_MAX /\ Sleep!INT_MAX < W - 1
<1> SUFFICES ASSUME Sleep!SleepAssumption PROVE
    /\ W \in Nat \ {0} /\ LoopsPerUs \in Nat \ {0} /\ Sleep!INT_MAX \in Nat \ {0}
    /\ LoopsPerUs <= Sleep!INT_MAX /\ Sleep!INT_MAX < W - 1
  OBVIOUS
<1>1. W \in Nat /\ LoopsPerUs \in Nat \ {0} /\ LoopsPerUs <= Sleep!INT_MAX
  BY DEF Sleep!SleepAssumption
<1>2. Sleep!INT_MAX \in Int
  BY <1>1 DEF Sleep!INT_MAX
<1>3. W # 0
  BY <1>1 DEF Sleep!INT_MAX
<1>4. Sleep!INT_MAX < W - 1
  BY <1>1, <1>3 DEF Sleep!INT_MAX
<1> QED BY <1>1, <1>2, <1>3, <1>4

\* A big loop asks for UsPerBigLoop microseconds; what is left is less than one.
LEMMA LoopsIs ==
  ASSUME Sleep!SleepAssumption
  PROVE  /\ Sleep!UsPerBigLoop \in Nat \ {0}
         /\ \E m \in Nat : m = Sleep!INT_MAX % LoopsPerUs /\ Sleep!INT_MAX = Sleep!UsPerBigLoop * LoopsPerUs + m
<1>0. LoopsPerUs \in Nat \ {0} /\ Sleep!INT_MAX \in Nat \ {0} /\ LoopsPerUs <= Sleep!INT_MAX
  BY SleepWordIs
<1>1. PICK q \in Int, r \in 0 .. LoopsPerUs - 1 :
        Sleep!INT_MAX = LoopsPerUs * q + r /\ Sleep!INT_MAX \div LoopsPerUs = q /\ Sleep!INT_MAX % LoopsPerUs = r
  BY <1>0, Parts
<1>2. Sleep!UsPerBigLoop = q /\ Sleep!INT_MAX % LoopsPerUs = r /\ r \in Nat
  BY <1>1, SleepWordIs DEF Sleep!UsPerBigLoop
<1>3. LoopsPerUs * q = q * LoopsPerUs
  BY SleepWordIs
<1>4. q > 0
  <2> SUFFICES ASSUME q <= 0 PROVE FALSE
    BY <1>1
  <2>1. LoopsPerUs * q <= 0
    BY <1>0, <1>1
  <2>2. Sleep!INT_MAX < LoopsPerUs
    BY <1>0, <1>1, <2>1
  <2> QED BY <1>0, <2>2
<1>5. Sleep!UsPerBigLoop \in Nat \ {0}
  BY <1>1, <1>2, <1>4
<1>6. Sleep!INT_MAX = q * LoopsPerUs + r
  BY <1>1, <1>3
<1>7. Sleep!INT_MAX = Sleep!UsPerBigLoop * LoopsPerUs + r
  BY <1>2, <1>6
<1> QED BY <1>2, <1>5, <1>7

LEMMA Asked ==
  ASSUME Sleep!SleepAssumption, NEW a \in Nat
  PROVE  \E q \in Nat, r \in Nat :
           /\ a = q * Sleep!UsPerBigLoop + r /\ a \div Sleep!UsPerBigLoop = q /\ a % Sleep!UsPerBigLoop = r
           /\ r < Sleep!UsPerBigLoop /\ r * LoopsPerUs <= Sleep!INT_MAX /\ r * LoopsPerUs \in Nat
           /\ (r # 0 => r * LoopsPerUs # 0)
<1> DEFINE U == Sleep!UsPerBigLoop
<1>1. U \in Nat \ {0} /\ LoopsPerUs \in Nat \ {0} /\ U * LoopsPerUs <= Sleep!INT_MAX
  BY LoopsIs, SleepWordIs
<1> HIDE DEF U
<1>2. PICK q \in Int, r \in 0 .. U - 1 : a = U * q + r /\ a \div U = q /\ a % U = r
  BY <1>1, Parts
<1>3. q >= 0
  <2> SUFFICES ASSUME q <= -1 PROVE FALSE
    BY <1>2
  <2>1. U * q <= -U
    BY <1>1, <1>2
  <2> QED BY <1>1, <1>2, <2>1
<1>4. r * LoopsPerUs <= U * LoopsPerUs /\ r * LoopsPerUs \in Nat /\ U * LoopsPerUs \in Nat
  BY <1>1, <1>2
<1>5. r # 0 => r * LoopsPerUs # 0
  BY <1>1, <1>2
<1>6. U * q = q * U
  BY <1>1, <1>2
<1>7. r * LoopsPerUs <= Sleep!INT_MAX
  BY <1>1, <1>4, SleepWordIs
<1> QED BY <1>1, <1>2, <1>3, <1>4, <1>5, <1>6, <1>7 DEF U

LEMMA OneLess ==
  ASSUME Sleep!SleepAssumption, NEW r \in 0 .. W - 1
  PROVE  (r + W - 1) % W = IF r = 0 THEN W - 1 ELSE r - 1
<1>1. W \in Nat \ {0}
  BY SleepWordIs
<1>2. CASE r = 0
  <2>1. (W - 1) % W = W - 1
    BY <1>1
  <2> QED BY <1>1, <1>2, <2>1
<1>3. CASE r # 0
  <2>1. PICK q \in Int, m \in 0 .. W - 1 :
          r + W - 1 = W * q + m /\ (r + W - 1) \div W = q /\ (r + W - 1) % W = m
    <3>1. PICK n \in Int : n = r + W - 1
      BY <1>1
    <3> QED BY <1>1, <3>1, Parts
  <2>2. q = 1
    <3>1. ~(q <= 0)
      <4> SUFFICES ASSUME q <= 0 PROVE FALSE
        OBVIOUS
      <4>1. W * q <= 0
        BY <1>1, <2>1
      <4> QED BY <1>1, <1>3, <2>1, <4>1
    <3>2. ~(q >= 2)
      <4> SUFFICES ASSUME q >= 2 PROVE FALSE
        OBVIOUS
      <4>1. W * q >= 2 * W
        BY <1>1, <2>1
      <4> QED BY <1>1, <1>3, <2>1, <4>1
    <3> QED BY <2>1, <3>1, <3>2
  <2> QED BY <1>1, <1>3, <2>1, <2>2
<1> QED BY <1>2, <1>3

LEMMA Small == ASSUME Sleep!SleepAssumption, NEW n \in Nat, n < W PROVE n % W = n
BY SleepWordIs

LEMMA SleepInit == Sleep!SleepAssumption /\ Sleep!Init => SleepIInv
<1> SUFFICES ASSUME Sleep!SleepAssumption, Sleep!Init PROVE SleepIInv
  OBVIOUS
<1>0. W \in Nat \ {0} /\ Sleep!INT_MAX \in Nat \ {0} /\ Sleep!INT_MAX < W - 1
  BY SleepWordIs
<1>1. /\ asked \in 0 .. W - 1 /\ us = asked /\ i = 0 /\ spent = 0 /\ hoisted \in BOOLEAN
      /\ big_loops = asked \div Sleep!UsPerBigLoop
  BY DEF Sleep!Init
<1>2. PICK q \in Nat, r \in Nat :
        /\ asked = q * Sleep!UsPerBigLoop + r /\ big_loops = q
        /\ r * LoopsPerUs <= Sleep!INT_MAX /\ r * LoopsPerUs \in Nat
  <2>1. PICK a \in Nat : a = asked
    BY <1>0, <1>1
  <2>2. PICK q \in Nat, r \in Nat :
          /\ a = q * Sleep!UsPerBigLoop + r /\ a \div Sleep!UsPerBigLoop = q
          /\ r * LoopsPerUs <= Sleep!INT_MAX /\ r * LoopsPerUs \in Nat
    BY Asked
  <2>3. big_loops = q
    BY <1>1, <2>1, <2>2
  <2> QED BY <2>1, <2>2, <2>3
<1>u. Sleep!UsPerBigLoop \in Nat \ {0}
  BY LoopsIs
<1>3. CASE big_loops # 0
  <2>1. pc = "big" /\ register = Sleep!INT_MAX
    BY <1>3 DEF Sleep!Init
  <2>2. 0 * Sleep!UsPerBigLoop = 0 /\ (0 * Each = 0)
    <3>1. Each \in Int
      BY <1>0 DEF Each
    <3> QED BY <1>u, <3>1
  <2>3. SleepTypeOK
    BY <1>0, <1>1, <2>1 DEF SleepTypeOK
  <2>4. BigLoops
    BY <1>0, <1>1, <1>2, <1>3, <2>1, <2>2 DEF BigLoops, Around0
  <2>5. NoBigLoop
    BY <2>1 DEF NoBigLoop
  <2> QED BY <2>3, <2>4, <2>5 DEF SleepIInv
<1>4. CASE big_loops = 0
  <2>1. pc = "short" /\ register = (us * LoopsPerUs) % W
    BY <1>4 DEF Sleep!Init
  <2>2. q = 0 /\ 0 * Sleep!UsPerBigLoop = 0
    BY <1>2, <1>4, <1>u
  <2>3. asked = r
    BY <1>2, <2>2
  <2>4. asked * LoopsPerUs \in Nat /\ asked * LoopsPerUs <= Sleep!INT_MAX
    BY <1>2, <2>3
  <2>5. register = asked * LoopsPerUs
    <3>1. PICK n \in Nat : n = asked * LoopsPerUs
      BY <2>4
    <3>2. n % W = n
      BY <1>0, <2>4, <3>1, Small
    <3> QED BY <1>1, <2>1, <3>1, <3>2
  <2>6. SleepTypeOK
    BY <1>0, <1>1, <2>1, <2>4, <2>5 DEF SleepTypeOK
  <2>7. BigLoops
    BY <2>1 DEF BigLoops
  <2>8. NoBigLoop
    BY <1>1, <1>4, <2>1, <2>4, <2>5 DEF NoBigLoop
  <2> QED BY <2>6, <2>7, <2>8 DEF SleepIInv
<1> QED BY <1>3, <1>4

\* What an iteration leaves in the register, and how much there is then left.
LEMMA Iteration ==
  ASSUME Sleep!SleepAssumption, SleepIInv
  PROVE  /\ Sleep!Minus1 \in 0 .. W - 1
         /\ Sleep!Minus1 # 0 => Around0(Sleep!Minus1) = Around0(register) - 1
         /\ Sleep!Minus1 = 0 => Around0(register) = 1
         /\ register # 0 => Sleep!Minus1 = register - 1
         /\ register = 0 => Sleep!Minus1 = W - 1
<1>0. W \in Nat \ {0} /\ Sleep!INT_MAX \in Nat \ {0} /\ Sleep!INT_MAX < W - 1
  BY SleepWordIs
<1>1. PICK r \in 0 .. W - 1 : r = register
  BY DEF SleepIInv, SleepTypeOK
<1>2. Sleep!Minus1 = IF r = 0 THEN W - 1 ELSE r - 1
  BY <1>1, OneLess DEF Sleep!Minus1
<1> QED BY <1>0, <1>1, <1>2 DEF Around0

LEMMA SleepBig ==
  ASSUME Sleep!SleepAssumption, SleepIInv, Sleep!Big
  PROVE  SleepIInv'
<1>0. W \in Nat \ {0} /\ Sleep!INT_MAX \in Nat \ {0}
  BY SleepWordIs
<1>1. /\ register' = Sleep!Minus1 /\ Sleep!Minus1 # 0 /\ spent' = spent + 1 /\ pc = "big" /\ pc' = "big"
      /\ UNCHANGED <<asked, us, big_loops, i, hoisted>>
  BY DEF Sleep!Big, Sleep!Iterate
<1>2. Around0(register') = Around0(register) - 1 /\ register' \in 0 .. W - 1
  BY <1>1, Iteration
<1>3. Each' = Each /\ spent \in Nat /\ Around0(register) \in Int /\ i \in Nat
  BY <1>0, <1>1 DEF Each, SleepIInv, SleepTypeOK, Around0
<1>4. SleepTypeOK'
  BY <1>1, <1>2 DEF SleepIInv, SleepTypeOK
<1>5. spent' + Around0(register') = spent + Around0(register)
  BY <1>1, <1>2, <1>3
<1>6. BigLoops'
  <2>1. /\ i < big_loops /\ us = asked - i * Sleep!UsPerBigLoop
        /\ spent + Around0(register) = Sleep!INT_MAX + i * Each
    BY <1>1 DEF SleepIInv, BigLoops
  <2>2. /\ i' < big_loops' /\ us' = asked' - i' * Sleep!UsPerBigLoop
        /\ spent' + Around0(register') = Sleep!INT_MAX + i' * Each'
    BY <1>1, <1>3, <1>5, <2>1
  <2> QED BY <1>1, <2>2 DEF BigLoops, Around0
<1>7. NoBigLoop'
  BY <1>1 DEF NoBigLoop
<1> QED BY <1>4, <1>6, <1>7 DEF SleepIInv

LEMMA SleepRest ==
  ASSUME Sleep!SleepAssumption, SleepIInv, Sleep!Rest
  PROVE  SleepIInv'
<1>0. W \in Nat \ {0} /\ Sleep!INT_MAX \in Nat \ {0}
  BY SleepWordIs
<1>1. /\ register' = Sleep!Minus1 /\ spent' = spent + 1 /\ pc = "rest"
      /\ pc' = (IF Sleep!Minus1 = 0 THEN "returned" ELSE "rest")
      /\ UNCHANGED <<asked, us, big_loops, i, hoisted>>
  BY DEF Sleep!Rest, Sleep!Iterate
<1>2. Each' = Each /\ Left' = Left /\ spent \in Nat /\ Around0(register) \in Int
  BY <1>0, <1>1 DEF Each, Left, SleepIInv, SleepTypeOK, Around0
<1>3. SleepTypeOK'
  BY <1>1, Iteration DEF SleepIInv, SleepTypeOK
<1>4. PICK t : t = Sleep!INT_MAX + (big_loops - 1) * Each + Left
  OBVIOUS
<1>5. t' = t /\ t = Sleep!INT_MAX + (big_loops' - 1) * Each' + Left'
  BY <1>1, <1>2, <1>4
<1>6. spent + Around0(register) = t /\ big_loops # 0
  BY <1>1, <1>4 DEF SleepIInv, BigLoops
<1>7. CASE Sleep!Minus1 = 0
  <2>1. spent' = t
    BY <1>1, <1>2, <1>6, <1>7, Iteration
  <2>2. BigLoops'
    BY <1>1, <1>5, <1>7, <2>1 DEF BigLoops
  <2>3. NoBigLoop'
    BY <1>1, <1>6, <1>7 DEF NoBigLoop
  <2> QED BY <1>3, <2>2, <2>3 DEF SleepIInv
<1>8. CASE Sleep!Minus1 # 0
  <2>1. spent' + Around0(register') = t
    <3>1. Around0(register') = Around0(register) - 1
      BY <1>1, <1>8, Iteration
    <3> QED BY <1>1, <1>2, <1>6, <3>1
  <2>2. BigLoops'
    BY <1>1, <1>5, <1>6, <1>8, <2>1 DEF BigLoops, Around0
  <2>3. NoBigLoop'
    BY <1>1, <1>8 DEF NoBigLoop
  <2> QED BY <1>3, <2>2, <2>3 DEF SleepIInv
<1> QED BY <1>7, <1>8

LEMMA SleepShort ==
  ASSUME Sleep!SleepAssumption, SleepIInv, Sleep!Short
  PROVE  SleepIInv'
<1>0. W \in Nat \ {0} /\ Sleep!INT_MAX \in Nat \ {0} /\ Sleep!INT_MAX < W - 1
  BY SleepWordIs
<1>1. /\ register' = Sleep!Minus1 /\ spent' = spent + 1 /\ pc = "short"
      /\ pc' = (IF Sleep!Minus1 = 0 \/ Sleep!Minus1 > Sleep!INT_MAX THEN "returned" ELSE "short")
      /\ UNCHANGED <<asked, us, big_loops, i, hoisted>>
  BY DEF Sleep!Short, Sleep!Iterate
<1>2. SleepTypeOK'
  BY <1>1, Iteration DEF SleepIInv, SleepTypeOK
<1>3. PICK t : t = asked * LoopsPerUs
  OBVIOUS
<1>4. /\ big_loops = 0 /\ t <= Sleep!INT_MAX /\ spent + register = t /\ (register = 0 => spent = 0)
      /\ register \in 0 .. W - 1 /\ spent \in Nat
  BY <1>1, <1>3 DEF SleepIInv, SleepTypeOK, NoBigLoop
<1>5. t = asked' * LoopsPerUs /\ big_loops' = 0
  BY <1>1, <1>3, <1>4
<1>6. /\ pc' = "short" => spent' + register' = t /\ register' # 0
      /\ pc' = "returned" => t <= spent' /\ spent' <= t + 1
  <2>1. CASE register = 0
    <3>1. Sleep!Minus1 = W - 1
      BY <2>1, Iteration
    <3> QED BY <1>0, <1>1, <1>4, <2>1, <3>1
  <2>2. CASE register # 0
    <3>1. Sleep!Minus1 = register - 1
      BY <2>2, Iteration
    <3>2. register <= Sleep!INT_MAX
      BY <1>0, <1>4
    <3> QED BY <1>0, <1>1, <1>4, <2>2, <3>1, <3>2
  <2> QED BY <2>1, <2>2
<1>7. BigLoops'
  BY <1>1, <1>5 DEF BigLoops
<1>8. NoBigLoop'
  BY <1>4, <1>5, <1>6 DEF NoBigLoop
<1> QED BY <1>2, <1>7, <1>8 DEF SleepIInv

\* A big loop ends: the next one starts, or what is left after the last.
LEMMA SleepBigLast ==
  ASSUME Sleep!SleepAssumption, SleepIInv, Sleep!BigLast
  PROVE  SleepIInv'
<1>0. W \in Nat \ {0} /\ Sleep!INT_MAX \in Nat \ {0} /\ Sleep!INT_MAX < W - 1
  BY SleepWordIs
<1>1. /\ pc = "big" /\ Sleep!Minus1 = 0 /\ spent' = spent + 1 /\ us' = us - Sleep!UsPerBigLoop /\ i' = i + 1
      /\ UNCHANGED <<asked, big_loops, hoisted>>
  BY DEF Sleep!BigLast
<1>2. /\ i \in Nat /\ spent \in Nat /\ us \in Int /\ asked \in 0 .. W - 1 /\ hoisted \in BOOLEAN
      /\ i < big_loops /\ us = asked - i * Sleep!UsPerBigLoop /\ big_loops = asked \div Sleep!UsPerBigLoop
      /\ spent + Around0(register) = Sleep!INT_MAX + i * Each
  BY <1>1 DEF SleepIInv, SleepTypeOK, BigLoops
<1>3. Around0(register) = 1 /\ Each \in {W, Sleep!INT_MAX} /\ Each' = Each /\ Left' = Left
  BY <1>0, <1>1, Iteration DEF Each, Left
<1>4. PICK e \in Int : e = Each
  BY <1>0, <1>3
<1>5. spent' = Sleep!INT_MAX + i * e
  BY <1>1, <1>2, <1>3, <1>4
<1>6. Sleep!UsPerBigLoop \in Nat \ {0}
  BY LoopsIs
<1>7. us' = asked - (i + 1) * Sleep!UsPerBigLoop /\ us' \in Int
  <2>1. PICK u \in Nat : u = Sleep!UsPerBigLoop
    BY <1>6
  <2>2. PICK k \in Nat : k = i
    BY <1>2
  <2>3. (k + 1) * u = k * u + u
    OBVIOUS
  <2> QED BY <1>1, <1>2, <2>1, <2>2, <2>3
<1>8. PICK q \in Nat, r \in Nat :
        /\ asked = q * Sleep!UsPerBigLoop + r /\ big_loops = q /\ asked % Sleep!UsPerBigLoop = r
        /\ r * LoopsPerUs <= Sleep!INT_MAX /\ r * LoopsPerUs \in Nat /\ (r # 0 => r * LoopsPerUs # 0)
  <2>1. PICK a \in Nat : a = asked
    BY <1>0, <1>2
  <2>2. PICK q \in Nat, r \in Nat :
          /\ a = q * Sleep!UsPerBigLoop + r /\ a \div Sleep!UsPerBigLoop = q /\ a % Sleep!UsPerBigLoop = r
          /\ r * LoopsPerUs <= Sleep!INT_MAX /\ r * LoopsPerUs \in Nat /\ (r # 0 => r * LoopsPerUs # 0)
    BY Asked
  <2>3. big_loops = q /\ asked % Sleep!UsPerBigLoop = r
    BY <1>2, <2>1, <2>2
  <2> QED BY <2>1, <2>2, <2>3
<1>9. CASE i + 1 < big_loops
  <2>1. register' = (IF hoisted THEN 0 ELSE Sleep!INT_MAX) /\ pc' = "big"
    BY <1>1, <1>9 DEF Sleep!BigLast
  <2>2. Around0(register') = e /\ register' \in 0 .. W - 1
    BY <1>0, <1>2, <1>4, <2>1 DEF Around0, Each
  <2>3. spent' + Around0(register') = Sleep!INT_MAX + (i + 1) * e
    <3>1. PICK k \in Nat : k = i
      BY <1>2
    <3>2. (k + 1) * e = k * e + e
      OBVIOUS
    <3> QED BY <1>5, <2>2, <3>1, <3>2, <1>0
  <2>4. SleepTypeOK'
    BY <1>1, <1>2, <1>7, <2>1, <2>2 DEF SleepTypeOK
  <2>5. /\ i' < big_loops' /\ us' = asked' - i' * Sleep!UsPerBigLoop
        /\ spent' + Around0(register') = Sleep!INT_MAX + i' * Each'
    BY <1>1, <1>3, <1>4, <1>7, <1>9, <2>3
  <2>6. BigLoops'
    BY <2>1, <2>5 DEF BigLoops, Around0
  <2>7. NoBigLoop'
    BY <2>1 DEF NoBigLoop
  <2> QED BY <2>4, <2>6, <2>7 DEF SleepIInv
<1>10. CASE ~(i + 1 < big_loops)
  <2>1. register' = ((us - Sleep!UsPerBigLoop) * LoopsPerUs) % W /\ pc' = "rest"
    BY <1>1, <1>10 DEF Sleep!BigLast
  <2>2. i + 1 = q /\ big_loops # 0
    BY <1>2, <1>8, <1>10
  <2>3. us - Sleep!UsPerBigLoop = r
    <3>1. PICK n \in Int : n = q * Sleep!UsPerBigLoop
      BY <1>6
    <3>2. (i + 1) * Sleep!UsPerBigLoop = n
      BY <2>2, <3>1
    <3> QED BY <1>1, <1>2, <1>7, <1>8, <3>1, <3>2
  <2>4. register' = r * LoopsPerUs
    <3>1. PICK n \in Nat : n = r * LoopsPerUs
      BY <1>8
    <3>2. n % W = n
      BY <1>0, <1>8, <3>1, Small
    <3> QED BY <2>1, <2>3, <3>1, <3>2
  <2>5. Around0(register') = Left /\ register' \in 0 .. W - 1
    <3>1. CASE r = 0
      <4>1. r * LoopsPerUs = 0
        BY <3>1, SleepWordIs
      <4> QED BY <1>0, <1>8, <2>4, <3>1, <4>1 DEF Around0, Left
    <3>2. CASE r # 0
      BY <1>0, <1>8, <2>4, <3>2 DEF Around0, Left
    <3> QED BY <3>1, <3>2
  <2>6. spent' + Around0(register') = Sleep!INT_MAX + (big_loops - 1) * Each + Left
    <3>1. big_loops - 1 = i
      BY <1>2, <1>8, <2>2
    <3>2. spent' = Sleep!INT_MAX + (big_loops - 1) * Each
      BY <1>4, <1>5, <3>1
    <3> QED BY <2>5, <3>2
  <2>7. SleepTypeOK'
    BY <1>1, <1>2, <1>7, <2>1, <2>5, <1>5, <1>0, <1>4 DEF SleepTypeOK
  <2>8. big_loops' # 0 /\ spent' + Around0(register') = Sleep!INT_MAX + (big_loops' - 1) * Each' + Left'
    BY <1>1, <1>3, <2>2, <2>6
  <2>9. BigLoops'
    BY <2>1, <2>8 DEF BigLoops, Around0
  <2>10. NoBigLoop'
    BY <2>1 DEF NoBigLoop
  <2> QED BY <2>7, <2>9, <2>10 DEF SleepIInv
<1> QED BY <1>9, <1>10

\* The sum over all loops is never less than what was asked for.
LEMMA SleepOver ==
  ASSUME Sleep!SleepAssumption, SleepIInv, pc = "returned"
  PROVE  Sleep!SleptAsAsked
<1>0. W \in Nat \ {0} /\ Sleep!INT_MAX \in Nat \ {0} /\ Sleep!INT_MAX < W - 1 /\ LoopsPerUs \in Nat
  BY SleepWordIs
<1>1. Sleep!UsPerBigLoop \in Nat \ {0}
  BY LoopsIs
<1>2. PICK m \in Nat : m = Sleep!INT_MAX % LoopsPerUs /\ Sleep!INT_MAX = Sleep!UsPerBigLoop * LoopsPerUs + m
  BY LoopsIs
<1>3. asked \in Nat /\ spent \in Nat /\ big_loops = asked \div Sleep!UsPerBigLoop /\ hoisted \in BOOLEAN
  BY <1>0 DEF SleepIInv, SleepTypeOK
<1>4. PICK q \in Nat, r \in Nat :
        /\ asked = q * Sleep!UsPerBigLoop + r /\ big_loops = q /\ asked % Sleep!UsPerBigLoop = r
        /\ r * LoopsPerUs \in Nat
  <2>1. PICK a \in Nat : a = asked
    BY <1>3
  <2>2. PICK q \in Nat, r \in Nat :
          /\ a = q * Sleep!UsPerBigLoop + r /\ a \div Sleep!UsPerBigLoop = q /\ a % Sleep!UsPerBigLoop = r
          /\ r * LoopsPerUs \in Nat
    BY Asked
  <2>3. big_loops = q /\ asked % Sleep!UsPerBigLoop = r
    BY <1>3, <2>1, <2>2
  <2> QED BY <2>1, <2>2, <2>3
<1> DEFINE more == (IF Sleep!WholeBigLoops THEN W ELSE 0)
           over == spent - asked * LoopsPerUs - Sleep!Around - more
<1>5. asked * LoopsPerUs = q * (Sleep!UsPerBigLoop * LoopsPerUs) + r * LoopsPerUs
  BY <1>0, <1>1, <1>4
<1>6. q * (Sleep!UsPerBigLoop * LoopsPerUs) = q * Sleep!INT_MAX - q * m
  <2>1. PICK b \in Int : b = Sleep!UsPerBigLoop * LoopsPerUs
    BY <1>0, <1>1
  <2>2. q * (b + m) = q * b + q * m
    OBVIOUS
  <2> QED BY <1>0, <1>2, <2>1, <2>2
<1>7. PICK al \in Int, qi \in Int, qm \in Nat, rl \in Nat :
        al = asked * LoopsPerUs /\ qi = q * Sleep!INT_MAX /\ qm = q * m /\ rl = r * LoopsPerUs
  <2>1. asked * LoopsPerUs \in Int /\ q * Sleep!INT_MAX \in Int /\ q * m \in Nat /\ r * LoopsPerUs \in Nat
    BY <1>0, <1>3, <1>4
  <2> QED BY <2>1
<1>8. al = qi - qm + rl
  BY <1>5, <1>6, <1>7
<1>9. big_loops * (Sleep!INT_MAX % LoopsPerUs) = qm
  BY <1>2, <1>4, <1>7
<1>10. CASE q = 0
  <2>1. al <= spent /\ spent <= al + 1
    BY <1>4, <1>7, <1>10 DEF SleepIInv, NoBigLoop
  <2>2. Sleep!Around = 0 /\ more = 0
    BY <1>4, <1>10 DEF Sleep!Around, Sleep!WholeBigLoops
  <2>3. 0 <= over /\ over <= 1 + qm
    <3> HIDE DEF more
    <3> QED BY <1>3, <1>7, <2>1, <2>2
  <2> QED BY <1>9, <2>3 DEF Sleep!SleptAsAsked
<1>11. CASE q # 0
  <2>1. spent = Sleep!INT_MAX + (q - 1) * Each + Left
    BY <1>4, <1>11 DEF SleepIInv, BigLoops
  <2>2. Left = rl + more
    <3>1. r = 0 => rl = 0
      BY <1>0, <1>7
    <3> QED BY <1>0, <1>4, <1>7, <1>11, <3>1 DEF Left, Sleep!WholeBigLoops
  <2>3. (q - 1) * Each = (q - 1) * Sleep!INT_MAX + Sleep!Around
    <3>1. CASE ~hoisted
      BY <3>1, <1>0 DEF Each, Sleep!Around
    <3>2. CASE hoisted
      <4>1. (q - 1) * W = (q - 1) * Sleep!INT_MAX + (q - 1) * (W - Sleep!INT_MAX)
        <5>1. PICK d \in Int : d = W - Sleep!INT_MAX
          BY <1>0
        <5>2. (q - 1) * (Sleep!INT_MAX + d) = (q - 1) * Sleep!INT_MAX + (q - 1) * d
          BY <1>0
        <5> QED BY <1>0, <5>1, <5>2
      <4>2. CASE q > 1
        BY <1>4, <3>2, <4>1, <4>2 DEF Each, Sleep!Around
      <4>3. CASE q = 1
        <5>1. (q - 1) * W = 0 /\ (q - 1) * Sleep!INT_MAX = 0
          BY <1>0, <4>3
        <5> QED BY <1>4, <3>2, <4>3, <5>1 DEF Each, Sleep!Around
      <4> QED BY <1>11, <4>2, <4>3
    <3> QED BY <1>3, <3>1, <3>2
  <2>4. (q - 1) * Sleep!INT_MAX = qi - Sleep!INT_MAX
    BY <1>0, <1>7
  <2>5. Sleep!Around \in Int
    <3>1. (big_loops - 1) * (W - Sleep!INT_MAX) \in Int
      BY <1>0, <1>4
    <3> QED BY <3>1 DEF Sleep!Around
  <2>6. more \in Int
    BY <1>0
  <2>7. spent = qi + Sleep!Around + rl + more
    <3> HIDE DEF more
    <3> QED BY <1>0, <2>1, <2>2, <2>3, <2>4, <2>5, <2>6
  <2>8. 0 <= over /\ over <= 1 + qm
    <3> HIDE DEF more
    <3> QED BY <1>3, <1>7, <1>8, <2>5, <2>6, <2>7
  <2> QED BY <1>9, <2>8 DEF Sleep!SleptAsAsked
<1> QED BY <1>10, <1>11

(***************************************************************************)
(* A sleep is never shorter than it was asked to be, and longer only by    *)
(* what is named, for every width of the words and every speed.            *)
(***************************************************************************)
THEOREM SleepsAsAsked == ASSUME Sleep!SleepAssumption PROVE Sleep!Spec => []Sleep!SleptAsAsked
<1>1. SleepIInv /\ [Sleep!Next]_(Sleep!vars) => SleepIInv'
  <2> SUFFICES ASSUME SleepIInv, [Sleep!Next]_(Sleep!vars) PROVE SleepIInv'
    OBVIOUS
  <2>1. CASE UNCHANGED Sleep!vars
    BY <2>1 DEF Sleep!vars, SleepIInv, SleepTypeOK, BigLoops, NoBigLoop, Around0, Each, Left
  <2> QED BY <2>1, SleepBig, SleepBigLast, SleepRest, SleepShort DEF Sleep!Next
<1>2. SleepIInv => Sleep!SleptAsAsked
  BY SleepOver DEF Sleep!SleptAsAsked
<1> QED BY <1>1, <1>2, SleepInit, PTL DEF Sleep!Spec
=============================================================================
