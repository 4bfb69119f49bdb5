---------------------------- MODULE PlcScanProofs ----------------------------
(***************************************************************************)
(* Proofs about PlcScan, for every scale, every set of timers, counters    *)
(* and host inputs.                                                        *)
(***************************************************************************)
EXTENDS PlcScan, FiniteSetTheorems, TLAPS

(***************************************************************************)
(* Arithmetic of ScanTicks                                                 *)
(***************************************************************************)

\* Integer division splits a number into whole units and a remainder.
LEMMA DivMod ==
    ASSUME NEW a \in Nat, NEW b \in Nat \ {0}
    PROVE  /\ a \div b \in Nat
           /\ a % b \in 0..(b - 1)
           /\ a = (a \div b) * b + (a % b)
  BY Z3

\* advance_ticks keeps its counters in range: every remainder stays below its
\* base, clock_ms in 32 bits.
LEMMA AdvanceType ==
    ASSUME NEW k \in ClockType, NEW delta \in Nat
    PROVE  advance_ticks(k, delta) \in ClockType
  <1> DEFINE us == k.accum_us + delta
  <1> DEFINE ms == us \div US_PER_MS
  <1>1. us \in Nat /\ k.rem_10 \in Nat /\ k.rem_100 \in Nat /\ k.clock_ms \in Nat
    BY ScaleAssumption DEF ClockType
  <1>2. ms \in Nat /\ us % US_PER_MS \in 0..(US_PER_MS - 1)
    BY <1>1, ScaleAssumption, DivMod
  <1> HIDE DEF ms, us
  <1>3. k.clock_ms + ms \in Nat /\ k.rem_10 + ms \in Nat /\ k.rem_100 + ms \in Nat
    BY <1>1, <1>2
  <1>4. (k.clock_ms + ms) % CLOCK_WRAP \in 0..(CLOCK_WRAP - 1)
    BY <1>3, ScaleAssumption, DivMod
  <1>5. /\ (k.rem_10 + ms) % BASE_10 \in 0..(BASE_10 - 1)
        /\ (k.rem_10 + ms) \div BASE_10 \in Nat
    BY <1>3, ScaleAssumption, DivMod
  <1>6. /\ (k.rem_100 + ms) % BASE_100 \in 0..(BASE_100 - 1)
        /\ (k.rem_100 + ms) \div BASE_100 \in Nat
    BY <1>3, ScaleAssumption, DivMod
  <1>7. CASE ms = 0
    BY <1>7, <1>2 DEF advance_ticks, ClockType, us, ms
  <1>8. CASE ms # 0
    BY <1>8, <1>2, <1>4, <1>5, <1>6 DEF advance_ticks, ClockType, us, ms
  <1> QED BY <1>7, <1>8

\* The phase of a clock is less than one tick.
LEMMA PhaseBound ==
    ASSUME NEW k \in ClockType, NEW i \in 0..255
    PROVE  /\ Phase(k, i) \in Nat
           /\ TickUs(i) \in Nat \ {0}
           /\ Phase(k, i) < TickUs(i)
  <1>1. /\ k.accum_us \in Nat /\ k.accum_us < US_PER_MS
        /\ k.rem_10 \in Nat /\ k.rem_10 <= BASE_10 - 1
        /\ k.rem_100 \in Nat /\ k.rem_100 <= BASE_100 - 1
    BY ScaleAssumption DEF ClockType
  <1>2. ASSUME NEW r \in Nat, NEW b \in Nat \ {0}, r <= b - 1
        PROVE  /\ r * US_PER_MS + k.accum_us \in Nat
               /\ b * US_PER_MS \in Nat \ {0}
               /\ r * US_PER_MS + k.accum_us < b * US_PER_MS
    <2>1. r * US_PER_MS \in Nat /\ b * US_PER_MS \in Nat
      BY ScaleAssumption
    <2>2. r * US_PER_MS + US_PER_MS <= b * US_PER_MS
      BY <1>2, ScaleAssumption
    <2> QED BY <1>1, <2>1, <2>2, ScaleAssumption
  <1>3. CASE i < 200 \/ i >= 250
    BY <1>1, <1>2, <1>3, ScaleAssumption DEF Phase, TickUs, timer_base_ms
  <1>4. CASE ~(i < 200 \/ i >= 250) /\ i < 246
    BY <1>1, <1>2, <1>4, ScaleAssumption DEF Phase, TickUs, timer_base_ms
  <1>5. CASE ~(i < 200 \/ i >= 250) /\ ~(i < 246)
    BY <1>1, <1>5, ScaleAssumption DEF Phase, TickUs, timer_base_ms
  <1> QED BY <1>3, <1>4, <1>5

\* From milliseconds to microseconds: if tk ticks of b units and a remainder r
\* make up r0 + ms units, the same holds u times finer.
LEMMA Refine ==
    ASSUME NEW tk \in Nat, NEW r \in Nat, NEW r0 \in Nat, NEW b \in Nat, NEW u \in Nat,
           NEW ms \in Nat, NEW low \in Nat, NEW acc \in Nat, NEW delta \in Nat,
           tk * b + r = r0 + ms,
           ms * u + low = acc + delta
    PROVE  tk * (b * u) + (r * u + low) = (r0 * u + acc) + delta
  <1>1. tk * (b * u) = (tk * b) * u
    OBVIOUS
  <1>2. (tk * b) * u + r * u = r0 * u + ms * u
    <2>1. tk * b \in Nat
      OBVIOUS
    <2>2. (tk * b + r) * u = (tk * b) * u + r * u
      BY <2>1
    <2>3. (r0 + ms) * u = r0 * u + ms * u
      OBVIOUS
    <2> QED BY <2>2, <2>3
  <1>3. (tk * b) * u \in Nat /\ r * u \in Nat /\ r0 * u \in Nat /\ ms * u \in Nat
    OBVIOUS
  <1>4. (tk * b) * u + (r * u + low) = (r0 * u + acc) + delta
    BY <1>2, <1>3
  <1> QED BY <1>1, <1>4

\* Nothing is lost and nothing is invented: the ticks handed to a timer, plus
\* how far the clock now is into the next tick, make up the time that passed
\* plus how far it was before.
LEMMA TicksCarry ==
    ASSUME NEW k \in ClockType, NEW delta \in Nat, NEW i \in 0..255
    PROVE  LET n == advance_ticks(k, delta)
           IN  /\ ticks_for_base(n, i) \in Nat
               /\ ticks_for_base(n, i) * TickUs(i) + Phase(n, i) = Phase(k, i) + delta
  <1> DEFINE us == k.accum_us + delta
  <1> DEFINE ms == us \div US_PER_MS
  <1> DEFINE n == advance_ticks(k, delta)
  <1>1. us \in Nat /\ k.accum_us \in Nat /\ k.rem_10 \in Nat /\ k.rem_100 \in Nat
    BY ScaleAssumption DEF ClockType
  <1>2. ms \in Nat /\ us % US_PER_MS \in Nat /\ us = ms * US_PER_MS + (us % US_PER_MS)
    <2> HIDE DEF us
    <2>1. /\ us \div US_PER_MS \in Nat
          /\ us % US_PER_MS \in 0..(US_PER_MS - 1)
          /\ us = (us \div US_PER_MS) * US_PER_MS + (us % US_PER_MS)
      BY <1>1, ScaleAssumption, DivMod
    <2> QED BY <2>1, ScaleAssumption
  <1>3. n.accum_us = us % US_PER_MS
    BY DEF advance_ticks, ClockType
  <1>4. n.ticks_1ms = ms
    BY DEF advance_ticks, ClockType
  <1>5. /\ n.ticks_10ms \in Nat /\ n.rem_10 \in Nat
        /\ n.ticks_10ms * BASE_10 + n.rem_10 = k.rem_10 + ms
    <2>1. CASE ms = 0
      <3>1. n.ticks_10ms = 0 /\ n.rem_10 = k.rem_10
        BY <2>1 DEF advance_ticks, ClockType
      <3> QED BY <3>1, <2>1, <1>1, ScaleAssumption
    <2>2. CASE ms # 0
      <3>1. /\ n.ticks_10ms = (k.rem_10 + ms) \div BASE_10
            /\ n.rem_10 = (k.rem_10 + ms) % BASE_10
        BY <2>2 DEF advance_ticks
      <3> DEFINE sum == k.rem_10 + ms
      <3>2. sum \in Nat
        BY <1>1, <1>2
      <3> HIDE DEF ms, n, sum
      <3>3. /\ sum \div BASE_10 \in Nat
            /\ sum % BASE_10 \in 0..(BASE_10 - 1)
            /\ sum = (sum \div BASE_10) * BASE_10 + (sum % BASE_10)
        BY <3>2, DivMod, ScaleAssumption
      <3> QED BY <3>1, <3>3, ScaleAssumption DEF sum
    <2> QED BY <2>1, <2>2
  <1>6. /\ n.ticks_100ms \in Nat /\ n.rem_100 \in Nat
        /\ n.ticks_100ms * BASE_100 + n.rem_100 = k.rem_100 + ms
    <2>1. CASE ms = 0
      <3>1. n.ticks_100ms = 0 /\ n.rem_100 = k.rem_100
        BY <2>1 DEF advance_ticks, ClockType
      <3> QED BY <3>1, <2>1, <1>1, ScaleAssumption
    <2>2. CASE ms # 0
      <3>1. /\ n.ticks_100ms = (k.rem_100 + ms) \div BASE_100
            /\ n.rem_100 = (k.rem_100 + ms) % BASE_100
        BY <2>2 DEF advance_ticks
      <3> DEFINE sum == k.rem_100 + ms
      <3>2. sum \in Nat
        BY <1>1, <1>2
      <3> HIDE DEF ms, n, sum
      <3>3. /\ sum \div BASE_100 \in Nat
            /\ sum % BASE_100 \in 0..(BASE_100 - 1)
            /\ sum = (sum \div BASE_100) * BASE_100 + (sum % BASE_100)
        BY <3>2, DivMod, ScaleAssumption
      <3> QED BY <3>1, <3>3, ScaleAssumption DEF sum
    <2> QED BY <2>1, <2>2
  <1>7. ms * US_PER_MS + (us % US_PER_MS) = k.accum_us + delta
    BY <1>2
  <1> HIDE DEF n, ms, us
  <1>8. CASE i < 200 \/ i >= 250
    <2>1. TickUs(i) = BASE_100 * US_PER_MS
      BY <1>8 DEF TickUs, timer_base_ms
    <2>2. ticks_for_base(n, i) = n.ticks_100ms
      BY <1>8 DEF ticks_for_base
    <2>3. /\ Phase(n, i) = n.rem_100 * US_PER_MS + (us % US_PER_MS)
          /\ Phase(k, i) = k.rem_100 * US_PER_MS + k.accum_us
      BY <1>8, <1>3 DEF Phase
    <2>4. n.ticks_100ms * (BASE_100 * US_PER_MS) + (n.rem_100 * US_PER_MS + (us % US_PER_MS))
            = (k.rem_100 * US_PER_MS + k.accum_us) + delta
      <3> DEFINE tk == n.ticks_100ms
      <3> DEFINE r == n.rem_100
      <3> DEFINE r0 == k.rem_100
      <3> DEFINE low == us % US_PER_MS
      <3> DEFINE acc == k.accum_us
      <3>1. /\ tk \in Nat /\ r \in Nat /\ r0 \in Nat /\ low \in Nat /\ acc \in Nat
            /\ ms \in Nat /\ BASE_100 \in Nat /\ US_PER_MS \in Nat
            /\ tk * BASE_100 + r = r0 + ms
            /\ ms * US_PER_MS + low = acc + delta
        BY <1>1, <1>2, <1>6, <1>7, ScaleAssumption
      <3> HIDE DEF tk, r, r0, low, acc
      <3>2. tk * (BASE_100 * US_PER_MS) + (r * US_PER_MS + low) = (r0 * US_PER_MS + acc) + delta
        BY <3>1, Refine
      <3> QED BY <3>2 DEF tk, r, r0, low, acc
    <2> QED BY <2>1, <2>2, <2>3, <2>4, <1>6 DEF n
  <1>9. CASE ~(i < 200 \/ i >= 250) /\ i < 246
    <2>1. TickUs(i) = BASE_10 * US_PER_MS
      BY <1>9 DEF TickUs, timer_base_ms
    <2>2. ticks_for_base(n, i) = n.ticks_10ms
      BY <1>9 DEF ticks_for_base
    <2>3. /\ Phase(n, i) = n.rem_10 * US_PER_MS + (us % US_PER_MS)
          /\ Phase(k, i) = k.rem_10 * US_PER_MS + k.accum_us
      BY <1>9, <1>3 DEF Phase
    <2>4. n.ticks_10ms * (BASE_10 * US_PER_MS) + (n.rem_10 * US_PER_MS + (us % US_PER_MS))
            = (k.rem_10 * US_PER_MS + k.accum_us) + delta
      <3> DEFINE tk == n.ticks_10ms
      <3> DEFINE r == n.rem_10
      <3> DEFINE r0 == k.rem_10
      <3> DEFINE low == us % US_PER_MS
      <3> DEFINE acc == k.accum_us
      <3>1. /\ tk \in Nat /\ r \in Nat /\ r0 \in Nat /\ low \in Nat /\ acc \in Nat
            /\ ms \in Nat /\ BASE_10 \in Nat /\ US_PER_MS \in Nat
            /\ tk * BASE_10 + r = r0 + ms
            /\ ms * US_PER_MS + low = acc + delta
        BY <1>1, <1>2, <1>5, <1>7, ScaleAssumption
      <3> HIDE DEF tk, r, r0, low, acc
      <3>2. tk * (BASE_10 * US_PER_MS) + (r * US_PER_MS + low) = (r0 * US_PER_MS + acc) + delta
        BY <3>1, Refine
      <3> QED BY <3>2 DEF tk, r, r0, low, acc
    <2> QED BY <2>1, <2>2, <2>3, <2>4, <1>5 DEF n
  <1>10. CASE ~(i < 200 \/ i >= 250) /\ ~(i < 246)
    <2>1. TickUs(i) = US_PER_MS
      BY <1>10, ScaleAssumption DEF TickUs, timer_base_ms
    <2>2. ticks_for_base(n, i) = ms
      BY <1>10, <1>4 DEF ticks_for_base
    <2>3. Phase(n, i) = us % US_PER_MS /\ Phase(k, i) = k.accum_us
      BY <1>10, <1>3 DEF Phase
    <2> QED BY <2>1, <2>2, <2>3, <1>2, <1>7 DEF n
  <1> QED BY <1>8, <1>9, <1>10

(***************************************************************************)
(* Types                                                                   *)
(***************************************************************************)

\* What a timer coil makes of a timer is a timer: 16 bits are never exceeded.
LEMMA DriveType ==
    ASSUME NEW tm \in TimerType, NEW i \in 0..255, NEW p \in 0..TIMER_MAX,
           NEW e \in BOOLEAN, NEW k \in ClockType
    PROVE  plc_timer_drive(tm, i, p, e, k) \in TimerType
  <1>1. ticks_for_base(k, i) \in Nat
    BY DEF ticks_for_base, ClockType
  <1>2. CASE ~e
    <2>1. CASE timer_is_retentive(i)
      <3>1. tm.current \in 0..TIMER_MAX /\ tm.done \in BOOLEAN
        BY DEF TimerType
      <3>2. [tm EXCEPT !.preset = p, !.driven = FALSE, !.current = tm.current, !.done = tm.done]
              \in TimerType
        BY <3>1, Zenon DEF TimerType
      <3> QED BY <1>2, <2>1, <3>2, Zenon DEF plc_timer_drive
    <2>2. CASE ~timer_is_retentive(i)
      <3>1. 0 \in 0..TIMER_MAX
        BY ScanAssumption
      <3>2. [tm EXCEPT !.preset = p, !.driven = FALSE, !.current = 0, !.done = FALSE] \in TimerType
        BY <3>1, Zenon DEF TimerType
      <3> QED BY <1>2, <2>2, <3>2, Zenon DEF plc_timer_drive
    <2> QED BY <2>1, <2>2
  <1>3. CASE e
    <2> DEFINE next == tm.current + ticks_for_base(k, i)
    <2> DEFINE cur == IF next > TIMER_MAX THEN TIMER_MAX ELSE next
    <2>1. cur \in 0..TIMER_MAX
      BY <1>1, ScanAssumption DEF TimerType
    <2> HIDE DEF cur
    <2>2. /\ [current |-> p, preset |-> p, done |-> TRUE, driven |-> TRUE] \in TimerType
          /\ [current |-> cur, preset |-> p, done |-> tm.done, driven |-> TRUE] \in TimerType
      BY <2>1 DEF TimerType
    <2> QED BY <1>3, <2>2 DEF plc_timer_drive, cur
  <1> QED BY <1>2, <1>3

\* The history of a coil stays a history.
LEMMA RunDriveType ==
    ASSUME TypeOK, NEW i \in TIMERS, NEW p \in 0..TIMER_MAX, NEW e \in BOOLEAN
    PROVE  RunDrive(run[i], t[i], i, p, e) \in RunType
  <1>1. i \in 0..255 /\ run[i] \in RunType /\ t[i] \in TimerType
        /\ lap.before \in ClockType /\ lap.delta \in Nat
    BY ScanAssumption DEF TypeOK
  <1>2. Phase(lap.before, i) \in Nat
    BY <1>1, PhaseBound
  <1>3. NoRun \in RunType
    BY DEF NoRun, RunType
  <1>4. [run[i] EXCEPT !.span = @ + lap.delta] \in RunType
    BY <1>1 DEF RunType
  <1>5. [live |-> TRUE, host |-> FALSE, from |-> t[i].current, span |-> lap.delta,
         phase0 |-> Phase(lap.before, i)] \in RunType
    BY <1>1, <1>2, ScanAssumption DEF RunType, TimerType
  <1> QED BY <1>3, <1>4, <1>5 DEF RunDrive

\* A counter coil and a counter reset yield a counter: 32 bits wrap around.
LEMMA CounterStepType ==
    ASSUME NEW ctr \in CounterType, NEW i \in 0..255, NEW p \in 0..TIMER_MAX,
           NEW e \in BOOLEAN, NEW d \in BOOLEAN
    PROVE  /\ plc_counter_drive(ctr, i, p, e, d) \in CounterType
           /\ plc_counter_reset(ctr) \in CounterType
  <1>1. COUNTER_MIN \in Int /\ COUNTER_MIN < 0 /\ COUNTER_MAX \in Nat
    BY ScanAssumption DEF COUNTER_MIN
  <1>2. ctr.current \in COUNTER_MIN..COUNTER_MAX
    BY DEF CounterType
  <1>3. Wrap32(ctr.current + 1) \in COUNTER_MIN..COUNTER_MAX
        /\ Wrap32(ctr.current - 1) \in COUNTER_MIN..COUNTER_MAX
        /\ Wrap32(ctr.current + (IF d THEN -1 ELSE 1)) \in COUNTER_MIN..COUNTER_MAX
    BY <1>1, <1>2 DEF Wrap32
  <1>4. ctr.current < p => ctr.current + 1 \in COUNTER_MIN..COUNTER_MAX
    BY <1>1, <1>2, ScanAssumption
  <1>5. plc_counter_reset(ctr) \in CounterType
    <2>1. 0 \in COUNTER_MIN..COUNTER_MAX
      BY <1>1
    <2> QED BY <2>1, Zenon DEF plc_counter_reset, CounterType
  <1>6. CASE ~(e /\ ~ctr.last_in)
    <2>1. [ctr EXCEPT !.preset = p, !.last_in = e] \in CounterType
      BY DEF CounterType
    <2> QED BY <1>5, <1>6, <2>1 DEF plc_counter_drive
  <1>7. CASE e /\ ~ctr.last_in
    <2> DEFINE cur == IF i < 200
                      THEN IF ctr.current < p THEN ctr.current + 1 ELSE ctr.current
                      ELSE Wrap32(ctr.current + (IF d THEN -1 ELSE 1))
    <2>1. cur \in COUNTER_MIN..COUNTER_MAX
      BY <1>2, <1>3, <1>4
    <2> HIDE DEF cur
    <2> DEFINE fin == IF i < 200 THEN ctr.done \/ cur >= p ELSE cur >= p
    <2>2. fin \in BOOLEAN
      <3>1. ctr.done \in BOOLEAN /\ (cur >= p) \in BOOLEAN
        BY <2>1, <1>1 DEF CounterType
      <3> QED BY <3>1, Zenon
    <2> HIDE DEF fin
    <2>3. [current |-> cur, preset |-> p, last_in |-> TRUE, done |-> fin] \in CounterType
      BY <2>1, <2>2 DEF CounterType
    <2> QED BY <1>5, <1>7, <2>3 DEF plc_counter_drive, cur, fin
  <1> QED BY <1>6, <1>7

\* The zero values are values.
LEMMA ZeroType ==
    /\ TimerZero \in TimerType /\ CounterZero \in CounterType /\ NoRun \in RunType
    /\ ClockInit \in ClockType
  <1>1. 0 \in 0..TIMER_MAX /\ 0 \in COUNTER_MIN..COUNTER_MAX
    BY ScanAssumption DEF COUNTER_MIN
  <1>2. /\ 0 \in 0..(US_PER_MS - 1) /\ 0 \in 0..(CLOCK_WRAP - 1)
        /\ 0 \in 0..(BASE_10 - 1) /\ 0 \in 0..(BASE_100 - 1) /\ 0 \in Nat
    BY ScaleAssumption
  <1>3. TimerZero \in TimerType /\ CounterZero \in CounterType
    BY <1>1, Zenon DEF TimerZero, TimerType, CounterZero, CounterType
  <1>4. NoRun \in RunType
    BY <1>2, Zenon DEF NoRun, RunType
  <1>5. ClockInit \in ClockType
    BY <1>2, Zenon DEF ClockInit, ClockType
  <1> QED BY <1>3, <1>4, <1>5

\* The relays main() starts with.
LEMMA RelayZeroType ==
    [m8000 |-> FALSE, m8002 |-> FALSE, pulse |-> AllOff(Pulses), down |-> AllOff(Bidirectional)]
      \in [m8000 : BOOLEAN, m8002 : BOOLEAN, pulse : [Pulses -> BOOLEAN],
           down : [Bidirectional -> BOOLEAN]]
  BY Zenon DEF AllOff

\* The state main() builds before its loop has the types.
LEMMA InitType == Init => TypeOK
  <1> SUFFICES ASSUME Init PROVE TypeOK
    OBVIOUS
  <1>1. lap \in [before : ClockType, delta : Nat] /\ scan_time \in [cur : Nat, min : Nat, max : Nat]
    BY ZeroType DEF Init
  <1> QED BY <1>1, ZeroType, RelayZeroType DEF Init, TypeOK, AllOff

\* A power cycle restores the initial types.
LEMMA PowerCycleType == PowerCycle => TypeOK'
  <1> SUFFICES ASSUME PowerCycle PROVE TypeOK'
    OBVIOUS
  <1>1. /\ lap' \in [before : ClockType, delta : Nat]
        /\ scan_time' \in [cur : Nat, min : Nat, max : Nat]
    BY ZeroType DEF PowerCycle
  <1> QED BY <1>1, ZeroType, RelayZeroType DEF PowerCycle, TypeOK, AllOff

\* plc_scan_begin keeps the types: the ticks it computes fit the clock.
LEMMA ScanBeginType == TypeOK /\ plc_scan_begin => TypeOK'
  <1> SUFFICES ASSUME TypeOK, plc_scan_begin PROVE TypeOK'
    OBVIOUS
  <1>1. PICK delta \in DELTAS, inputs \in [INPUTS -> BOOLEAN] :
          /\ clk' = advance_ticks(clk, delta)
          /\ x' = inputs
          /\ lap' = [before |-> clk, delta |-> delta]
    BY DEF plc_scan_begin
  <1>2. delta \in Nat /\ clk \in ClockType
    BY ScanAssumption DEF TypeOK
  <1>3. clk' \in ClockType
    BY <1>1, <1>2, AdvanceType
  <1>4. lap' \in [before : ClockType, delta : Nat]
    BY <1>1, <1>2
  <1>5. t' \in [TIMERS -> TimerType]
    <2>1. ASSUME NEW tm \in TimerType PROVE [tm EXCEPT !.driven = FALSE] \in TimerType
      BY Zenon DEF TimerType
    <2>2. \A i \in TIMERS : t[i] \in TimerType
      BY Zenon DEF TypeOK
    <2>3. \A i \in TIMERS : [t[i] EXCEPT !.driven = FALSE] \in TimerType
      BY <2>1, <2>2, Zenon
    <2> QED BY <2>3 DEF plc_scan_begin
  <1>6. relay' \in [m8000 : BOOLEAN, m8002 : BOOLEAN, pulse : [Pulses -> BOOLEAN],
                    down : [Bidirectional -> BOOLEAN]]
    <2> DEFINE run_monitor == mode = "RUN"
    <2> DEFINE pulse == [p \in Pulses |-> clk'.clock_ms % PERIOD[p] < PERIOD[p] \div 2]
    <2>1. run_monitor \in BOOLEAN /\ pulse \in [Pulses -> BOOLEAN]
      OBVIOUS
    <2>2. relay' = [relay EXCEPT !.m8000 = run_monitor, !.m8002 = first_scan, !.pulse = pulse]
      BY DEF plc_scan_begin, update_special_relays
    <2> HIDE DEF run_monitor, pulse
    <2> QED BY <2>1, <2>2, Zenon DEF TypeOK
  <1> QED BY <1>1, <1>3, <1>4, <1>5, <1>6 DEF plc_scan_begin, TypeOK

\* plc_scan_end keeps the types, the sweep of the timers included.
LEMMA ScanEndType == TypeOK /\ plc_scan_end => TypeOK'
  <1> SUFFICES ASSUME TypeOK, plc_scan_end PROVE TypeOK'
    OBVIOUS
  <1>1. t' \in [TIMERS -> TimerType]
    <2>1. 0 \in 0..TIMER_MAX
      BY ScanAssumption
    <2>2. ASSUME NEW tm \in TimerType PROVE [tm EXCEPT !.current = 0, !.done = FALSE] \in TimerType
      BY <2>1, Zenon DEF TimerType
    <2>3. \A i \in TIMERS : t[i] \in TimerType
      BY Zenon DEF TypeOK
    <2>4. \A i \in TIMERS : [t[i] EXCEPT !.current = 0, !.done = FALSE] \in TimerType
      BY <2>2, <2>3, Zenon
    <2>5. t' = [i \in TIMERS |-> IF t[i].driven \/ timer_is_retentive(i)
                                  THEN t[i]
                                  ELSE [t[i] EXCEPT !.current = 0, !.done = FALSE]]
      BY Zenon DEF plc_scan_end, sweep_timers
    <2> QED BY <2>3, <2>4, <2>5, Zenon
  <1>2. /\ scan_time' \in [cur : Nat, min : Nat, max : Nat]
        /\ seen' \subseteq Nat
    BY ScanAssumption DEF plc_scan_end, record_scan_time, TypeOK
  <1>3. pins' \in [OUTPUTS -> BOOLEAN]
    BY DEF plc_scan_end, TypeOK, AllOff
  <1>4. run' \in [TIMERS -> RunType]
    BY ZeroType DEF plc_scan_end, TypeOK
  <1>5. scanned' \in BOOLEAN
    BY DEF plc_scan_end, TypeOK
  <1> QED BY <1>1, <1>2, <1>3, <1>4, <1>5 DEF plc_scan_end, TypeOK

\* A change of mode keeps the types.
LEMMA SetModeType ==
    ASSUME TypeOK, NEW m \in {"RUN", "STOP"}, plc_scan_set_mode(m)
    PROVE  TypeOK'
  <1>1. /\ t' \in [TIMERS -> TimerType] /\ c' \in [COUNTERS -> CounterType]
        /\ y' \in [OUTPUTS -> BOOLEAN] /\ pins' \in [OUTPUTS -> BOOLEAN]
        /\ first_scan' \in BOOLEAN
    <2>1. CASE m = "RUN"
      <3>1. /\ t' = [i \in TIMERS |-> IF i < 246 THEN TimerZero ELSE t[i]]
            /\ c' = [i \in COUNTERS |-> IF i < 100 THEN CounterZero ELSE c[i]]
            /\ y' = AllOff(OUTPUTS) /\ pins' = pins /\ first_scan' = TRUE
        BY <2>1 DEF plc_scan_set_mode, enter_run, plc_memory_reset_nonretentive
      <3>2. t' \in [TIMERS -> TimerType]
        BY <3>1, ZeroType DEF TypeOK
      <3>3. c' \in [COUNTERS -> CounterType]
        BY <3>1, ZeroType DEF TypeOK
      <3> QED BY <3>1, <3>2, <3>3 DEF TypeOK, AllOff
    <2>2. CASE m # "RUN"
      BY <2>2 DEF plc_scan_set_mode, enter_stop, TypeOK, AllOff
    <2> QED BY <2>1, <2>2
  <1>2. /\ run' \in [TIMERS -> RunType] /\ seen' \subseteq Nat
    BY ZeroType DEF plc_scan_set_mode, TypeOK, AllOff
  <1>3. scanned' \in BOOLEAN
    BY Zenon DEF plc_scan_set_mode, TypeOK
  <1> QED BY <1>1, <1>2, <1>3 DEF plc_scan_set_mode, TypeOK

\* Whatever the program calls on timers, counters and relays keeps the types.
LEMMA ProgramType == TypeOK /\ Program => TypeOK'
  <1> SUFFICES ASSUME TypeOK, Program PROVE TypeOK'
    OBVIOUS
  <1>1. ASSUME NEW i \in TIMERS, NEW p \in PRESETS, NEW e \in BOOLEAN, OutTimer(i, p, e)
        PROVE  TypeOK'
    <2>1. p \in 0..TIMER_MAX /\ i \in 0..255
      BY ScanAssumption
    <2>2. plc_timer_drive(t[i], i, p, e, clk) \in TimerType
      BY <2>1, DriveType DEF TypeOK
    <2>3. RunDrive(run[i], t[i], i, p, e) \in RunType
      BY <2>1, RunDriveType
    <2> QED BY <1>1, <2>2, <2>3 DEF OutTimer, ProgramFrame, TypeOK
  <1>2. ASSUME NEW i \in TIMERS, RstTimer(i)
        PROVE  TypeOK'
    <2>1. 0 \in 0..TIMER_MAX
      BY ScanAssumption
    <2>2. plc_timer_reset(t[i]) \in TimerType
      <3>1. t[i] \in TimerType
        BY DEF TypeOK
      <3> QED BY <2>1, <3>1, Zenon DEF plc_timer_reset, TimerType
    <2> QED BY <1>2, <2>2, ZeroType DEF RstTimer, ProgramFrame, TypeOK
  <1>3. ASSUME NEW i \in COUNTERS, NEW p \in PRESETS, NEW e \in BOOLEAN, OutCounter(i, p, e)
        PROVE  TypeOK'
    <2> DEFINE d == i \in Bidirectional /\ relay.down[i]
    <2>1. p \in 0..TIMER_MAX /\ i \in 0..255 /\ c[i] \in CounterType
      BY ScanAssumption DEF TypeOK
    <2>2. d \in BOOLEAN
      BY Zenon DEF TypeOK
    <2> HIDE DEF d
    <2>3. plc_counter_drive(c[i], i, p, e, d) \in CounterType
      BY <2>1, <2>2, CounterStepType
    <2> QED BY <1>3, <2>3 DEF OutCounter, ProgramFrame, TypeOK, d
  <1>4. ASSUME NEW i \in COUNTERS, RstCounter(i)
        PROVE  TypeOK'
    <2>1. plc_counter_reset(c[i]) \in CounterType
      <3>1. c[i] \in CounterType /\ 0 \in 0..TIMER_MAX /\ i \in 0..255
        BY ScanAssumption DEF TypeOK
      <3> QED BY <3>1, CounterStepType
    <2> QED BY <1>4, <2>1 DEF RstCounter, ProgramFrame, TypeOK
  <1>5. ASSUME NEW i \in OUTPUTS, NEW v \in BOOLEAN, WriteOutput(i, v)
        PROVE  TypeOK'
    BY <1>5 DEF WriteOutput, ProgramFrame, TypeOK
  <1>6. ASSUME NEW i \in Bidirectional, NEW v \in BOOLEAN, WriteDirection(i, v)
        PROVE  TypeOK'
    <2>1. [relay EXCEPT !.down = [@ EXCEPT ![i] = v]]
            \in [m8000 : BOOLEAN, m8002 : BOOLEAN, pulse : [Pulses -> BOOLEAN],
                 down : [Bidirectional -> BOOLEAN]]
      BY DEF TypeOK
    <2> QED BY <1>6, <2>1 DEF WriteDirection, ProgramFrame, TypeOK
  <1>7. CASE ProgramDone
    BY <1>7 DEF ProgramDone, ProgramFrame, TypeOK
  <1>8. CASE demo_ladder
    <2> DEFINE y0 == (x[0] \/ y[0]) /\ ~x[1]
    <2> DEFINE t0 == plc_timer_drive(t[0], 0, DEMO_T, y0, clk)
    <2> DEFINE c0 == plc_counter_drive(c[0], 0, DEMO_C, x[0], FALSE)
    <2> DEFINE c1 == IF x[1] THEN plc_counter_reset(c0) ELSE c0
    <2> DEFINE r0 == RunDrive(run[0], t[0], 0, DEMO_T, y0)
    <2>1. /\ 0 \in TIMERS /\ 0 \in COUNTERS /\ 0 \in 0..255
          /\ 0 \in INPUTS /\ 1 \in INPUTS
          /\ 0 \in OUTPUTS /\ 1 \in OUTPUTS /\ 2 \in OUTPUTS /\ 6 \in OUTPUTS
      <3>1. ~has_program /\ has_program \in PROGRAMS
        BY <1>8 DEF demo_ladder, TypeOK
      <3> QED BY <3>1, ScanAssumption
    <2>2. x[0] \in BOOLEAN /\ x[1] \in BOOLEAN
      BY <2>1 DEF TypeOK
    <2>3. y0 \in BOOLEAN
      BY Zenon
    <2> HIDE DEF y0
    <2>4. t0 \in TimerType
      BY <2>1, <2>3, ScanAssumption, DriveType DEF TypeOK
    <2>5. c0 \in CounterType
      BY <2>1, <2>2, ScanAssumption, CounterStepType DEF TypeOK
    <2> HIDE DEF c0
    <2>6. c1 \in CounterType
      BY <2>5, <2>1, CounterStepType, ScanAssumption
    <2>7. r0 \in RunType
      BY <2>1, <2>3, ScanAssumption, RunDriveType
    <2>8. t0.done \in BOOLEAN /\ c1.done \in BOOLEAN /\ relay.pulse["M8013"] \in BOOLEAN
      <3>1. t0.done \in BOOLEAN
        BY <2>4 DEF TimerType
      <3>2. c1.done \in BOOLEAN
        BY <2>6 DEF CounterType
      <3> QED BY <3>1, <3>2 DEF TypeOK, Pulses
    <2> HIDE DEF t0, c1, r0
    <2>9. /\ t' = [t EXCEPT ![0] = t0] /\ run' = [run EXCEPT ![0] = r0]
          /\ c' = [c EXCEPT ![0] = c1]
          /\ y' = [y EXCEPT ![0] = y0, ![1] = t0.done, ![2] = c1.done,
                            ![6] = relay.pulse["M8013"]]
          /\ phase' = "end" /\ relay' = relay
      BY <1>8 DEF demo_ladder, y0, t0, c0, c1, r0
    <2>10. y' \in [OUTPUTS -> BOOLEAN]
      BY <2>1, <2>3, <2>8, <2>9 DEF TypeOK
    <2>11. t' \in [TIMERS -> TimerType] /\ run' \in [TIMERS -> RunType]
      BY <2>1, <2>4, <2>7, <2>9 DEF TypeOK
    <2>12. c' \in [COUNTERS -> CounterType]
      BY <2>1, <2>2, <2>6, <2>9 DEF TypeOK
    <2>13. ProgramFrame
      BY <1>8 DEF demo_ladder
    <2> QED BY <2>9, <2>10, <2>11, <2>12, <2>13 DEF ProgramFrame, TypeOK
  <1> QED BY <1>1, <1>2, <1>3, <1>4, <1>5, <1>6, <1>7, <1>8 DEF Program

\* Whatever the host writes between two scans keeps the types.
LEMMA CommsType == TypeOK /\ Comms => TypeOK'
  <1> SUFFICES ASSUME TypeOK, Comms PROVE TypeOK'
    OBVIOUS
  <1>1. ASSUME NEW m \in {"RUN", "STOP"}, plc_scan_set_mode(m)
        PROVE  TypeOK'
    BY <1>1, SetModeType
  <1>2. ASSUME NEW i \in OUTPUTS, NEW v \in BOOLEAN, HostWriteOutput(i, v)
        PROVE  TypeOK'
    BY <1>2 DEF HostWriteOutput, HostFrame, TypeOK
  <1>3. ASSUME NEW i \in TIMERS, NEW v \in HOST_VALUES, NEW b \in BOOLEAN, HostWriteTimer(i, v, b)
        PROVE  TypeOK'
    <2>1. v \in 0..TIMER_MAX
      BY ScanAssumption
    <2>2. t' \in [TIMERS -> TimerType]
      <3>1. t[i] \in TimerType
        BY DEF TypeOK
      <3>2. [t[i] EXCEPT !.current = v] \in TimerType /\ [t[i] EXCEPT !.done = b] \in TimerType
        BY <2>1, <3>1, Zenon DEF TimerType
      <3>3. \/ t' = [t EXCEPT ![i] = [t[i] EXCEPT !.current = v]]
            \/ t' = [t EXCEPT ![i] = [t[i] EXCEPT !.done = b]]
        BY <1>3 DEF HostWriteTimer
      <3> QED BY <3>2, <3>3 DEF TypeOK
    <2>3. [NoRun EXCEPT !.host = TRUE] \in RunType
      BY DEF NoRun, RunType
    <2> QED BY <1>3, <2>2, <2>3 DEF HostWriteTimer, HostFrame, TypeOK
  <1>4. ASSUME NEW i \in COUNTERS, NEW v \in HOST_VALUES, NEW b \in BOOLEAN,
               HostWriteCounter(i, v, b)
        PROVE  TypeOK'
    <2>1. v \in COUNTER_MIN..COUNTER_MAX
      BY ScanAssumption DEF COUNTER_MIN
    <2>2. c' \in [COUNTERS -> CounterType]
      <3>1. c[i] \in CounterType
        BY DEF TypeOK
      <3>2. [c[i] EXCEPT !.current = v] \in CounterType /\ [c[i] EXCEPT !.done = b] \in CounterType
        BY <2>1, <3>1, Zenon DEF CounterType
      <3>3. \/ c' = [c EXCEPT ![i] = [c[i] EXCEPT !.current = v]]
            \/ c' = [c EXCEPT ![i] = [c[i] EXCEPT !.done = b]]
        BY <1>4 DEF HostWriteCounter
      <3> QED BY <3>2, <3>3 DEF TypeOK
    <2> QED BY <1>4, <2>2 DEF HostWriteCounter, HostFrame, TypeOK
  <1>5. ASSUME NEW b \in PROGRAMS, Download(b)
        PROVE  TypeOK'
    BY <1>5 DEF Download, HostFrame, TypeOK
  <1>6. CASE CommsDone
    BY <1>6 DEF CommsDone, hist, TypeOK
  <1> QED BY <1>1, <1>2, <1>3, <1>4, <1>5, <1>6 DEF Comms

\* A step that changes nothing preserves the types.
LEMMA StutterType == TypeOK /\ UNCHANGED vars => TypeOK'
  BY DEF vars, hist, TypeOK

\* Every width and range of the device image and of the tick counters is
\* respected at every scale: no timer exceeds 16 bits, no counter 32, no
\* carry of advance_ticks its base.
THEOREM TypeCorrect == Spec => []TypeOK
  <1>1. TypeOK /\ [Next]_vars => TypeOK'
    BY ScanBeginType, ProgramType, ScanEndType, CommsType, PowerCycleType, StutterType DEF Next
  <1> QED BY <1>1, InitType, PTL DEF Spec

(***************************************************************************)
(* Outputs and the initial pulse                                           *)
(***************************************************************************)

\* In STOP no pin is ever on: STOP clears them at once and every later scan
\* end clears them again, while the host can only reach the image.
THEOREM PinsOff == Spec => []PinsOffInStop
  <1>1. Init => PinsOffInStop
    BY DEF Init, PinsOffInStop
  <1>2. TypeOK /\ PinsOffInStop /\ [Next]_vars => PinsOffInStop'
    <2> SUFFICES ASSUME TypeOK, PinsOffInStop, [Next]_vars PROVE PinsOffInStop'
      OBVIOUS
    <2>1. CASE plc_scan_begin
      BY <2>1 DEF plc_scan_begin, PinsOffInStop
    <2>2. CASE Program
      BY <2>2 DEF Program, ProgramFrame, OutTimer, RstTimer, OutCounter, RstCounter,
                  WriteOutput, WriteDirection, ProgramDone, demo_ladder, PinsOffInStop
    <2>3. CASE plc_scan_end
      BY <2>3 DEF plc_scan_end, PinsOffInStop, AllOff, TypeOK
    <2>4. CASE Comms
      <3>1. ASSUME NEW m \in {"RUN", "STOP"}, plc_scan_set_mode(m)
            PROVE  PinsOffInStop'
        BY <3>1 DEF plc_scan_set_mode, enter_stop, PinsOffInStop, AllOff
      <3> QED BY <2>4, <3>1 DEF Comms, HostFrame, HostWriteOutput, HostWriteTimer,
                  HostWriteCounter, Download, CommsDone, PinsOffInStop
    <2>5. CASE PowerCycle
      BY <2>5 DEF PowerCycle, PinsOffInStop
    <2>6. CASE UNCHANGED vars
      BY <2>6 DEF vars, PinsOffInStop
    <2> QED BY <2>1, <2>2, <2>3, <2>4, <2>5, <2>6 DEF Next
  <1> QED BY <1>1, <1>2, TypeCorrect, PTL DEF Spec

\* M8002 is seen in exactly the first scan of each stay in RUN.
THEOREM InitialPulseOnce == Spec => []InitialPulse
  <1>1. Init => PulseInv
    BY DEF Init, PulseInv, InitialPulse
  <1>2. TypeOK /\ PulseInv /\ [Next]_vars => PulseInv'
    <2> SUFFICES ASSUME TypeOK, PulseInv, [Next]_vars PROVE PulseInv'
      OBVIOUS
    <2>1. CASE plc_scan_begin
      <3>1. (mode = "RUN" => relay'.m8000) /\ relay'.m8002 = first_scan
        BY <2>1 DEF plc_scan_begin, update_special_relays, TypeOK
      <3>2. mode' = mode /\ first_scan' = first_scan /\ scanned' = scanned
        BY <2>1 DEF plc_scan_begin
      <3> QED BY <3>1, <3>2, Zenon DEF PulseInv, InitialPulse
    <2>2. CASE Program
      <3>1. /\ mode' = mode /\ first_scan' = first_scan /\ scanned' = scanned
            /\ phase' = "execute" => phase = "execute"
        BY <2>2 DEF Program, ProgramFrame, OutTimer, RstTimer, OutCounter, RstCounter,
                    WriteOutput, WriteDirection, ProgramDone, demo_ladder
      <3>2. relay'.m8000 = relay.m8000 /\ relay'.m8002 = relay.m8002
        <4>1. ASSUME NEW i \in Bidirectional, NEW v \in BOOLEAN, WriteDirection(i, v)
              PROVE  relay'.m8000 = relay.m8000 /\ relay'.m8002 = relay.m8002
          BY <4>1 DEF WriteDirection, TypeOK
        <4> QED BY <2>2, <4>1 DEF Program, OutTimer, RstTimer, OutCounter, RstCounter,
                      WriteOutput, ProgramDone, demo_ladder
      <3> QED BY <3>1, <3>2 DEF PulseInv, InitialPulse
    <2>3. CASE plc_scan_end
      BY <2>3 DEF plc_scan_end, PulseInv, InitialPulse, TypeOK
    <2>4. CASE Comms
      <3>1. ASSUME NEW m \in {"RUN", "STOP"}, plc_scan_set_mode(m)
            PROVE  PulseInv'
        BY <3>1 DEF plc_scan_set_mode, enter_run, enter_stop, PulseInv, InitialPulse
      <3> QED BY <2>4, <3>1 DEF Comms, HostFrame, HostWriteOutput, HostWriteTimer,
                  HostWriteCounter, Download, CommsDone, hist, PulseInv, InitialPulse
    <2>5. CASE PowerCycle
      BY <2>5 DEF PowerCycle, PulseInv, InitialPulse
    <2>6. CASE UNCHANGED vars
      BY <2>6 DEF vars, hist, PulseInv, InitialPulse
    <2> QED BY <2>1, <2>2, <2>3, <2>4, <2>5, <2>6 DEF Next
  <1>3. PulseInv => InitialPulse
    BY DEF PulseInv
  <1> QED BY <1>1, <1>2, <1>3, TypeCorrect, PTL DEF Spec

(***************************************************************************)
(* Timer accuracy                                                          *)
(***************************************************************************)

\* Two facts about multiplication that the accounts below need.
LEMMA AddTicks ==
    ASSUME NEW d \in Nat, NEW n \in Nat, NEW b \in Nat
    PROVE  (d + n) * b = d * b + n * b /\ d * b \in Nat /\ n * b \in Nat
  OBVIOUS

\* Driving a coil once more in a scan keeps the exact account: the ticks of
\* this scan are those TicksCarry promises.
LEMMA DriveAccount ==
    ASSUME TypeOK, LapInv, TimerInv, NEW i \in TIMERS, NEW p \in 0..TIMER_MAX,
           NEW e \in BOOLEAN, phase = "execute", phase' \in {"execute", "end"},
           clk' = clk, lap' = lap,
           t'[i] = plc_timer_drive(t[i], i, p, e, clk),
           run'[i] = RunDrive(run[i], t[i], i, p, e),
           run'[i].live
    PROVE  RunAccount(i)'
  <1> DEFINE tk == ticks_for_base(clk, i)
  <1> DEFINE before == Phase(lap.before, i)
  <1> DEFINE after == Phase(clk, i)
  <1> DEFINE cur == t[i].current
  <1>1. /\ i \in 0..255 /\ t[i] \in TimerType /\ run[i] \in RunType
        /\ lap.before \in ClockType /\ lap.delta \in Nat /\ clk \in ClockType
    BY ScanAssumption DEF TypeOK
  <1>2. tk \in Nat /\ tk * TickUs(i) + after = before + lap.delta
    <2> DEFINE now == advance_ticks(lap.before, lap.delta)
    <2>1. /\ ticks_for_base(now, i) \in Nat
          /\ ticks_for_base(now, i) * TickUs(i) + Phase(now, i) = before + lap.delta
      BY <1>1, TicksCarry, Zenon
    <2>2. clk = now
      BY Zenon DEF LapInv
    <2> HIDE DEF now
    <2> QED BY <2>1, <2>2, Zenon
  <1>3. /\ before \in Nat /\ after \in Nat /\ TickUs(i) \in Nat \ {0} /\ before < TickUs(i)
    BY <1>1, PhaseBound
  <1>4. cur \in Nat /\ cur \in 0..TIMER_MAX
    BY <1>1, ScanAssumption DEF TimerType
  <1>5. i \in TRACKED /\ e /\ ~t[i].driven /\ ~(cur + tk > TIMER_MAX) /\ ~(p # 0 /\ cur + tk >= p)
    BY DEF RunDrive, NoRun
  <1>6. t'[i].current = cur + tk /\ t'[i].driven
    BY <1>5 DEF plc_timer_drive
  <1> HIDE DEF tk, before, after, cur
  <1>7. CASE run[i].live
    <2> DEFINE from == run[i].from
    <2> DEFINE span == run[i].span
    <2> DEFINE phase0 == run[i].phase0
    <2>1. run'[i] = [run[i] EXCEPT !.span = @ + lap.delta]
      BY <1>5, <1>7 DEF RunDrive, tk, cur
    <2>2. /\ run'[i].from = from /\ run'[i].span = span + lap.delta
          /\ run'[i].phase0 = phase0
      BY <2>1, <1>1 DEF RunType
    <2>3. RunAccount(i)
      BY <1>7 DEF TimerInv
    <2>4. from \in Nat /\ span \in Nat /\ phase0 \in Nat
      BY <1>1 DEF RunType
    <2>5. /\ phase0 < TickUs(i) /\ from <= cur
          /\ (cur - from) * TickUs(i) + before = span + phase0
      BY <2>3, <1>5 DEF RunAccount, cur, before
    <2> HIDE DEF from, span, phase0
    <2>6. cur - from \in Nat /\ (cur + tk) - from = (cur - from) + tk
      BY <2>4, <2>5, <1>4, <1>2
    <2>7. /\ ((cur - from) + tk) * TickUs(i) = (cur - from) * TickUs(i) + tk * TickUs(i)
          /\ (cur - from) * TickUs(i) \in Nat /\ tk * TickUs(i) \in Nat
      BY <2>6, <1>2, <1>3, AddTicks
    <2>8. ((cur + tk) - from) * TickUs(i) + after = (span + lap.delta) + phase0
      <3> DEFINE was == (cur - from) * TickUs(i)
                 more == tk * TickUs(i)
      <3>1. ((cur + tk) - from) * TickUs(i) = was + more
        BY <2>6, <2>7, Zenon
      <3>2. /\ was \in Nat /\ more \in Nat /\ was + before = span + phase0
            /\ more + after = before + lap.delta
        BY <2>5, <2>7, <1>2, Zenon
      <3> HIDE DEF was, more
      <3>3. (was + more) + after = (span + lap.delta) + phase0
        BY <3>2, <2>4, <1>1, <1>3
      <3> QED BY <3>1, <3>3, Zenon
    <2>9. from <= cur + tk
      BY <2>4, <2>5, <1>2, <1>4
    <2> QED BY <2>2, <2>5, <2>8, <2>9, <1>6 DEF RunAccount, after
  <1>8. CASE ~run[i].live
    <2>1. run'[i] = [live |-> TRUE, host |-> FALSE, from |-> cur, span |-> lap.delta,
                     phase0 |-> before]
      BY <1>5, <1>8 DEF RunDrive, tk, cur, before
    <2>2. /\ run'[i].from = cur /\ run'[i].span = lap.delta /\ run'[i].phase0 = before
      BY <2>1
    <2>3. (cur + tk) - cur = tk /\ cur <= cur + tk
      BY <1>2, <1>4
    <2>4. ((cur + tk) - cur) * TickUs(i) + after = lap.delta + before
      BY <2>3, <1>1, <1>2, <1>3
    <2> QED BY <2>2, <2>3, <2>4, <1>3, <1>6 DEF RunAccount, after
  <1> QED BY <1>7, <1>8

\* The account of a timer that a step does not touch.
LEMMA FrameAccount ==
    ASSUME TimerInv, NEW i \in TIMERS, clk' = clk, lap' = lap,
           t'[i] = t[i], run'[i] = run[i],
           phase' \in {"begin", "comms"} => phase \in {"begin", "comms"}
    PROVE  run'[i].live => RunAccount(i)'
  BY DEF TimerInv, RunAccount

\* The clock is always the one advance_ticks made of the clock before it.
LEMMA LapStep == TypeOK /\ LapInv /\ [Next]_vars => LapInv'
  <1> SUFFICES ASSUME TypeOK, LapInv, [Next]_vars PROVE LapInv'
    OBVIOUS
  <1>1. CASE plc_scan_begin
    BY <1>1 DEF plc_scan_begin, LapInv
  <1>2. CASE PowerCycle
    <2>1. 0 + 0 = 0 /\ 0 \div US_PER_MS = 0 /\ 0 % US_PER_MS = 0
      BY ScaleAssumption
    <2>2. advance_ticks(ClockInit, 0) = ClockInit
      BY <2>1 DEF advance_ticks, ClockInit
    <2> QED BY <1>2, <2>2 DEF PowerCycle, LapInv
  <1>3. CASE UNCHANGED <<clk, lap>>
    BY <1>3 DEF LapInv
  <1>4. Program \/ plc_scan_end \/ Comms \/ UNCHANGED vars => UNCHANGED <<clk, lap>>
    BY DEF Program, ProgramFrame, OutTimer, RstTimer, OutCounter, RstCounter, WriteOutput,
           WriteDirection, ProgramDone, demo_ladder, plc_scan_end, Comms, HostFrame,
           HostWriteOutput, HostWriteTimer, HostWriteCounter, Download, CommsDone,
           plc_scan_set_mode, hist, vars
  <1> QED BY <1>1, <1>2, <1>3, <1>4 DEF Next

\* Every step keeps the exact account of every timer whose coil is held.
LEMMA TimerStep == TypeOK /\ LapInv /\ TimerInv /\ [Next]_vars => TimerInv'
  <1> SUFFICES ASSUME TypeOK, LapInv, TimerInv, [Next]_vars,
                      NEW i \in TIMERS, run'[i].live
               PROVE  RunAccount(i)'
    BY DEF TimerInv
  <1>0. ~NoRun.live
    BY DEF NoRun
  <1>1. CASE plc_scan_begin
    <2>1. /\ phase = "begin" /\ phase' = "execute" /\ run' = run
          /\ t' = [j \in TIMERS |-> [t[j] EXCEPT !.driven = FALSE]]
          /\ lap'.before = clk
      BY <1>1 DEF plc_scan_begin
    <2>2. RunAccount(i) /\ t[i].driven
      BY <2>1 DEF TimerInv, RunAccount
    <2>3. t'[i].current = t[i].current /\ t'[i].driven = FALSE
      BY <2>1 DEF TypeOK, TimerType
    <2> QED BY <2>1, <2>2, <2>3 DEF RunAccount
  <1>2. CASE Program
    <2>1. ASSUME NEW j \in TIMERS, NEW p \in PRESETS, NEW e \in BOOLEAN, OutTimer(j, p, e)
          PROVE  RunAccount(i)'
      <3>1. clk' = clk /\ lap' = lap /\ phase = "execute" /\ phase' = "execute"
        BY <2>1 DEF OutTimer, ProgramFrame, InProgram
      <3>2. CASE j = i
        <4>1. /\ t'[i] = plc_timer_drive(t[i], i, p, e, clk)
              /\ run'[i] = RunDrive(run[i], t[i], i, p, e)
          BY <2>1, <3>2 DEF OutTimer, TypeOK
        <4> QED BY <3>1, <4>1, DriveAccount, ScanAssumption
      <3>3. CASE j # i
        <4>1. t'[i] = t[i] /\ run'[i] = run[i]
          BY <2>1, <3>3 DEF OutTimer, TypeOK
        <4> QED BY <3>1, <4>1, FrameAccount
      <3> QED BY <3>2, <3>3
    <2>2. ASSUME NEW j \in TIMERS, RstTimer(j)
          PROVE  RunAccount(i)'
      <3>1. clk' = clk /\ lap' = lap /\ phase' = phase
        BY <2>2 DEF RstTimer, ProgramFrame
      <3>2. j # i
        BY <2>2, <1>0 DEF RstTimer, TypeOK
      <3>3. t'[i] = t[i] /\ run'[i] = run[i]
        BY <2>2, <3>2 DEF RstTimer, TypeOK
      <3> QED BY <3>1, <3>3, FrameAccount
    <2>3. CASE demo_ladder
      <3> DEFINE y0 == (x[0] \/ y[0]) /\ ~x[1]
      <3>1. /\ clk' = clk /\ lap' = lap /\ phase = "execute" /\ phase' = "end"
            /\ t' = [t EXCEPT ![0] = plc_timer_drive(t[0], 0, DEMO_T, y0, clk)]
            /\ run' = [run EXCEPT ![0] = RunDrive(run[0], t[0], 0, DEMO_T, y0)]
        BY <2>3 DEF demo_ladder, ProgramFrame
      <3>2. y0 \in BOOLEAN
        BY Zenon
      <3> HIDE DEF y0
      <3>3. CASE i = 0
        <4>1. /\ t'[i] = plc_timer_drive(t[i], i, DEMO_T, y0, clk)
              /\ run'[i] = RunDrive(run[i], t[i], i, DEMO_T, y0)
          BY <3>1, <3>3 DEF TypeOK
        <4> QED BY <3>1, <3>2, <4>1, DriveAccount, ScanAssumption
      <3>4. CASE i # 0
        <4>1. t'[i] = t[i] /\ run'[i] = run[i]
          BY <3>1, <3>4 DEF TypeOK
        <4> QED BY <3>1, <4>1, FrameAccount
      <3> QED BY <3>3, <3>4
    <2>4. ASSUME clk' = clk, lap' = lap, t' = t, run' = run,
                 phase = "execute", phase' \in {"execute", "end"}
          PROVE  RunAccount(i)'
      BY <2>4, FrameAccount
    <2> QED BY <1>2, <2>1, <2>2, <2>3, <2>4
            DEF Program, OutCounter, RstCounter, WriteOutput, WriteDirection, ProgramDone,
                ProgramFrame, InProgram
  <1>3. CASE plc_scan_end
    <2>1. /\ t' = sweep_timers /\ clk' = clk /\ lap' = lap
          /\ run' = [j \in TIMERS |-> IF t[j].driven THEN run[j] ELSE NoRun]
      BY <1>3 DEF plc_scan_end
    <2>2. t[i].driven /\ run'[i] = run[i]
      BY <2>1, <1>0
    <2>3. t'[i] = t[i]
      BY <2>1, <2>2 DEF sweep_timers
    <2>4. RunAccount(i)
      BY <2>2 DEF TimerInv
    <2> QED BY <2>1, <2>2, <2>3, <2>4 DEF RunAccount
  <1>4. CASE Comms
    <2>1. ASSUME NEW m \in {"RUN", "STOP"}, plc_scan_set_mode(m)
          PROVE  RunAccount(i)'
      <3>1. clk' = clk /\ lap' = lap /\ phase' = phase
        BY <2>1 DEF plc_scan_set_mode
      <3>2. ~(m = "RUN" /\ i < 246) /\ run'[i] = run[i]
        BY <2>1, <1>0 DEF plc_scan_set_mode
      <3>3. t'[i] = t[i]
        BY <2>1, <3>2 DEF plc_scan_set_mode, enter_run, enter_stop,
                          plc_memory_reset_nonretentive
      <3> QED BY <3>1, <3>2, <3>3, FrameAccount
    <2>2. ASSUME NEW j \in TIMERS, NEW v \in HOST_VALUES, NEW b \in BOOLEAN,
                 HostWriteTimer(j, v, b)
          PROVE  RunAccount(i)'
      <3>1. clk' = clk /\ lap' = lap /\ phase' = phase
        BY <2>2 DEF HostWriteTimer, HostFrame
      <3>2. j # i
        <4>1. ~[NoRun EXCEPT !.host = TRUE].live
          BY DEF NoRun
        <4> QED BY <2>2, <4>1 DEF HostWriteTimer, TypeOK
      <3>3. t'[i] = t[i] /\ run'[i] = run[i]
        BY <2>2, <3>2 DEF HostWriteTimer, TypeOK
      <3> QED BY <3>1, <3>3, FrameAccount
    <2>3. ASSUME clk' = clk, lap' = lap, t' = t, run' = run, phase = "comms"
          PROVE  RunAccount(i)'
      BY <2>3, FrameAccount
    <2> QED BY <1>4, <2>1, <2>2, <2>3
            DEF Comms, HostWriteOutput, HostWriteCounter, Download, CommsDone, HostFrame, hist
  <1>5. CASE PowerCycle
    BY <1>5, <1>0 DEF PowerCycle
  <1>6. CASE UNCHANGED vars
    BY <1>6, FrameAccount DEF vars, hist
  <1> QED BY <1>1, <1>2, <1>3, <1>4, <1>5, <1>6 DEF Next

\* The exact account bounds the error of a timer by one tick.
LEMMA AccountBounds == TypeOK /\ TimerInv => TimerAccuracy
  <1> SUFFICES ASSUME TypeOK, TimerInv, NEW i \in TIMERS, run[i].live
               PROVE  /\ (t[i].current - run[i].from) * TickUs(i) < run[i].span + TickUs(i)
                      /\ run[i].span < (t[i].current - run[i].from) * TickUs(i) + TickUs(i)
    BY DEF TimerAccuracy
  <1> DEFINE k == IF t[i].driven THEN clk ELSE lap.before
  <1> DEFINE counted == (t[i].current - run[i].from) * TickUs(i)
  <1>1. i \in 0..255 /\ k \in ClockType /\ run[i] \in RunType /\ t[i] \in TimerType
    BY ScanAssumption DEF TypeOK
  <1>2. RunAccount(i)
    BY DEF TimerInv
  <1>3. Phase(k, i) \in Nat /\ TickUs(i) \in Nat \ {0} /\ Phase(k, i) < TickUs(i)
    BY <1>1, PhaseBound
  <1>4. t[i].current - run[i].from \in Int
    BY <1>1, ScanAssumption DEF TimerType, RunType
  <1>5. counted \in Int
    BY <1>3, <1>4
  <1>6. run[i].span \in Nat /\ run[i].phase0 \in Nat
    BY <1>1 DEF RunType
  <1>7. counted + Phase(k, i) = run[i].span + run[i].phase0 /\ run[i].phase0 < TickUs(i)
    BY <1>2 DEF RunAccount
  <1> HIDE DEF counted, k
  <1>8. counted < run[i].span + TickUs(i) /\ run[i].span < counted + TickUs(i)
    BY <1>3, <1>5, <1>6, <1>7
  <1> QED BY <1>8 DEF counted

\* A timer keeps time at every scale, for every index and every pattern of
\* scans, modes and host writes: while its coil is held, what it has counted
\* is within one tick of the time that passed.
THEOREM TimersKeepTime == Spec => []TimerAccuracy
  <1>1. Init => LapInv /\ TimerInv
    <2> SUFFICES ASSUME Init PROVE LapInv /\ TimerInv
      OBVIOUS
    <2>1. 0 + 0 = 0 /\ 0 \div US_PER_MS = 0 /\ 0 % US_PER_MS = 0
      BY ScaleAssumption
    <2>2. advance_ticks(ClockInit, 0) = ClockInit
      BY <2>1 DEF advance_ticks, ClockInit
    <2> QED BY <2>2 DEF Init, LapInv, TimerInv, NoRun
  <1>2. TypeOK /\ LapInv /\ TimerInv /\ [Next]_vars => LapInv' /\ TimerInv'
    BY LapStep, TimerStep
  <1> QED BY <1>1, <1>2, TypeCorrect, AccountBounds, PTL DEF Spec

(***************************************************************************)
(* What the steps leave alone                                              *)
(***************************************************************************)

\* A program step leaves the mode, the loop's flags and the scan times alone,
\* and stays inside the program phase or ends it.
LEMMA ProgramKeeps ==
    ASSUME Program
    PROVE  /\ phase = "execute" /\ phase' \in {"execute", "end"}
           /\ UNCHANGED <<mode, first_scan, x, scan_time, has_program, scanned, seen>>
  BY DEF Program, ProgramFrame, InProgram, OutTimer, RstTimer, OutCounter, RstCounter,
         WriteOutput, WriteDirection, ProgramDone, demo_ladder

\* The host writes only between two scans, and only a change of mode reaches
\* the mode and the loop's flags.
LEMMA CommsKeeps ==
    ASSUME Comms
    PROVE  /\ phase = "comms" /\ phase' \in {"comms", "begin"}
           /\ \/ \E m \in {"RUN", "STOP"} : plc_scan_set_mode(m)
              \/ UNCHANGED <<mode, first_scan, x, scan_time, scanned, seen>>
  BY DEF Comms, HostFrame, HostWriteOutput, HostWriteTimer, HostWriteCounter, Download,
         CommsDone, plc_scan_set_mode, hist

(***************************************************************************)
(* The sweep of the timers                                                 *)
(***************************************************************************)

\* Once a scan has ended no non-retentive timer survives the loss of its coil,
\* whether the coil went false, was jumped over or disappeared with a download.
THEOREM NoTimerGoesStale == Spec => []NoStaleTimer
  <1>1. Init => NoStaleTimer
    BY DEF Init, NoStaleTimer, TimerZero
  <1>2. TypeOK /\ NoStaleTimer /\ [Next]_vars => NoStaleTimer'
    <2> SUFFICES ASSUME TypeOK, NoStaleTimer, [Next]_vars, phase' \in {"comms", "begin"},
                        NEW i \in TIMERS, ~timer_is_retentive(i), ~run'[i].host,
                        t'[i].done \/ t'[i].current > 0
                 PROVE  t'[i].driven
      BY DEF NoStaleTimer
    <2>0. t[i] \in TimerType /\ run[i] \in RunType
      BY DEF TypeOK
    <2>1. CASE plc_scan_begin
      BY <2>1 DEF plc_scan_begin
    <2>2. CASE Program
      BY <2>2, ProgramKeeps
    <2>3. CASE plc_scan_end
      <3>1. t' = sweep_timers
        BY <2>3 DEF plc_scan_end
      <3>2. CASE t[i].driven
        BY <3>1, <3>2 DEF sweep_timers
      <3>3. CASE ~t[i].driven
        <4>1. t'[i] = [t[i] EXCEPT !.current = 0, !.done = FALSE]
          BY <3>1, <3>3 DEF sweep_timers
        <4> QED BY <4>1, <2>0 DEF TimerType
      <3> QED BY <3>2, <3>3
    <2>4. CASE Comms
      <3>0. phase = "comms"
        BY <2>4, CommsKeeps
      <3>1. ASSUME NEW m \in {"RUN", "STOP"}, plc_scan_set_mode(m)
            PROVE  t'[i].driven
        <4>1. CASE m = "RUN"
          <5>1. i < 246
            BY ScanAssumption DEF timer_is_retentive
          <5>2. t'[i] = TimerZero
            BY <3>1, <4>1, <5>1 DEF plc_scan_set_mode, enter_run, plc_memory_reset_nonretentive
          <5> QED BY <5>2 DEF TimerZero
        <4>2. CASE m # "RUN"
          <5>1. t' = t /\ run'[i] = run[i]
            BY <3>1, <4>2 DEF plc_scan_set_mode, enter_stop
          <5> QED BY <5>1, <3>0 DEF NoStaleTimer
        <4> QED BY <4>1, <4>2
      <3>2. ASSUME NEW j \in TIMERS, NEW v \in HOST_VALUES, NEW b \in BOOLEAN,
                   HostWriteTimer(j, v, b)
            PROVE  t'[i].driven
        <4>1. j # i
          <5>1. [NoRun EXCEPT !.host = TRUE].host
            BY DEF NoRun
          <5> QED BY <3>2, <5>1 DEF HostWriteTimer, TypeOK
        <4>2. t'[i] = t[i] /\ run'[i] = run[i]
          BY <3>2, <4>1 DEF HostWriteTimer, TypeOK
        <4> QED BY <4>2, <3>0 DEF NoStaleTimer
      <3>3. ASSUME t' = t, run' = run
            PROVE  t'[i].driven
        BY <3>3, <3>0 DEF NoStaleTimer
      <3> QED BY <2>4, <3>1, <3>2, <3>3
              DEF Comms, HostWriteOutput, HostWriteCounter, Download, CommsDone, hist
    <2>5. CASE PowerCycle
      BY <2>5 DEF PowerCycle, TimerZero
    <2>6. CASE UNCHANGED vars
      BY <2>6 DEF vars, hist, NoStaleTimer
    <2> QED BY <2>1, <2>2, <2>3, <2>4, <2>5, <2>6 DEF Next
  <1> QED BY <1>1, <1>2, TypeCorrect, PTL DEF Spec

(***************************************************************************)
(* The stop button                                                         *)
(***************************************************************************)

\* A dropped coil opens the contact of a non-retentive timer; a reset opens
\* that of a counter.
LEMMA DropOpens ==
    ASSUME NEW tm \in TimerType, NEW ctr \in CounterType, NEW p, NEW k
    PROVE  /\ ~plc_timer_drive(tm, 0, p, FALSE, k).done
           /\ ~plc_counter_reset(ctr).done
  BY DEF plc_timer_drive, plc_counter_reset, timer_is_retentive, TimerType, CounterType

\* X1 drops the outputs of the built-in ladder in the very scan that sees it.
THEOREM StopButtonStops == Spec => []StopButton
  <1>1. Init => StopButton
    BY DEF Init, StopButton
  <1>2. TypeOK /\ StopButton /\ [Next]_vars => StopButton'
    <2> SUFFICES ASSUME TypeOK, StopButton, [Next]_vars,
                        phase' = "end", mode' = "RUN", ~has_program', x'[1]
                 PROVE  ~y'[0] /\ ~y'[1] /\ ~y'[2]
      BY DEF StopButton
    <2>1. CASE demo_ladder
      <3> DEFINE y0 == (x[0] \/ y[0]) /\ ~x[1]
      <3> DEFINE t0 == plc_timer_drive(t[0], 0, DEMO_T, y0, clk)
      <3> DEFINE c0 == plc_counter_drive(c[0], 0, DEMO_C, x[0], FALSE)
      <3> DEFINE c1 == IF x[1] THEN plc_counter_reset(c0) ELSE c0
      <3>1. /\ x' = x
            /\ y' = [y EXCEPT ![0] = y0, ![1] = t0.done, ![2] = c1.done,
                              ![6] = relay.pulse["M8013"]]
        BY <2>1 DEF demo_ladder, ProgramFrame
      <3>2. /\ 0 \in TIMERS /\ 0 \in COUNTERS /\ 0 \in INPUTS /\ {0, 1, 2, 6} \subseteq OUTPUTS
        <4>1. ~has_program /\ has_program \in PROGRAMS
          BY <2>1 DEF demo_ladder, TypeOK
        <4> QED BY <4>1, ScanAssumption
      <3>3. x[1] /\ y0 = FALSE
        BY <3>1
      <3>4. t[0] \in TimerType /\ c0 \in CounterType
        BY <3>2, ScanAssumption, CounterStepType DEF TypeOK
      <3> HIDE DEF y0, c0
      <3>5. ~t0.done /\ ~c1.done
        BY <3>3, <3>4, DropOpens
      <3> HIDE DEF t0, c1
      <3>6. y'[0] = y0 /\ y'[1] = t0.done /\ y'[2] = c1.done
        BY <3>1, <3>2 DEF TypeOK
      <3> QED BY <3>3, <3>5, <3>6
    <2>2. CASE Program /\ ~demo_ladder
      <3>1. mode = "RUN" /\ ~has_program
        BY <2>2, ProgramKeeps
      <3> QED BY <2>2, <3>1 DEF Program, InProgram, OutTimer, RstTimer, OutCounter,
                  RstCounter, WriteOutput, WriteDirection, ProgramDone
    <2>3. CASE plc_scan_begin \/ plc_scan_end \/ Comms \/ PowerCycle
      BY <2>3, CommsKeeps DEF plc_scan_begin, plc_scan_end, PowerCycle
    <2>4. CASE UNCHANGED vars
      BY <2>4 DEF vars, StopButton
    <2> QED BY <2>1, <2>2, <2>3, <2>4 DEF Next
  <1> QED BY <1>1, <1>2, TypeCorrect, PTL DEF Spec

(***************************************************************************)
(* Scan times                                                              *)
(***************************************************************************)

\* record_scan_time, whether or not this is the first scan of a stay in RUN.
LEMMA RecordBounds ==
    ASSUME TypeOK, NEW tenths \in Nat
    PROVE  LET st == record_scan_time(tenths)
           IN  /\ st.cur = tenths
               /\ st.max >= tenths /\ st.max >= scan_time.max
               /\ first_scan => st.min = tenths
               /\ ~first_scan => /\ st.min <= tenths /\ st.min <= scan_time.min
                                 /\ st.min \in {tenths, scan_time.min}
               /\ st.min \in Nat /\ st.max \in Nat
  BY DEF record_scan_time, TypeOK

\* D8010 to D8012 bound exactly the scans since the last entry to RUN: what an
\* earlier stay or the zero of a fresh register left there is forgotten.
THEOREM ScanTimesBound == Spec => []ScanTimes
  <1>1. Init => ScanTimesInv
    BY DEF Init, ScanTimesInv
  <1>2. TypeOK /\ ScanTimesInv /\ [Next]_vars => ScanTimesInv'
    <2> SUFFICES ASSUME TypeOK, ScanTimesInv, [Next]_vars PROVE ScanTimesInv'
      OBVIOUS
    <2>1. CASE UNCHANGED <<mode, first_scan, scan_time, scanned, seen>>
      BY <2>1 DEF ScanTimesInv
    <2>2. CASE plc_scan_begin
      BY <2>1, <2>2 DEF plc_scan_begin
    <2>3. CASE Program
      BY <2>1, <2>3, ProgramKeeps
    <2>4. CASE plc_scan_end
      <3>1. PICK tenths \in TENTHS : /\ scan_time' = record_scan_time(tenths)
                                     /\ seen' = seen \union {tenths}
        BY <2>4 DEF plc_scan_end
      <3>2. tenths \in Nat
        BY ScanAssumption
      <3>3. /\ mode' = mode /\ first_scan' = FALSE /\ scanned' = (scanned \/ mode = "RUN")
        BY <2>4 DEF plc_scan_end
      <3>4. /\ scan_time'.cur = tenths
            /\ scan_time'.max >= tenths /\ scan_time'.max >= scan_time.max
            /\ first_scan => scan_time'.min = tenths
            /\ ~first_scan => /\ scan_time'.min <= tenths /\ scan_time'.min <= scan_time.min
                              /\ scan_time'.min \in {tenths, scan_time.min}
            /\ scan_time'.min \in Nat /\ scan_time'.max \in Nat
        BY <3>1, <3>2, RecordBounds
      <3>5. scan_time.min \in Nat /\ scan_time.max \in Nat /\ seen \subseteq Nat
        BY DEF TypeOK
      <3>6. \A s \in seen' : s <= scan_time'.max
        BY <3>1, <3>2, <3>4, <3>5 DEF ScanTimesInv
      <3>7. ASSUME scanned'
            PROVE  /\ scan_time'.min \in seen' /\ scan_time'.cur \in seen'
                   /\ \A s \in seen' : scan_time'.min <= s
        <4>1. CASE scanned
          <5>1. ~first_scan
            BY <4>1 DEF ScanTimesInv
          <5> QED BY <4>1, <5>1, <3>1, <3>2, <3>4, <3>5 DEF ScanTimesInv
        <4>2. CASE ~scanned
          <5>1. mode = "RUN" /\ first_scan /\ seen = {}
            BY <4>2, <3>3, <3>7 DEF ScanTimesInv
          <5> QED BY <5>1, <3>1, <3>2, <3>4
        <4> QED BY <4>1, <4>2
      <3> QED BY <3>3, <3>6, <3>7 DEF ScanTimesInv, TypeOK
    <2>5. CASE Comms
      <3>1. ASSUME NEW m \in {"RUN", "STOP"}, plc_scan_set_mode(m)
            PROVE  ScanTimesInv'
        <4>1. CASE m = "RUN"
          BY <3>1, <4>1 DEF plc_scan_set_mode, enter_run, ScanTimesInv
        <4>2. CASE m # "RUN"
          BY <3>1, <4>2 DEF plc_scan_set_mode, enter_stop, ScanTimesInv, TypeOK
        <4> QED BY <4>1, <4>2
      <3> QED BY <2>1, <2>5, <3>1, CommsKeeps
    <2>6. CASE PowerCycle
      BY <2>6 DEF PowerCycle, ScanTimesInv
    <2>7. CASE UNCHANGED vars
      BY <2>1, <2>7 DEF vars, hist
    <2> QED BY <2>2, <2>3, <2>4, <2>5, <2>6, <2>7 DEF Next
  <1>3. ScanTimesInv => ScanTimes
    BY DEF ScanTimesInv, ScanTimes
  <1> QED BY <1>1, <1>2, <1>3, TypeCorrect, PTL DEF Spec

(***************************************************************************)
(* Counters                                                                *)
(***************************************************************************)

\* Under one set value p, a coil and a reset keep a counter exact: the edge
\* that reaches p closes the contact, and a 16-bit counter stops there.
LEMMA CounterStepExact ==
    ASSUME NEW ctr \in CounterType, NEW i \in 0..255, NEW p \in 0..TIMER_MAX,
           NEW e \in BOOLEAN, NEW d \in BOOLEAN, CounterExact(ctr, i, p)
    PROVE  /\ CounterExact(plc_counter_drive(ctr, i, p, e, d), i, p)
           /\ CounterExact(plc_counter_reset(ctr), i, p)
  <1> DEFINE n == plc_counter_drive(ctr, i, p, e, d)
  <1>1. /\ ctr.current \in Int /\ ctr.preset \in Nat /\ p \in Nat /\ TIMER_MAX \in Nat
        /\ ctr.done \in BOOLEAN
    BY ScanAssumption DEF CounterType, COUNTER_MIN
  <1>2. CounterExact(plc_counter_reset(ctr), i, p)
    <2>1. /\ plc_counter_reset(ctr).current = 0 /\ ~plc_counter_reset(ctr).done
          /\ plc_counter_reset(ctr).preset = ctr.preset
      BY DEF plc_counter_reset, CounterType
    <2> HIDE DEF n
    <2> QED BY <1>1, <2>1 DEF CounterExact
  <1>3. CASE ~(e /\ ~ctr.last_in)
    <2>1. n = [ctr EXCEPT !.preset = p, !.last_in = e]
      BY <1>3 DEF plc_counter_drive
    <2>2. n.current = ctr.current /\ n.done = ctr.done /\ n.preset = p
      BY <2>1 DEF CounterType
    <2> HIDE DEF n
    <2>3. CounterExact(n, i, p)
      BY <1>1, <2>2 DEF CounterExact
    <2> QED BY <1>2, <2>3 DEF n
  <1>4. CASE e /\ ~ctr.last_in
    <2> DEFINE cur == IF i < 200
                      THEN IF ctr.current < p THEN ctr.current + 1 ELSE ctr.current
                      ELSE Wrap32(ctr.current + (IF d THEN -1 ELSE 1))
    <2>1. n = [current |-> cur, preset |-> p, last_in |-> TRUE,
               done |-> IF i < 200 THEN ctr.done \/ cur >= p ELSE cur >= p]
      BY <1>4 DEF plc_counter_drive
    <2>2. /\ n.current = cur /\ n.preset = p
          /\ n.done = IF i < 200 THEN ctr.done \/ cur >= p ELSE cur >= p
      BY <2>1
    <2>3. CASE i < 200
      <3>1. cur = IF ctr.current < p THEN ctr.current + 1 ELSE ctr.current
        BY <2>3
      <3> HIDE DEF n, cur
      <3>2. ctr.current <= p /\ (p # 0 => (ctr.done <=> ctr.current >= p))
        BY <1>1, <2>3 DEF CounterExact
      <3>3. cur \in Int /\ cur <= p /\ (ctr.current >= p => cur = ctr.current)
        BY <1>1, <3>1, <3>2
      <3>4. p # 0 => (n.done <=> cur >= p)
        BY <1>1, <2>2, <2>3, <3>2, <3>3
      <3>5. CounterExact(n, i, p)
        BY <1>1, <2>2, <2>3, <3>3, <3>4 DEF CounterExact
      <3> QED BY <1>2, <3>5 DEF n
    <2>4. CASE ~(i < 200)
      <3> HIDE DEF n, cur
      <3>1. n.done <=> cur >= p
        BY <2>2, <2>4
      <3>2. CounterExact(n, i, p)
        BY <1>1, <2>2, <2>4, <3>1 DEF CounterExact
      <3> QED BY <1>2, <3>2 DEF n
    <2> QED BY <2>3, <2>4
  <1> QED BY <1>3, <1>4

\* A cleared counter is exact under every set value.
LEMMA CounterZeroExact ==
    ASSUME NEW i \in 0..255, NEW p \in Nat
    PROVE  CounterExact(CounterZero, i, p)
  BY DEF CounterExact, CounterZero

\* Every step keeps every counter exact, as long as the program and the
\* built-in ladder use one set value and the host does not write.
LEMMA CounterStep ==
    ASSUME NEW p \in Nat, PRESETS = {p}, HOST_VALUES = {}, FALSE \in PROGRAMS => DEMO_C = p,
           TypeOK, CounterInv(p), [Next]_vars
    PROVE  CounterInv(p)'
  <1> SUFFICES ASSUME NEW i \in COUNTERS
               PROVE  CounterExact(c'[i], i, p)
    BY DEF CounterInv
  <1>1. i \in 0..255 /\ p \in 0..TIMER_MAX /\ c[i] \in CounterType /\ CounterExact(c[i], i, p)
    BY ScanAssumption DEF TypeOK, CounterInv
  <1>2. CASE c'[i] = c[i]
    BY <1>1, <1>2
  <1>3. CASE c'[i] = CounterZero
    BY <1>1, <1>3, CounterZeroExact
  <1>4. CASE plc_scan_begin \/ plc_scan_end \/ UNCHANGED vars
    BY <1>2, <1>4 DEF plc_scan_begin, plc_scan_end, vars
  <1>5. CASE Program
    <2>1. ASSUME NEW j \in COUNTERS, NEW q \in PRESETS, NEW e \in BOOLEAN, OutCounter(j, q, e)
          PROVE  CounterExact(c'[i], i, p)
      <3>1. CASE j = i
        <4> DEFINE d == i \in Bidirectional /\ relay.down[i]
        <4>1. d \in BOOLEAN
          BY Zenon DEF TypeOK
        <4>2. c'[i] = plc_counter_drive(c[i], i, p, e, d)
          BY <2>1, <3>1 DEF OutCounter, TypeOK
        <4> HIDE DEF d
        <4> QED BY <1>1, <4>1, <4>2, CounterStepExact
      <3>2. CASE j # i
        BY <1>2, <2>1, <3>2 DEF OutCounter, TypeOK
      <3> QED BY <3>1, <3>2
    <2>2. ASSUME NEW j \in COUNTERS, RstCounter(j)
          PROVE  CounterExact(c'[i], i, p)
      <3>1. CASE j = i
        <4>1. c'[i] = plc_counter_reset(c[i])
          BY <2>2, <3>1 DEF RstCounter, TypeOK
        <4>2. TRUE \in BOOLEAN
          OBVIOUS
        <4> QED BY <1>1, <4>1, <4>2, CounterStepExact
      <3>2. CASE j # i
        BY <1>2, <2>2, <3>2 DEF RstCounter, TypeOK
      <3> QED BY <3>1, <3>2
    <2>3. CASE demo_ladder
      <3> DEFINE c0 == plc_counter_drive(c[0], 0, DEMO_C, x[0], FALSE)
      <3> DEFINE c1 == IF x[1] THEN plc_counter_reset(c0) ELSE c0
      <3>1. c' = [c EXCEPT ![0] = c1]
        BY <2>3 DEF demo_ladder
      <3>2. CASE i = 0
        <4>1. DEMO_C = p /\ 0 \in INPUTS
          <5>1. ~has_program /\ has_program \in PROGRAMS
            BY <2>3 DEF demo_ladder, TypeOK
          <5> QED BY <5>1, ScanAssumption
        <4>2. x[0] \in BOOLEAN
          BY <4>1 DEF TypeOK
        <4>3. c0 \in CounterType /\ CounterExact(c0, 0, p)
          BY <1>1, <3>2, <4>1, <4>2, CounterStepType, CounterStepExact
        <4> HIDE DEF c0
        <4>4. CounterExact(plc_counter_reset(c0), 0, p)
          BY <1>1, <3>2, <4>2, <4>3, CounterStepExact
        <4>5. CounterExact(c1, 0, p)
          BY <4>3, <4>4
        <4> HIDE DEF c1
        <4>6. c'[i] = c1
          BY <3>1, <3>2 DEF TypeOK
        <4> QED BY <3>2, <4>5, <4>6
      <3>3. CASE i # 0
        BY <1>2, <3>1, <3>3 DEF TypeOK
      <3> QED BY <3>2, <3>3
    <2> QED BY <1>2, <1>5, <2>1, <2>2, <2>3
            DEF Program, OutTimer, RstTimer, WriteOutput, WriteDirection, ProgramDone
  <1>6. CASE Comms
    <2>1. ASSUME NEW m \in {"RUN", "STOP"}, plc_scan_set_mode(m)
          PROVE  CounterExact(c'[i], i, p)
      <3>1. c'[i] = c[i] \/ c'[i] = CounterZero
        BY <2>1 DEF plc_scan_set_mode, enter_run, enter_stop, plc_memory_reset_nonretentive
      <3> QED BY <1>2, <1>3, <3>1
    <2> QED BY <1>2, <1>6, <2>1
            DEF Comms, HostFrame, HostWriteOutput, HostWriteTimer, Download, CommsDone
  <1>7. CASE PowerCycle
    BY <1>3, <1>7 DEF PowerCycle
  <1> QED BY <1>4, <1>5, <1>6, <1>7 DEF Next

\* With one set value, the one of the built-in ladder if that may run, and no
\* host writes, the contact of every counter says whether it has reached it.
THEOREM CountersExact == (FALSE \in PROGRAMS => DEMO_C \in PRESETS) => (Spec => []CounterContact)
  <1> SUFFICES ASSUME FALSE \in PROGRAMS => DEMO_C \in PRESETS
               PROVE  Spec => []CounterContact
    OBVIOUS
  <1>1. CASE Cardinality(PRESETS) = 1 /\ HOST_VALUES = {}
    <2>1. IsFiniteSet(PRESETS)
      <3>1. 0 \in Int /\ TIMER_MAX \in Int /\ PRESETS \in SUBSET (0..TIMER_MAX)
        BY ScanAssumption
      <3>2. IsFiniteSet(0..TIMER_MAX)
        BY <3>1, FS_Interval
      <3> QED BY <3>1, <3>2, FS_Subset
    <2>2. PICK p : PRESETS = {p}
      <3>1. IsFiniteSet(PRESETS) => (Cardinality(PRESETS) = 1 <=> \E p : PRESETS = {p})
        BY FS_Singleton, Zenon
      <3> QED BY <1>1, <2>1, <3>1, Zenon
    <2>3. p \in Nat /\ (FALSE \in PROGRAMS => DEMO_C = p)
      <3>1. p \in PRESETS /\ (FALSE \in PROGRAMS => DEMO_C = p)
        BY <2>2, Zenon
      <3>2. PRESETS \subseteq 0..TIMER_MAX /\ TIMER_MAX \in Nat
        BY ScanAssumption
      <3>3. p \in 0..TIMER_MAX
        BY <3>1, <3>2, Zenon
      <3>4. p \in Nat
        BY <3>2, <3>3
      <3> QED BY <3>1, <3>4, Zenon
    <2>4. Init => CounterInv(p)
      BY <2>3, ScanAssumption, CounterZeroExact DEF Init, CounterInv
    <2>5. TypeOK /\ CounterInv(p) /\ [Next]_vars => CounterInv(p)'
      BY <1>1, <2>2, <2>3, CounterStep
    <2>6. CounterInv(p) => CounterContact
      BY DEF CounterInv, CounterExact, CounterContact
    <2> QED BY <2>4, <2>5, <2>6, TypeCorrect, PTL DEF Spec
  <1>2. CASE ~(Cardinality(PRESETS) = 1 /\ HOST_VALUES = {})
    <2>1. CounterContact
      BY <1>2 DEF CounterContact
    <2> QED BY <2>1, PTL
  <1> QED BY <1>1, <1>2

(***************************************************************************)
(* Retention                                                               *)
(***************************************************************************)

\* Only plc_scan_set_mode changes the mode between two scans, and it leaves
\* T246-T255 and C100-C255 exactly as they were.
THEOREM RetentiveDevicesKept == Spec => RetentiveKept
  <1>1. [Next]_vars =>
          [phase = "comms" /\ phase' = "comms" /\ mode' # mode =>
             /\ \A i \in TIMERS : timer_is_retentive(i) => t'[i] = t[i]
             /\ \A i \in COUNTERS : i >= 100 => c'[i] = c[i]]_vars
    <2> SUFFICES ASSUME Next, phase = "comms", phase' = "comms", mode' # mode
                 PROVE  /\ \A i \in TIMERS : timer_is_retentive(i) => t'[i] = t[i]
                        /\ \A i \in COUNTERS : i >= 100 => c'[i] = c[i]
      BY DEF vars
    <2>1. PICK m \in {"RUN", "STOP"} : plc_scan_set_mode(m)
      BY ProgramKeeps, CommsKeeps DEF Next, plc_scan_begin, plc_scan_end, PowerCycle
    <2>2. CASE m = "RUN"
      <3>1. /\ \A i \in TIMERS : ~(i < 246) => t'[i] = t[i]
            /\ \A i \in COUNTERS : ~(i < 100) => c'[i] = c[i]
        BY <2>1, <2>2 DEF plc_scan_set_mode, enter_run, plc_memory_reset_nonretentive
      <3>2. \A i \in TIMERS \cup COUNTERS : i \in Int
        BY ScanAssumption
      <3> QED BY <3>1, <3>2 DEF timer_is_retentive
    <2>3. CASE m # "RUN"
      BY <2>1, <2>3 DEF plc_scan_set_mode, enter_stop
    <2> QED BY <2>2, <2>3
  <1> QED BY <1>1, PTL DEF Spec, RetentiveKept

==============================================================================
