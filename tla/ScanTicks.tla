------------------------------ MODULE ScanTicks ------------------------------
(***************************************************************************)
(* The tick arithmetic of plc_scan.c: how the microseconds between two     *)
(* scans become 1 ms, 10 ms and 100 ms timer ticks, and what each timer    *)
(* index counts.  Pure operators over a clock record; PlcScan runs them.   *)
(*                                                                         *)
(* The code's literals are parameters, so that TLC can use a small scale   *)
(* and the proofs hold at every scale: US_PER_MS is 1000, BASE_10 is 10,   *)
(* BASE_100 is 100, CLOCK_WRAP is 2^32 (clock_ms is a uint32_t).           *)
(***************************************************************************)
EXTENDS Integers

CONSTANTS US_PER_MS, BASE_10, BASE_100, CLOCK_WRAP

ASSUME ScaleAssumption ==
    /\ US_PER_MS \in Nat \ {0}
    /\ BASE_10 \in Nat \ {0}
    /\ BASE_100 \in Nat \ {0}
    /\ CLOCK_WRAP \in Nat \ {0}

ClockType ==
    [accum_us : 0..(US_PER_MS - 1), clock_ms : 0..(CLOCK_WRAP - 1),
     rem_10 : 0..(BASE_10 - 1), rem_100 : 0..(BASE_100 - 1),
     ticks_1ms : Nat, ticks_10ms : Nat, ticks_100ms : Nat]

\* The static counters of plc_scan.c after plc_scan_init.
ClockInit ==
    [accum_us |-> 0, clock_ms |-> 0, rem_10 |-> 0, rem_100 |-> 0,
     ticks_1ms |-> 0, ticks_10ms |-> 0, ticks_100ms |-> 0]

\* Mutant of advance_ticks: the sub-millisecond remainder is thrown away.
advance_ticks_no_carry(clk, delta) ==
    LET ms == (clk.accum_us + delta) \div US_PER_MS
    IN  [accum_us |-> 0, clock_ms |-> (clk.clock_ms + ms) % CLOCK_WRAP,
         rem_10 |-> (clk.rem_10 + ms) % BASE_10,
         rem_100 |-> (clk.rem_100 + ms) % BASE_100,
         ticks_1ms |-> ms, ticks_10ms |-> (clk.rem_10 + ms) \div BASE_10,
         ticks_100ms |-> (clk.rem_100 + ms) \div BASE_100]

\* Mutant of advance_ticks: the 10 ms and 100 ms carries are not reduced, as
\* if rem_10 and rem_100 started afresh from the milliseconds of each scan.
advance_ticks_no_base_carry(clk, delta) ==
    LET us == clk.accum_us + delta
        ms == us \div US_PER_MS
    IN  [accum_us |-> us % US_PER_MS, clock_ms |-> (clk.clock_ms + ms) % CLOCK_WRAP,
         rem_10 |-> ms % BASE_10, rem_100 |-> ms % BASE_100,
         ticks_1ms |-> ms, ticks_10ms |-> ms \div BASE_10, ticks_100ms |-> ms \div BASE_100]

\* delta microseconds have passed since the previous call.
advance_ticks(clk, delta) ==
    LET us == clk.accum_us + delta
        ms == us \div US_PER_MS
    IN  IF ms = 0
        THEN [clk EXCEPT !.accum_us = us % US_PER_MS, !.ticks_1ms = 0,
                         !.ticks_10ms = 0, !.ticks_100ms = 0]
        ELSE [accum_us |-> us % US_PER_MS,
              clock_ms |-> (clk.clock_ms + ms) % CLOCK_WRAP,
              rem_10 |-> (clk.rem_10 + ms) % BASE_10,
              rem_100 |-> (clk.rem_100 + ms) % BASE_100,
              ticks_1ms |-> ms,
              ticks_10ms |-> (clk.rem_10 + ms) \div BASE_10,
              ticks_100ms |-> (clk.rem_100 + ms) \div BASE_100]

\* T0-T199 100 ms, T200-T245 10 ms, T246-T249 1 ms, T250-T255 100 ms.
timer_base_ms(idx) ==
    IF idx < 200 THEN BASE_100
    ELSE IF idx < 246 THEN BASE_10
    ELSE IF idx < 250 THEN 1
    ELSE BASE_100

timer_is_retentive(idx) == idx >= 246

\* The code passes the base by value and switches on it; here the index is
\* passed, so that a scale with equal bases still selects the right counter.
ticks_for_base(clk, idx) ==
    IF idx < 200 \/ idx >= 250 THEN clk.ticks_100ms
    ELSE IF idx < 246 THEN clk.ticks_10ms
    ELSE clk.ticks_1ms

------------------------------------------------------------------------------
(* Vocabulary of the properties. *)

\* One tick of timer idx, in microseconds.
TickUs(idx) == timer_base_ms(idx) * US_PER_MS

\* How far, in microseconds, the clock is into the current tick of timer idx.
Phase(clk, idx) ==
    IF idx < 200 \/ idx >= 250 THEN clk.rem_100 * US_PER_MS + clk.accum_us
    ELSE IF idx < 246 THEN clk.rem_10 * US_PER_MS + clk.accum_us
    ELSE clk.accum_us

==============================================================================
