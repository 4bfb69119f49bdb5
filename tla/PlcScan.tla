------------------------------- MODULE PlcScan -------------------------------
(***************************************************************************)
(* The scan cycle: plc_scan.c with the main loop of main.c, the device     *)
(* image of plc_memory.c it owns (timers, counters, X, Y, special relays)  *)
(* and the output pins of board.c.                                         *)
(*                                                                         *)
(* The firmware is one thread.  phase is the point the main loop has       *)
(* reached: "begin" (about to latch inputs), "execute" (user program),     *)
(* "end" (about to publish outputs), "comms" (fx_protocol_task, net_task). *)
(*                                                                         *)
(* A downloaded program is any sequence of the calls the interpreter makes *)
(* on this component: timer and counter coils and resets, Y coils, the     *)
(* M8200+ direction relays.  Interpreting the program is PlcExec's matter. *)
(* In "comms" the host may switch RUN/STOP, force Y, write timer and       *)
(* counter values and contacts, and download or erase a program.           *)
(*                                                                         *)
(* Left out: a program or a host that writes the special devices this      *)
(* component sets itself (M8000, M8002, M8011-M8014, D8010-D8012).         *)
(***************************************************************************)
EXTENDS ScanTicks, FiniteSets

CONSTANTS
    TIMERS,       \* timer indices in use, a subset of 0..255
    COUNTERS,     \* counter indices in use, a subset of 0..255
    INPUTS,       \* wired inputs (BOARD_NUM_INPUTS of them)
    OUTPUTS,      \* wired outputs (BOARD_NUM_OUTPUTS of them)
    PRESETS,      \* set values the program may give a coil
    HOST_VALUES,  \* current values the host may write
    PROGRAMS,     \* what plc_exec_has_program may answer
    DELTAS,       \* microseconds between two scans
    TRACKED,      \* the timers whose history is recorded (see run)
    TENTHS,       \* scan times, in 0.1 ms units, after the uint16_t cast
    PERIOD,       \* periods of M8011..M8014 in ms
    TIMER_MAX,    \* 0xFFFF
    COUNTER_MAX,  \* INT32_MAX
    DEMO_T, DEMO_C  \* presets of the built-in ladder: 20 and 5

Pulses == {"M8011", "M8012", "M8013", "M8014"}

ASSUME ScanAssumption ==
    /\ TIMERS \subseteq 0..255
    /\ COUNTERS \subseteq 0..255
    /\ TIMER_MAX \in Nat \ {0}
    /\ COUNTER_MAX \in Nat
    /\ TIMER_MAX <= COUNTER_MAX
    /\ PRESETS \subseteq 0..TIMER_MAX
    /\ HOST_VALUES \subseteq 0..TIMER_MAX
    /\ PROGRAMS \subseteq BOOLEAN /\ PROGRAMS # {}
    /\ DELTAS \subseteq Nat \ {0}
    /\ TRACKED \subseteq TIMERS
    /\ TENTHS \subseteq Nat
    /\ PERIOD \in [Pulses -> Nat \ {0}]
    /\ DEMO_T \in 0..TIMER_MAX /\ DEMO_C \in 0..TIMER_MAX
    /\ FALSE \in PROGRAMS =>
         /\ 0 \in TIMERS /\ 0 \in COUNTERS
         /\ {0, 1} \subseteq INPUTS /\ {0, 1, 2, 6} \subseteq OUTPUTS

VARIABLES
    phase,        \* where the main loop is
    mode,         \* "RUN" or "STOP"
    first_scan,
    clk,          \* the counters of advance_ticks
    relay,        \* special relays: M8000, M8002, clock pulses, M8200+ directions
    t, c,         \* plc_mem.t and plc_mem.c
    x, y,         \* input and output images
    pins,         \* the physical outputs
    scan_time,    \* D8010 (cur), D8011 (min), D8012 (max)
    has_program,
    \* Auxiliary variables: they record history for the properties and never
    \* influence the others.
    lap,          \* the clock before this scan's advance_ticks, and the delta
    run,          \* per timer: since when its coil has been held without a break
    scanned,      \* a RUN scan has been completed since the last entry to RUN
    seen          \* scan times since the last entry to RUN

hist == <<lap, run, scanned, seen>>
vars == <<phase, mode, first_scan, clk, relay, t, c, x, y, pins, scan_time, has_program, hist>>

TimerZero == [current |-> 0, preset |-> 0, done |-> FALSE, driven |-> FALSE]
CounterZero == [current |-> 0, preset |-> 0, done |-> FALSE, last_in |-> FALSE]
AllOff(S) == [i \in S |-> FALSE]
NoRun == [live |-> FALSE, host |-> FALSE, from |-> 0, span |-> 0, phase0 |-> 0]

Bidirectional == {i \in COUNTERS : i >= 200}

(***************************************************************************)
(* Timers                                                                  *)
(***************************************************************************)

\* Mutant of plc_timer_drive: a dropped coil does not reset the timer.
plc_timer_drive_sticky(tm, idx, preset, enable, now) ==
    IF ~enable
    THEN [tm EXCEPT !.preset = preset, !.driven = FALSE]
    ELSE LET next == tm.current + ticks_for_base(now, idx)
             cur == IF next > TIMER_MAX THEN TIMER_MAX ELSE next
         IN  IF preset # 0 /\ cur >= preset
             THEN [current |-> preset, preset |-> preset, done |-> TRUE, driven |-> TRUE]
             ELSE [current |-> cur, preset |-> preset, done |-> tm.done, driven |-> TRUE]

plc_timer_drive(tm, idx, preset, enable, now) ==
    IF ~enable
    THEN [tm EXCEPT !.preset = preset, !.driven = FALSE,
                    !.current = IF timer_is_retentive(idx) THEN @ ELSE 0,
                    !.done = IF timer_is_retentive(idx) THEN @ ELSE FALSE]
    ELSE LET next == tm.current + ticks_for_base(now, idx)
             cur == IF next > TIMER_MAX THEN TIMER_MAX ELSE next
         IN  IF preset # 0 /\ cur >= preset
             THEN [current |-> preset, preset |-> preset, done |-> TRUE, driven |-> TRUE]
             ELSE [current |-> cur, preset |-> preset, done |-> tm.done, driven |-> TRUE]

plc_timer_reset(tm) == [tm EXCEPT !.current = 0, !.done = FALSE, !.driven = FALSE]

\* History of one coil.  A run begins at the first scan that drives the coil
\* and lasts while every scan drives it exactly once and it has not reached
\* its preset.  span is the time covered, counted from the scan before.
\* host marks a timer that only the host has written since.
RunDrive(r, tm, idx, preset, enable) ==
    LET next == tm.current + ticks_for_base(clk, idx)
    IN  IF \/ idx \notin TRACKED \/ ~enable \/ tm.driven
           \/ next > TIMER_MAX \/ (preset # 0 /\ next >= preset)
        THEN NoRun
        ELSE IF r.live THEN [r EXCEPT !.span = @ + lap.delta]
        ELSE [live |-> TRUE, host |-> FALSE, from |-> tm.current, span |-> lap.delta,
              phase0 |-> Phase(lap.before, idx)]

(***************************************************************************)
(* Counters                                                                *)
(***************************************************************************)

COUNTER_MIN == -COUNTER_MAX - 1

\* Signed 32-bit increment; this build wraps.
Wrap32(n) ==
    IF n > COUNTER_MAX THEN COUNTER_MIN ELSE IF n < COUNTER_MIN THEN COUNTER_MAX ELSE n

\* Mutant of plc_counter_drive: the 16-bit counter does not stop at preset.
plc_counter_drive_runaway(ctr, idx, preset, enable, count_down) ==
    IF ~(enable /\ ~ctr.last_in)
    THEN [ctr EXCEPT !.preset = preset, !.last_in = enable]
    ELSE LET cur == Wrap32(ctr.current + (IF idx >= 200 /\ count_down THEN -1 ELSE 1))
         IN  [current |-> cur, preset |-> preset, last_in |-> TRUE,
              done |-> IF idx < 200 THEN ctr.done \/ cur >= preset ELSE cur >= preset]

plc_counter_drive(ctr, idx, preset, enable, count_down) ==
    IF ~(enable /\ ~ctr.last_in)
    THEN [ctr EXCEPT !.preset = preset, !.last_in = enable]
    ELSE LET cur == IF idx < 200
                    THEN IF ctr.current < preset THEN ctr.current + 1 ELSE ctr.current
                    ELSE Wrap32(ctr.current + (IF count_down THEN -1 ELSE 1))
         IN  [current |-> cur, preset |-> preset, last_in |-> TRUE,
              done |-> IF idx < 200 THEN ctr.done \/ cur >= preset ELSE cur >= preset]

plc_counter_reset(ctr) == [ctr EXCEPT !.current = 0, !.done = FALSE, !.last_in = FALSE]

(***************************************************************************)
(* Mode changes                                                            *)
(***************************************************************************)

\* Mutant of plc_memory_reset_nonretentive: every timer and counter cleared.
reset_everything ==
    /\ y' = AllOff(OUTPUTS)
    /\ t' = [i \in TIMERS |-> TimerZero]
    /\ c' = [i \in COUNTERS |-> CounterZero]

\* X and the special devices are kept; T0-T245 and C0-C99 are cleared.
plc_memory_reset_nonretentive ==
    /\ y' = AllOff(OUTPUTS)
    /\ t' = [i \in TIMERS |-> IF i < 246 THEN TimerZero ELSE t[i]]
    /\ c' = [i \in COUNTERS |-> IF i < 100 THEN CounterZero ELSE c[i]]

\* Mutant of enter_run: M8002 is not armed.
enter_run_unarmed ==
    /\ plc_memory_reset_nonretentive
    /\ first_scan' = FALSE
    /\ UNCHANGED pins

enter_run ==
    /\ plc_memory_reset_nonretentive
    /\ first_scan' = TRUE
    /\ UNCHANGED pins

\* Mutant of enter_stop: the pins are left to the next plc_scan_end.
enter_stop_lazy == first_scan' = FALSE /\ UNCHANGED <<t, c, y, pins>>

enter_stop ==
    /\ first_scan' = FALSE
    /\ pins' = AllOff(OUTPUTS)
    /\ UNCHANGED <<t, c, y>>

\* Called only by fx_protocol.c: remote RUN and STOP, between two scans.
plc_scan_set_mode(new_mode) ==
    /\ phase = "comms"
    /\ new_mode # mode
    /\ IF new_mode = "RUN" THEN enter_run ELSE enter_stop
    /\ mode' = new_mode
    /\ run' = [i \in TIMERS |-> IF new_mode = "RUN" /\ i < 246 THEN NoRun ELSE run[i]]
    /\ scanned' = (scanned /\ new_mode # "RUN")
    /\ seen' = IF new_mode = "RUN" THEN {} ELSE seen
    /\ UNCHANGED <<phase, clk, relay, x, scan_time, has_program, lap>>

(***************************************************************************)
(* The scan                                                                *)
(***************************************************************************)

\* main(): board_init, plc_scan_init and plc_scan_set_mode(RUN) have run.
Init ==
    /\ phase = "begin"
    /\ mode = "RUN"
    /\ first_scan = TRUE
    /\ clk = ClockInit
    /\ relay = [m8000 |-> FALSE, m8002 |-> FALSE, pulse |-> AllOff(Pulses),
                down |-> AllOff(Bidirectional)]
    /\ t = [i \in TIMERS |-> TimerZero]
    /\ c = [i \in COUNTERS |-> CounterZero]
    /\ x = AllOff(INPUTS)
    /\ y = AllOff(OUTPUTS)
    /\ pins = AllOff(OUTPUTS)
    /\ scan_time = [cur |-> 0, min |-> 0, max |-> 0]
    /\ has_program \in PROGRAMS
    /\ lap = [before |-> ClockInit, delta |-> 0]
    /\ run = [i \in TIMERS |-> NoRun]
    /\ scanned = FALSE
    /\ seen = {}

update_special_relays(clock_ms) ==
    relay' = [relay EXCEPT
        !.m8000 = (mode = "RUN"),
        !.m8002 = first_scan,
        !.pulse = [p \in Pulses |-> clock_ms % PERIOD[p] < PERIOD[p] \div 2]]

plc_scan_begin ==
    /\ phase = "begin"
    /\ \E delta \in DELTAS, inputs \in [INPUTS -> BOOLEAN] :
         /\ clk' = advance_ticks(clk, delta)
         /\ x' = inputs
         /\ lap' = [before |-> clk, delta |-> delta]
    /\ t' = [i \in TIMERS |-> [t[i] EXCEPT !.driven = FALSE]]
    /\ update_special_relays(clk'.clock_ms)
    /\ phase' = "execute"
    /\ UNCHANGED <<mode, first_scan, c, y, pins, scan_time, has_program, run, scanned, seen>>

\* Mutant of sweep_timers: a skipped coil leaves its timer alone.
sweep_timers_off == t

\* A non-retentive timer whose coil was not energised this scan is reset: its
\* OUT T may have been jumped over with the subroutine it is in.
sweep_timers ==
    [i \in TIMERS |-> IF t[i].driven \/ timer_is_retentive(i)
                      THEN t[i]
                      ELSE [t[i] EXCEPT !.current = 0, !.done = FALSE]]

\* Mutant of record_scan_time: the minimum is not restarted by a first scan.
record_scan_time_stale(tenths) ==
    [cur |-> tenths,
     max |-> IF tenths > scan_time.max THEN tenths ELSE scan_time.max,
     min |-> IF tenths < scan_time.min THEN tenths ELSE scan_time.min]

record_scan_time(tenths) ==
    [cur |-> tenths,
     max |-> IF tenths > scan_time.max THEN tenths ELSE scan_time.max,
     min |-> IF first_scan \/ tenths < scan_time.min THEN tenths ELSE scan_time.min]

plc_scan_end ==
    /\ phase = "end"
    /\ t' = sweep_timers
    /\ pins' = IF mode = "RUN" THEN y ELSE AllOff(OUTPUTS)
    /\ \E tenths \in TENTHS :
         /\ scan_time' = record_scan_time(tenths)
         /\ seen' = seen \union {tenths}
    /\ first_scan' = FALSE
    /\ run' = [i \in TIMERS |-> IF t[i].driven THEN run[i] ELSE NoRun]
    /\ scanned' = (scanned \/ mode = "RUN")
    /\ phase' = "comms"
    /\ UNCHANGED <<mode, clk, relay, c, x, y, has_program, lap>>

(***************************************************************************)
(* The user program                                                        *)
(***************************************************************************)

\* The device state a program instruction leaves alone.
ProgramFrame ==
    UNCHANGED <<mode, first_scan, clk, x, pins, scan_time, has_program, lap, scanned, seen>>

InProgram == phase = "execute" /\ mode = "RUN" /\ has_program

\* OUT T: also the coil inside a called subroutine.
OutTimer(i, preset, enable) ==
    /\ InProgram
    /\ t' = [t EXCEPT ![i] = plc_timer_drive(@, i, preset, enable, clk)]
    /\ run' = [run EXCEPT ![i] = RunDrive(@, t[i], i, preset, enable)]
    /\ ProgramFrame /\ UNCHANGED <<phase, relay, c, y>>

\* RST T with a true rung.
RstTimer(i) ==
    /\ InProgram
    /\ t' = [t EXCEPT ![i] = plc_timer_reset(@)]
    /\ run' = [run EXCEPT ![i] = NoRun]
    /\ ProgramFrame /\ UNCHANGED <<phase, relay, c, y>>

OutCounter(i, preset, enable) ==
    /\ InProgram
    /\ c' = [c EXCEPT ![i] =
               plc_counter_drive(@, i, preset, enable, i \in Bidirectional /\ relay.down[i])]
    /\ ProgramFrame /\ UNCHANGED <<phase, relay, t, y, run>>

\* RST C with a true rung.
RstCounter(i) ==
    /\ InProgram
    /\ c' = [c EXCEPT ![i] = plc_counter_reset(@)]
    /\ ProgramFrame /\ UNCHANGED <<phase, relay, t, y, run>>

\* OUT Y, SET Y, RST Y.
WriteOutput(i, v) ==
    /\ InProgram
    /\ y' = [y EXCEPT ![i] = v]
    /\ ProgramFrame /\ UNCHANGED <<phase, relay, t, c, run>>

\* OUT M8200+: the count direction of a 32-bit counter.
WriteDirection(i, v) ==
    /\ InProgram
    /\ relay' = [relay EXCEPT !.down = [@ EXCEPT ![i] = v]]
    /\ ProgramFrame /\ UNCHANGED <<phase, t, c, y, run>>

\* plc_exec_scan returns; in STOP the program phase is skipped.
ProgramDone ==
    /\ phase = "execute"
    /\ mode = "RUN" => has_program
    /\ phase' = "end"
    /\ ProgramFrame /\ UNCHANGED <<relay, t, c, y, run>>

\* The ladder built into main.c, run while no program has been downloaded:
\* X0 starts and X1 stops Y0, T0 times it into Y1, C0 counts X0 into Y2.
demo_ladder ==
    /\ phase = "execute" /\ mode = "RUN" /\ ~has_program
    /\ LET y0 == (x[0] \/ y[0]) /\ ~x[1]
           t0 == plc_timer_drive(t[0], 0, DEMO_T, y0, clk)
           c0 == plc_counter_drive(c[0], 0, DEMO_C, x[0], FALSE)
           c1 == IF x[1] THEN plc_counter_reset(c0) ELSE c0
       IN  /\ t' = [t EXCEPT ![0] = t0]
           /\ run' = [run EXCEPT ![0] = RunDrive(@, t[0], 0, DEMO_T, y0)]
           /\ c' = [c EXCEPT ![0] = c1]
           /\ y' = [y EXCEPT ![0] = y0, ![1] = t0.done, ![2] = c1.done,
                             ![6] = relay.pulse["M8013"]]
    /\ phase' = "end"
    /\ ProgramFrame /\ UNCHANGED relay

(***************************************************************************)
(* Communications: everything fx_protocol_task and net_task may do to the  *)
(* state of this component, once per scan                                  *)
(***************************************************************************)

HostFrame ==
    UNCHANGED <<phase, mode, first_scan, clk, relay, x, pins, scan_time, lap, scanned, seen>>

\* Force, or a Modbus coil write: the image changes, the pin does not.
HostWriteOutput(i, v) ==
    /\ phase = "comms"
    /\ y' = [y EXCEPT ![i] = v]
    /\ HostFrame /\ UNCHANGED <<t, c, has_program, run>>

\* fx_addr_write_byte at the T current values, fx_addr_write_bit at T contacts.
HostWriteTimer(i, v, contact) ==
    /\ phase = "comms"
    /\ \/ t' = [t EXCEPT ![i].current = v]
       \/ t' = [t EXCEPT ![i].done = contact]
    /\ run' = [run EXCEPT ![i] = [NoRun EXCEPT !.host = TRUE]]
    /\ HostFrame /\ UNCHANGED <<c, y, has_program>>

\* The same for C; only C0-C199 have a writable current value.
HostWriteCounter(i, v, contact) ==
    /\ phase = "comms"
    /\ \/ i < 200 /\ c' = [c EXCEPT ![i].current = v]
       \/ c' = [c EXCEPT ![i].done = contact]
    /\ HostFrame /\ UNCHANGED <<t, y, has_program, run>>

\* A download or an erase changes what plc_exec_has_program answers.
Download(present) ==
    /\ phase = "comms"
    /\ has_program' = present
    /\ HostFrame /\ UNCHANGED <<t, c, y, run>>

\* The rest of the loop body, and back to its top.
CommsDone ==
    /\ phase = "comms"
    /\ phase' = "begin"
    /\ UNCHANGED <<mode, first_scan, clk, relay, t, c, x, y, pins, scan_time, has_program, hist>>

\* A power cycle at any point of the loop: main() starts again.  The program
\* is reloaded from flash, if it had been committed; the device memory is not.
PowerCycle ==
    /\ phase' = "begin" /\ mode' = "RUN" /\ first_scan' = TRUE
    /\ clk' = ClockInit
    /\ relay' = [m8000 |-> FALSE, m8002 |-> FALSE, pulse |-> AllOff(Pulses),
                 down |-> AllOff(Bidirectional)]
    /\ t' = [i \in TIMERS |-> TimerZero]
    /\ c' = [i \in COUNTERS |-> CounterZero]
    /\ x' = AllOff(INPUTS) /\ y' = AllOff(OUTPUTS) /\ pins' = AllOff(OUTPUTS)
    /\ scan_time' = [cur |-> 0, min |-> 0, max |-> 0]
    /\ lap' = [before |-> ClockInit, delta |-> 0]
    /\ run' = [i \in TIMERS |-> NoRun]
    /\ scanned' = FALSE /\ seen' = {}
    /\ has_program' \in PROGRAMS

Program ==
    \/ \E i \in TIMERS, p \in PRESETS, e \in BOOLEAN : OutTimer(i, p, e)
    \/ \E i \in TIMERS : RstTimer(i)
    \/ \E i \in COUNTERS, p \in PRESETS, e \in BOOLEAN : OutCounter(i, p, e)
    \/ \E i \in COUNTERS : RstCounter(i)
    \/ \E i \in OUTPUTS, v \in BOOLEAN : WriteOutput(i, v)
    \/ \E i \in Bidirectional, v \in BOOLEAN : WriteDirection(i, v)
    \/ ProgramDone
    \/ demo_ladder

Comms ==
    \/ \E m \in {"RUN", "STOP"} : plc_scan_set_mode(m)
    \/ \E i \in OUTPUTS, v \in BOOLEAN : HostWriteOutput(i, v)
    \/ \E i \in TIMERS, v \in HOST_VALUES, b \in BOOLEAN : HostWriteTimer(i, v, b)
    \/ \E i \in COUNTERS, v \in HOST_VALUES, b \in BOOLEAN : HostWriteCounter(i, v, b)
    \/ \E b \in PROGRAMS : Download(b)
    \/ CommsDone

Next == plc_scan_begin \/ Program \/ plc_scan_end \/ Comms \/ PowerCycle

Spec == Init /\ [][Next]_vars

\* The loop keeps turning: a finite program finishes and a communications
\* pass drains a finite receive queue.  No host action is fair.
Fairness ==
    /\ WF_vars(plc_scan_begin) /\ WF_vars(plc_scan_end)
    /\ WF_vars(ProgramDone) /\ WF_vars(demo_ladder) /\ WF_vars(CommsDone)

FairSpec == Spec /\ Fairness

------------------------------------------------------------------------------
(***************************************************************************)
(* Properties                                                              *)
(***************************************************************************)

TimerType == [current : 0..TIMER_MAX, preset : 0..TIMER_MAX,
              done : BOOLEAN, driven : BOOLEAN]
CounterType == [current : COUNTER_MIN..COUNTER_MAX, preset : 0..TIMER_MAX,
                done : BOOLEAN, last_in : BOOLEAN]
RunType == [live : BOOLEAN, host : BOOLEAN, from : Nat, span : Nat, phase0 : Nat]

\* Every variable keeps its type: the widths of plc_timer_t and plc_counter_t,
\* the ranges of the carry counters of advance_ticks.
TypeOK ==
    /\ phase \in {"begin", "execute", "end", "comms"}
    /\ mode \in {"RUN", "STOP"}
    /\ first_scan \in BOOLEAN
    /\ clk \in ClockType
    /\ relay \in [m8000 : BOOLEAN, m8002 : BOOLEAN, pulse : [Pulses -> BOOLEAN],
                  down : [Bidirectional -> BOOLEAN]]
    /\ t \in [TIMERS -> TimerType]
    /\ c \in [COUNTERS -> CounterType]
    /\ x \in [INPUTS -> BOOLEAN]
    /\ y \in [OUTPUTS -> BOOLEAN]
    /\ pins \in [OUTPUTS -> BOOLEAN]
    /\ scan_time \in [cur : Nat, min : Nat, max : Nat]
    /\ has_program \in PROGRAMS
    /\ lap \in [before : ClockType, delta : Nat]
    /\ run \in [TIMERS -> RunType]
    /\ scanned \in BOOLEAN
    /\ seen \subseteq Nat

\* plc_scan.h: "In STOP the physical outputs are forced off".  At every point
\* of the loop, whatever the host forces into the Y image between two scans,
\* no pin is on while the PLC is stopped.
PinsOffInStop == mode = "STOP" => \A i \in OUTPUTS : ~pins[i]

\* The program sees M8002 in exactly one scan per entry to RUN, the first
\* complete one, and M8000 in all of them - also when the host stops and
\* restarts the PLC between two scans, or restarts it before the first scan.
InitialPulse ==
    phase = "execute" /\ mode = "RUN" => relay.m8000 /\ (relay.m8002 <=> ~scanned)

\* "Track which timer coils are evaluated this scan": once a scan has ended, a
\* non-retentive timer is non-zero or closed only if its coil was energised in
\* that very scan (host writes aside) - its OUT T may have been skipped with
\* the subroutine it is in.
NoStaleTimer ==
    phase \in {"comms", "begin"} =>
        \A i \in TIMERS :
            ~timer_is_retentive(i) /\ ~run[i].host /\ (t[i].done \/ t[i].current > 0)
                => t[i].driven

\* A timer keeps time.  While a coil is held, the time its current value
\* stands for differs from the time that really passed by less than one tick,
\* however the scans divide that time: nothing is lost in the microsecond,
\* 10 ms and 100 ms remainders, nothing is counted twice.
TimerAccuracy ==
    \A i \in TIMERS : run[i].live =>
        LET counted == (t[i].current - run[i].from) * TickUs(i)
        IN  /\ counted < run[i].span + TickUs(i)
            /\ run[i].span < counted + TickUs(i)

\* The contact of a counter says whether it has reached its set value, and a
\* 16-bit one stops there: through resets, count-downs, 32-bit wrap-around and
\* changes of mode, as long as the program gives it one set value and the host
\* does not write it.
CounterContact ==
    Cardinality(PRESETS) = 1 /\ HOST_VALUES = {} =>
        \A i \in COUNTERS :
            /\ c[i].preset # 0 => (c[i].done <=> c[i].current >= c[i].preset)
            /\ i < 200 => c[i].current <= c[i].preset

\* README: X1 is the stop button of the built-in ladder.  In the scan that sees
\* it, whatever the host has forced, seal-in, timer and counter outputs drop.
StopButton ==
    phase = "end" /\ mode = "RUN" /\ ~has_program =>
        (x[1] => ~y[0] /\ ~y[1] /\ ~y[2])

\* D8011 is the shortest scan since the last entry to RUN (not the 0 the
\* register starts with), D8010 the last one, D8012 no shorter than any.
ScanTimes ==
    phase = "comms" /\ scanned =>
        /\ scan_time.min \in seen
        /\ scan_time.cur \in seen
        /\ \A s \in seen : scan_time.min <= s /\ s <= scan_time.max

\* README: "T246-T255, and C100-C255 are retained".  A change of mode leaves
\* every retentive timer and counter exactly as it was.
RetentiveKept ==
    [][phase = "comms" /\ phase' = "comms" /\ mode' # mode =>
         /\ \A i \in TIMERS : timer_is_retentive(i) => t'[i] = t[i]
         /\ \A i \in COUNTERS : i >= 100 => c'[i] = c[i]]_vars

\* While the built-in ladder holds Y0, T0 closes sooner or later, however short
\* the scans are: the sub-tick remainders of advance_ticks add up.
TimerFires ==
    []<>(mode = "RUN" /\ ~has_program /\ y[0] => t[0].done)

------------------------------------------------------------------------------
(***************************************************************************)
(* Inductive strengthenings, used by PlcScanProofs                         *)
(***************************************************************************)

\* first_scan is armed exactly until the first RUN scan has been completed.
PulseInv ==
    /\ mode = "RUN" => (first_scan <=> ~scanned)
    /\ InitialPulse

\* The clock is one advance_ticks ahead of the clock of the previous scan.
LapInv == clk = advance_ticks(lap.before, lap.delta)

\* The exact account of a held coil: ticks counted, plus how far the clock was
\* into the next tick when the coil was last driven, equal the time passed
\* plus how far it was at the start.
RunAccount(i) ==
    /\ phase \in {"begin", "comms"} => t[i].driven
    /\ run[i].phase0 < TickUs(i)
    /\ run[i].from <= t[i].current
    /\ (t[i].current - run[i].from) * TickUs(i)
         + Phase(IF t[i].driven THEN clk ELSE lap.before, i) = run[i].span + run[i].phase0

TimerInv == \A i \in TIMERS : run[i].live => RunAccount(i)

\* The scan times at every point of the loop: a stay in RUN begins with
\* nothing seen and first_scan armed, and first_scan is never armed in STOP.
ScanTimesInv ==
    /\ first_scan => mode = "RUN"
    /\ mode = "RUN" => (first_scan <=> ~scanned)
    /\ mode = "RUN" /\ ~scanned => seen = {}
    /\ scanned => /\ scan_time.min \in seen
                  /\ scan_time.cur \in seen
                  /\ \A s \in seen : scan_time.min <= s
    /\ \A s \in seen : s <= scan_time.max

\* A counter under the only set value p: a coil that has not been driven since
\* the counter was cleared has counted nothing.
CounterExact(ctr, i, p) ==
    /\ ctr.preset \in {0, p}
    /\ ctr.preset = 0 /\ p # 0 => ctr.current = 0 /\ ~ctr.done
    /\ ctr.preset # 0 => (ctr.done <=> ctr.current >= ctr.preset)
    /\ i < 200 => ctr.current <= ctr.preset

CounterInv(p) == \A i \in COUNTERS : CounterExact(c[i], i, p)

==============================================================================
