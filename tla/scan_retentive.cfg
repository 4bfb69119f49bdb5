CONSTANTS
  US_PER_MS = 1
  BASE_10 = 1
  BASE_100 = 1
  CLOCK_WRAP = 1
  TIMERS = {250}
  COUNTERS = {0, 200}
  INPUTS = {}
  OUTPUTS = {}
  PRESETS = {2}
  HOST_VALUES = {}
  PROGRAMS = {TRUE}
  DELTAS = {1}
  TRACKED = {}
  TENTHS = {1, 2}
  PERIOD <- MCNoPulses
  TIMER_MAX = 3
  COUNTER_MAX = 3
  DEMO_T = 2
  DEMO_C = 2
SPECIFICATION Spec
INVARIANTS CounterContact ScanTimes
 
