CONSTANTS
  US_PER_MS = 2
  BASE_10 = 2
  BASE_100 = 3
  CLOCK_WRAP = 1
  TIMERS = {0}
  COUNTERS = {}
  INPUTS = {}
  OUTPUTS = {0}
  PRESETS = {0, 2}
  HOST_VALUES = {3}
  PROGRAMS = {TRUE}
  DELTAS = {1, 3}
  TRACKED = {0}
  TENTHS = {1}
  PERIOD <- MCNoPulses
  TIMER_MAX = 3
  COUNTER_MAX = 3
  DEMO_T = 2
  DEMO_C = 2
SPECIFICATION Spec
INVARIANTS PinsOffInStop InitialPulse NoStaleTimer TimerAccuracy
