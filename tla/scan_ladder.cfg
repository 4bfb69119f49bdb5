CONSTANTS
  US_PER_MS = 2
  BASE_10 = 1
  BASE_100 = 2
  CLOCK_WRAP = 2
  TIMERS = {0}
  COUNTERS = {0}
  INPUTS = {0, 1}
  OUTPUTS = {0, 1, 2, 6}
  PRESETS = {}
  HOST_VALUES = {1}
  PROGRAMS = {FALSE}
  DELTAS = {1, 3}
  TRACKED = {}
  TENTHS = {1}
  PERIOD <- MCPulses
  TIMER_MAX = 3
  COUNTER_MAX = 3
  DEMO_T = 2
  DEMO_C = 2
SPECIFICATION FairSpec
INVARIANT StopButton
 
