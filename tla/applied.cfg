CONSTANTS
  WIDTH = 4
  PLC_NUM_D = 6
  NUM_BITS = 8
  INDEX = 5
  FIFO = 0
  FIFO_LEN = 4
  FIFO_OUT = 4
  PROGRAMS <- MCPrograms
SPECIFICATION Spec
PROPERTIES Footprint MovesAsOne Computes ImplementsQueue
