CONSTANTS
  PROGRAMS <- MCStlComparePrograms
  PROGRAM_WORDS = 60
  BITS <- MCBits
  NUM_D = 1
  WORD = 4
  BRANCH_DEPTH = 2
  BLOCK_DEPTH = 16
  CALL_STACK_DEPTH = 2
  STL_MAX_SOURCES = 2
SPECIFICATION Spec
PROPERTY InactiveIsolation
