CONSTANTS
  PROGRAMS <- MCPrograms
  PROGRAM_WORDS = 60
  BITS <- MCBits
  NUM_D = 1
  WORD = 4
  BRANCH_DEPTH = 2
  BLOCK_DEPTH = 4
  CALL_STACK_DEPTH = 3
  STL_MAX_SOURCES = 2
SPECIFICATION FairSpec
INVARIANTS TypeOK   PulseExact LegalMarking
PROPERTIES InactiveIsolation ScanTerminates
