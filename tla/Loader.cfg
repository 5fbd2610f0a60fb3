CONSTANTS
  H = 2
  BusWrites <- MCBusWrites
  Targets <- MCTargets
  Coefs <- MCCoefs
  STEP_FREQ = 40
  ACC_FREQ = 20
  QUEUE_LEN = 2
  STEP_BIT = 1
  PRE_N = 1
  PULSE_N = 3
  POST_N = 1
  Typed <- MCTyped
  Commands <- MCCommands
  CMDLINE_BUFFERSIZE = 4
  CMDLINE_HISTORYSIZE = 2
  Blocks <- MCBlocks
  RESPONSE_TRIES = 4
  MMC_TIMEOUT = 4
  LOW = 2
  HIGH = 2
SPECIFICATION MCSpec
INVARIANTS
  IdleAtRest
  LoadUntorn
  LoadConfigured
  IndicesInArrays
  ScreenShowsLine
  ArgumentsOfLine
  ReadyAfterSuccess
PROPERTIES
  ServesQueue
  CoastingEnds
  HistoryKept
  EditsLikeLineEditor
  ReadGenuine
  RoutineReturns
