SPECIFICATION LogFairSpec
CONSTANTS
  stdout = stdout
  Startup = Startup
  Stop = Stop
  Outputs <- OneOutput
  MaxLines = 4
  BatchSize = 2
  Window = 1
INVARIANTS LogTypeOK LogIsOutput ShutdownFlushes
PROPERTIES WriterDelivers
