SPECIFICATION Spec
CONSTANTS
  a = a
  b = b
  Manager = Manager
  None = None
  Installers <- TwoInstallers
  RetryThreshold = 1
  Prompt = FALSE
  Asked <- AllRequests
  MaxRequests = 2
  MaxVersion = 2
INVARIANTS TypeOK OutcomeIsReported
PROPERTIES CurrentMovesForward NoRequestLost
SYMMETRY Symmetry
CHECK_DEADLOCK FALSE
