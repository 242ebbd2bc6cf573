SPECIFICATION Spec
CONSTANTS
  a = a
  b = b
  Manager = Manager
  None = None
  Installers <- TwoInstallers
  RetryThreshold = 1
  Prompt = FALSE
  Asked <- AllRequests
  MaxRequests = 3
  MaxVersion = 3
PROPERTY WithdrawalStands
CHECK_DEADLOCK FALSE
