SPECIFICATION FairSpec
CONSTANTS
  a = a
  b = b
  Manager = Manager
  None = None
  Installers <- OneInstaller
  RetryThreshold = 2
  Prompt = TRUE
  Asked <- NoPurge
  MaxRequests = 2
  MaxVersion = 3
PROPERTY Handled
CHECK_DEADLOCK FALSE
