SPECIFICATION Spec
CONSTANTS
  MaxProcesses = 3
  MaxTerminals = 2
  QuickBoot = TRUE
INVARIANT ExceptionReported
