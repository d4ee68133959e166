\* Two terminals and one pid for a child, under the fairness of the timer.
SPECIFICATION FairSpec
CONSTANTS
  MaxProcesses = 3
  MaxTerminals = 2
  QuickBoot = TRUE
INVARIANT TypeOK
PROPERTIES
  BootCompletes
  EveryTerminalRuns
