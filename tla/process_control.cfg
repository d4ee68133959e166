\* Three terminals as in the code, and two pids for children on top of the base
\* shells: children on two terminals at once, or one started by the other.
SPECIFICATION Spec
CONSTANTS
  MaxProcesses = 5
  MaxTerminals = 3
  QuickBoot = TRUE
VIEW ControlView
INVARIANTS
  BootOrder
  ProcessorServesScheduled
  ParentWaits
  NoProcessLost
  SavedFrames
  NoForeignBuffer
PROPERTY ImplementsJobStacks
