\* Two terminals, two descriptors, one child, periods of two and of four real
\* interrupts, under the fairness of both timers and of the processor.
SPECIFICATION FairSpec
CONSTANTS
  MaxTerminals = 2
  MaxChildren = 1
  Fds = {2, 3}
  FileKinds = {"rtc"}
  HighestFreq = 8
  ByteValues = 8
  Freqs = {4, 7}
  UintMax = 15
INVARIANTS
  TypeOK
  ActiveIsArmed
  ActiveHasOwner
PROPERTY ActiveReadReturns
