\* The three terminals of the code, which the boot order depends on.
SPECIFICATION FairSpec
CONSTANTS
  MaxTerminals = 3
  Burst = 2
INVARIANTS
  InServiceIsHandled
  NoStrayInterrupt
  RtcNotSilent
PROPERTY RequestsServed
