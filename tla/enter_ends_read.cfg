\* Keys at any time, under the fairness of the timer and of the processor.
SPECIFICATION FairSpec
CONSTANTS
  MaxTerminals = 2
  BufSize = 1
  TabWidth = 2
  space = space
  newline = newline
  nul = nul
  one = one
  Keys = {}
  ReadSizes = {1}
  Patient = FALSE
INVARIANT LineBound
PROPERTY EnterEndsRead
