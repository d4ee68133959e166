\* Two terminals, lines of up to two characters and the newline, readers whose
\* buffers hold a line exactly or with room to spare.
SPECIFICATION Spec
CONSTANTS
  MaxTerminals = 2
  BufSize = 3
  TabWidth = 2
  space = space
  newline = newline
  nul = nul
  one = one
  Keys = {a}
  ReadSizes = {3, 5}
  Patient = TRUE
VIEW InputView
INVARIANT FlagHasReader
PROPERTY DeliversLines
