\* Two terminals with two lines of two characters; processes write backspaces too.
SPECIFICATION Spec
CONSTANTS
  MaxTerminals = 2
  NumRows = 2
  NumCols = 2
  Chars = {a}
  blank = blank
  newline = newline
  backspace = backspace
  Controls = {newline, backspace}
INVARIANTS
  TypeOK
  BlinksAtVisible
PROPERTIES
  PageLostAtOrigin
  ImplementsConsoles
