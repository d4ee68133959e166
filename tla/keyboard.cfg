\* Two terminals, lines of a character and the newline, two modifiers held at a time.
SPECIFICATION Spec
CONSTANTS
  MaxTerminals = 2
  BufSize = 2
  TabWidth = 2
  Codes <- FewCodes
  Modifiers <- FewModifiers
  MaxHeld = 2
  Prompt <- ShortPrompt
  text = text
  Unhurried = TRUE
INVARIANTS
  TypeOK
  NoStuckModifier
  EchoIsLine
  OnlyTypedAheadRecurs
PROPERTY TypesAsEngraved
