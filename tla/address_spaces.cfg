\* Two terminals, one pid for a child, two values for what a page holds.
SPECIFICATION Spec
CONSTANTS
  MaxTerminals = 2
  MaxProcesses = 3
  Contents = {a, b}
SYMMETRY ContentSymmetry
INVARIANTS
  NoStaleTranslation
  UserReach
  CommandIsCallers
PROPERTY ImplementsAddressSpaces
