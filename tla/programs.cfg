\* One base shell and two more pids, every short command and two longer ones.
SPECIFICATION Spec
CONSTANTS
  Addresses <- MCAddresses
  LibBytes <- MCBytes
  MaxString = 3
  WordBits = 8
  MaxTerminals = 1
  MaxProcesses = 3
  MaxArgs = 2
  FnameLength = 2
  space = 32
  Directory <- MCDirectory
  Files <- MCFiles
  LoadSize = 4
  PageSize = 5
  ElfMagic <- Magic
  Commands <- MCCommands
  ShellCommand <- Shell
INVARIANTS
  ArgsOfCommand
  RunsNamedFile
  LibraryFunctions
