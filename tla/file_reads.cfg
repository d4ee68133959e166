\* Two descriptors on an image of three files and the directory, blocks of two
\* bytes, reads that end inside, at and past a block and the file.
SPECIFICATION FSSpec
CONSTANTS
  BlockSize = 2
  MaxDentry = 64
  dentries <- MCDentries
  inodes <- MCInodes
  blocks <- MCBlocks
  MaxPos = 5
  Fds = {2, 3}
  Sizes = {0, 1, 3, 4}
INVARIANTS
  ReadsDeliverFile
  ReadsListDirectory
