----------------------------- MODULE MCFileSystem -----------------------------
(***************************************************************************)
(* A small image for FileSystem: a directory, an empty file, a file that   *)
(* ends inside a block and one that fills its blocks, with the blocks of   *)
(* the files interleaved.                                                  *)
(***************************************************************************)
EXTENDS FileSystem

MCDentries ==
  << [fname |-> "dir",   ftype |-> "directory", inode |-> 0],
     [fname |-> "empty", ftype |-> "regular",   inode |-> 0],
     [fname |-> "part",  ftype |-> "regular",   inode |-> 1],
     [fname |-> "full",  ftype |-> "regular",   inode |-> 2] >>

\* Unused entries of index_num are 0.
Index(used) == [i \in 0 .. 3 |-> IF i < Len(used) THEN used[i + 1] ELSE 0]

MCInodes ==
  [i \in 0 .. 2 |->
     CASE i = 0 -> [file_size |-> 0, index_num |-> Index(<<>>)]
       [] i = 1 -> [file_size |-> 3, index_num |-> Index(<<3, 1>>)]
       [] i = 2 -> [file_size |-> 4, index_num |-> Index(<<4, 2>>)]]

MCBlocks == [b \in 0 .. 4 |-> [i \in 0 .. 1 |-> <<b, i>>]]

===============================================================================
