------------------------------ MODULE FileSystem ------------------------------
(***************************************************************************)
(* The read-only file system, and a process that opens, reads and closes   *)
(* files and the directory through its descriptors.  The image (directory  *)
(* entries, inodes and data blocks) never changes.                         *)
(*                                                                         *)
(* read runs with interrupts on, but the descriptor a read works on        *)
(* belongs to the process, which makes no other call meanwhile: each call  *)
(* is one step.                                                            *)
(*                                                                         *)
(* The names of the specification begin with FS, so that a module can      *)
(* extend this one and Programs, which loads files from the image.         *)
(***************************************************************************)
EXTENDS Integers, Sequences

CONSTANTS
  BlockSize,    \* BLOCK_SIZE, 4096 in the code
  MaxDentry,    \* MAX_DENTRY, 64
  dentries,     \* boot->dentries: a sequence of names, file types and inode numbers
  inodes,       \* fs_inode: inode number -> file_size and index_num
  blocks,       \* fs_data_block: block number -> the bytes 0 .. BlockSize - 1
  Fds,          \* the descriptors open hands out
  Sizes,        \* the nbytes processes pass to read
  MaxPos        \* bound: the module follows a file position up to here

ASSUME FileSystemAssumption ==
  /\ BlockSize \in Nat \ {0} /\ MaxDentry \in Nat
  /\ Fds \subseteq Nat
  /\ Sizes \subseteq Nat

\* An image as its maker leaves it: three types of entries, and files that exist.
ASSUME ImageAssumption ==
  /\ dentries \in Seq({dentries[i] : i \in DOMAIN dentries})
  /\ \A i \in DOMAIN dentries :
       /\ dentries[i].ftype \in {"rtc", "directory", "regular"}
       /\ dentries[i].ftype = "regular" => dentries[i].inode \in DOMAIN inodes
  /\ \A n \in DOMAIN inodes : inodes[n].file_size \in Nat

Names == {dentries[i].fname : i \in DOMAIN dentries}

VARIABLES
  fda,        \* fda[fd]: what is open, its inode and file_pos
  got         \* history: what the reads on fd delivered since it was opened

fsVars == <<fda, got>>

Closed == [kind |-> "closed", inode |-> 0, file_pos |-> 0]

FSInit ==
  /\ fda = [fd \in Fds |-> Closed]
  /\ got = [fd \in Fds |-> <<>>]

-----------------------------------------------------------------------------
(* The functions on the image *)

\* read_dentry_by_name: the first entry with that name.
DentryByName(name) ==
  dentries[CHOOSE i \in DOMAIN dentries :
             dentries[i].fname = name /\ \A j \in 1 .. i - 1 : dentries[j].fname # name]

\* read_dentry_by_index, which counts from 0.
HasDentry(index) == index < Len(dentries)
DentryByIndex(index) == dentries[index + 1]

\* Mutant of ByteAt: the block is not looked up.
ByteInOrder(inode, offset) == blocks[offset \div BlockSize][offset % BlockSize]

ByteAt(inode, offset) == blocks[inodes[inode].index_num[offset \div BlockSize]][offset % BlockSize]

\* read_data stops when the offset has passed the size, not when it has reached it.
BytesRead(inode, offset, length) ==
  LET rest == inodes[inode].file_size - offset + 1
  IN  IF inode \notin DOMAIN inodes THEN 0
      ELSE IF offset >= inodes[inode].file_size THEN 0
      ELSE IF length < rest THEN length ELSE rest

ReadData(inode, offset, length) ==
  [k \in 1 .. BytesRead(inode, offset, length) |-> ByteAt(inode, offset + k - 1)]

-----------------------------------------------------------------------------
(* System calls *)

LowestFree == CHOOSE fd \in Fds : fda[fd].kind = "closed" /\ \A g \in Fds : g < fd => fda[g].kind # "closed"

\* Mutant of Opened: the position of the last file on this descriptor is kept.
OpenedWhereLeft(fd, dentry) ==
  [fda[fd] EXCEPT !.kind = dentry.ftype,
                  !.inode = IF dentry.ftype = "regular" THEN dentry.inode ELSE @]

\* open leaves the inode alone unless the file is a regular one.
Opened(fd, dentry) ==
  [fda[fd] EXCEPT !.kind = dentry.ftype, !.file_pos = 0,
                  !.inode = IF dentry.ftype = "regular" THEN dentry.inode ELSE @]

Open(name) ==
  /\ \E fd \in Fds : fda[fd].kind = "closed"
  /\ fda' = [fda EXCEPT ![LowestFree] = Opened(LowestFree, DentryByName(name))]
  /\ got' = [got EXCEPT ![LowestFree] = <<>>]

\* close marks the descriptor as free and leaves the rest of it.
Close(fd) ==
  /\ fda[fd].kind # "closed"
  /\ fda' = [fda EXCEPT ![fd].kind = "closed"]
  /\ UNCHANGED got

ReadFile(fd, nbytes) ==
  LET data == ReadData(fda[fd].inode, fda[fd].file_pos, nbytes)
  IN  /\ fda[fd].kind = "regular"
      /\ fda[fd].file_pos <= MaxPos
      /\ fda' = [fda EXCEPT ![fd].file_pos = @ + nbytes]
      /\ got' = [got EXCEPT ![fd] = @ \o data]

\* Mutant of NextEntry: the position is not moved.
NextEntryNot(position) == position

NextEntry(position) == position + 1

\* read_dir copies a whole name and returns nbytes, whatever nbytes is.
ReadDir(fd) ==
  LET position == fda[fd].file_pos
  IN  /\ fda[fd].kind = "directory"
      /\ HasDentry(position) /\ position < MaxDentry
      /\ fda' = [fda EXCEPT ![fd].file_pos = NextEntry(position)]
      /\ got' = [got EXCEPT ![fd] = Append(@, DentryByIndex(position).fname)]

-----------------------------------------------------------------------------

FSNext ==
  \/ \E name \in Names : Open(name)
  \/ \E fd \in Fds :
       \/ Close(fd)
       \/ \E nbytes \in Sizes : ReadFile(fd, nbytes)
       \/ ReadDir(fd)

FSSpec == FSInit /\ [][FSNext]_fsVars

-----------------------------------------------------------------------------
(* Properties *)

\* A file by its definition: its blocks one after the other, cut at its size.
FileOf(inode) ==
  [k \in 1 .. inodes[inode].file_size |->
     LET block == inodes[inode].index_num[(k - 1) \div BlockSize]
     IN  blocks[block][(k - 1) % BlockSize]]

PrefixUpTo(s, n) == SubSeq(s, 1, IF Len(s) < n THEN Len(s) ELSE n)

\* Whatever sizes it is read in, and whatever else is opened and closed meanwhile,
\* what the reads of an open file deliver is the file from its beginning, and after
\* its last byte at most one more, which read_data's test lets through (open,
\* read_file, read_data).
ReadsDeliverFile ==
  \A fd \in Fds : fda[fd].kind = "regular" =>
    LET size == inodes[fda[fd].inode].file_size
    IN  /\ Len(got[fd]) <= size + 1
        /\ PrefixUpTo(got[fd], size) = PrefixUpTo(FileOf(fda[fd].inode), Len(got[fd]))

\* Reading an open directory delivers the names in order, each once (open, read_dir,
\* read_dentry_by_index).
ReadsListDirectory ==
  \A fd \in Fds : fda[fd].kind = "directory" =>
    got[fd] = PrefixUpTo([i \in DOMAIN dentries |-> dentries[i].fname], Len(got[fd]))

================================================================================
