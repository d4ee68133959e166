------------------------------- MODULE Programs -------------------------------
(***************************************************************************)
(* What a command starts: execute takes the command apart, finds the       *)
(* program in the directory, loads it into the page of a free pid and      *)
(* checks that it is an executable; getargs hands the arguments to the     *)
(* program.  A free pid keeps the PCB and the page of the last process     *)
(* that had it.                                                            *)
(*                                                                         *)
(* execute, halt and getargs run with interrupts off and are one step      *)
(* each.  ProcessControl has the records by which they find their way      *)
(* back, Paging the page tables.  The module starts with all base shells   *)
(* booted.                                                                 *)
(***************************************************************************)
EXTENDS KernelLib, FiniteSets

CONSTANTS
  MaxTerminals,  \* MAX_TERMINALS in terminal.h
  MaxProcesses,  \* MAX_PROCESSES in system_calls.h
  MaxArgs,       \* MAX_ARGS in system_calls.h, 100 in the code
  FnameLength,   \* FNAME_LENGTH in file_system.h, 32 in the code
  space,         \* the character ' '
  Directory,     \* boot->dentries: fname, its bytes and the one that follows them, and inode
  Files,         \* inode number -> file_size, and the bytes of its blocks
  LoadSize,      \* how many bytes execute loads, 100000 in the code
  PageSize,      \* how much of a program page the module looks at
  ElfMagic,      \* the first bytes of an executable
  Commands,      \* the commands given to execute
  ShellCommand   \* the one halt gives it to restart a base shell

\* Bytes with a 0 at the end, or before.
IsString(s) == \E n \in DOMAIN s : s \in [0 .. n -> Nat] /\ s[n] = 0

ASSUME ProgramsAssumption ==
  /\ MaxTerminals \in Nat \ {0} /\ MaxProcesses \in Nat /\ MaxTerminals <= MaxProcesses
  /\ MaxArgs \in Nat \ {0} /\ FnameLength \in Nat \ {0} /\ space \in Nat \ {0}
  /\ LoadSize \in Nat /\ PageSize \in Nat
  /\ Len(ElfMagic) \in Nat /\ Len(ElfMagic) <= LoadSize /\ Len(ElfMagic) <= PageSize
  /\ \A s \in Commands \cup {ShellCommand} : IsString(s)

\* An image as its maker leaves it: no name is empty, and an entry names a file.
ASSUME DirectoryAssumption ==
  /\ DOMAIN Directory \subseteq Nat
  /\ \A i \in DOMAIN Directory :
       /\ Directory[i].fname \in [0 .. FnameLength -> Nat] /\ Directory[i].fname[0] # 0
       /\ Directory[i].inode \in DOMAIN Files
  /\ \A n \in DOMAIN Files : Files[n].file_size \in Nat

Pid        == 0 .. MaxProcesses - 1
BaseShells == 0 .. MaxTerminals - 1

VARIABLES
  processes,  \* the pids in use
  parent,     \* parent[p]: the process that waits for p; p itself for a base shell
  arg,        \* arg[p]: the field of p's PCB
  page,       \* page[p]: p's program page from PROG_IMG_ADDR on
  command     \* history: the command that started p

vars == <<processes, parent, arg, page, command>>

-----------------------------------------------------------------------------
(* The command *)

\* The first position from i on that is not a space.
AfterSpaces(s, i) ==
  LET skip[k \in Nat] == IF s[k] = space THEN skip[k + 1] ELSE k
  IN  skip[i]

\* The first position from i on that is a space or the end.
AfterWord(s, i) ==
  LET skip[k \in Nat] == IF s[k] \in {0, space} THEN k ELSE skip[k + 1]
  IN  skip[i]

\* exec_name, as long as the command and filled up with 0.
ExecName(s) ==
  LET first == AfterSpaces(s, 0)
      after == AfterWord(s, first)
      zeros == Memset([i \in 0 .. Strlen(s) |-> 1], 0, 0, Strlen(s) + 1)
  IN  [i \in DOMAIN zeros |-> IF i < after - first THEN s[first + i] ELSE zeros[i]]

\* Mutant of Cleared: what the last process with this PCB was given stays in arg.
ClearedNot(old) == old

Cleared(old) == Memset(old, 0, 0, MaxArgs)

\* The arguments: what follows the name and spaces, spaces at its end included, up to
\* MAX_ARGS characters.
ParsedArgs(s, old) ==
  LET name  == AfterWord(s, AfterSpaces(s, 0))
      first == IF s[name] = 0 THEN name ELSE AfterSpaces(s, name + 1)
      n     == Strlen(s) - first
  IN  [j \in 0 .. MaxArgs - 1 |-> IF j < n THEN s[first + j] ELSE Cleared(old)[j]]

-----------------------------------------------------------------------------
(* The file *)

SameName(fname, name) == Strncmp(fname, name, FnameLength) = 0

\* read_dentry_by_name: the entries with the name, of which it takes the first.
Matches(name) ==
  IF Strlen(name) > FnameLength THEN {}
  ELSE {i \in DOMAIN Directory : SameName(Directory[i].fname, name)}

\* The inode of the first entry with the name of a command.
InodeNamed(s) ==
  LET found == Matches(ExecName(s))
  IN  Directory[CHOOSE i \in found : \A j \in found : i <= j].inode

\* read_data from the start of a file: one byte past its end is read too.
LoadedBytes(inode, length) ==
  LET size == Files[inode].file_size
  IN  IF size = 0 THEN 0 ELSE IF length <= size THEN length ELSE size + 1

Loaded(inode, old) ==
  [k \in DOMAIN old |-> IF k < LoadedBytes(inode, LoadSize) THEN Files[inode].data[k] ELSE old[k]]

\* What elf_check holds before it is read into: it is a local variable, and execute
\* may have left it there when it was called before.
Stack == {ElfMagic, [i \in 1 .. Len(ElfMagic) |-> 0]}

\* Mutant of IsElf: only the first byte is looked at.
IsElfFirst(inode, left) == LoadedBytes(inode, Len(ElfMagic)) > 0 => Files[inode].data[0] = ElfMagic[1]

IsElf(inode, left) ==
  \A i \in 1 .. Len(ElfMagic) :
    (IF i <= LoadedBytes(inode, Len(ElfMagic)) THEN Files[inode].data[i - 1] ELSE left[i])
      = ElfMagic[i]

-----------------------------------------------------------------------------

\* execute of s by a process on which p will wait, with the pids in taken in use.
\* What fails after the PCB has been prepared leaves it, and the page, changed.
Start(p, s, taken) ==
  LET next  == CHOOSE q \in Pid \ taken : \A r \in Pid \ taken : q <= r
      inode == InodeNamed(s)
  IN  /\ arg' = [arg EXCEPT ![next] = ParsedArgs(s, @)]
      /\ IF Matches(ExecName(s)) = {} THEN UNCHANGED <<processes, parent, page, command>>
         ELSE /\ page' = [page EXCEPT ![next] = Loaded(inode, @)]
              /\ \E left \in Stack :
                   IF IsElf(inode, left)
                   THEN /\ processes' = taken \cup {next}
                        /\ parent' = [parent EXCEPT ![next] = IF next \in BaseShells THEN next ELSE p]
                        /\ command' = [command EXCEPT ![next] = s]
                   ELSE UNCHANGED <<processes, parent, command>>

Running(p) == p \in processes /\ \A q \in processes : parent[q] = p => q = p

Execute(p, s) ==
  /\ Running(p)
  /\ processes # Pid
  /\ Start(p, s, processes)

\* halt, by the system call or an exception; a base shell is started again.
Halt(p) ==
  /\ Running(p)
  /\ IF p \in BaseShells THEN Start(p, ShellCommand, processes \ {p})
     ELSE processes' = processes \ {p} /\ UNCHANGED <<parent, arg, page, command>>

NoArgs  == [j \in 0 .. MaxArgs - 1 |-> 0]
NoImage == [k \in 0 .. PageSize - 1 |-> 0]

\* halt and the boot say "shell", and there is such a program.
ASSUME ShellAssumption ==
  /\ \A i \in DOMAIN ShellCommand : ShellCommand[i] # space
  /\ Matches(ExecName(ShellCommand)) # {}
  /\ Files[InodeNamed(ShellCommand)].file_size >= Len(ElfMagic)
  /\ \A left \in Stack : IsElf(InodeNamed(ShellCommand), left)

Init ==
  /\ processes = BaseShells
  /\ parent = [p \in Pid |-> p]
  /\ arg = [p \in Pid |-> NoArgs]
  /\ page = [p \in Pid |-> IF p \in BaseShells THEN Loaded(InodeNamed(ShellCommand), NoImage) ELSE NoImage]
  /\ command = [p \in Pid |-> ShellCommand]

Next == \E p \in Pid : Halt(p) \/ \E s \in Commands : Execute(p, s)

Spec == Init /\ [][Next]_vars

\* Whether getargs succeeds, and what it writes: nbytes from arg on, of which only
\* the first MAX_ARGS are arg (255 stands for the fields behind it).
GetargsOk(p, nbytes) == nbytes >= MaxArgs /\ arg[p][0] # 0

Getargs(p, nbytes) ==
  LET memory == [a \in 0 .. 2 * nbytes - 1 |-> IF a < MaxArgs THEN arg[p][a] ELSE 255]
      copied == Memcpy(memory, nbytes, 0, nbytes)
  IN  [j \in 0 .. nbytes - 1 |-> copied[nbytes + j]]

-----------------------------------------------------------------------------
(* Properties *)

\* The type invariant.
TypeOK ==
  /\ BaseShells \subseteq processes /\ processes \subseteq Pid
  /\ parent \in [Pid -> Pid]
  /\ DOMAIN arg = Pid /\ DOMAIN page = Pid /\ DOMAIN command = Pid
  /\ \A p \in Pid : DOMAIN arg[p] = 0 .. MaxArgs - 1 /\ DOMAIN page[p] = 0 .. PageSize - 1

Text(s)   == [i \in 1 .. Strlen(s) |-> s[i - 1]]
Spaces(n) == [i \in 1 .. n |-> space]

\* The command is: spaces, the name, and if there are arguments spaces before them.
IsParse(s, name, args) ==
  /\ name # <<>> /\ \A i \in DOMAIN name : name[i] # space
  /\ args # <<>> => args[1] # space
  /\ \E m, n \in 0 .. Len(Text(s)) :
       /\ Text(s) = Spaces(m) \o name \o Spaces(n) \o args
       /\ args # <<>> => n > 0

\* The parts of the text of a command.
Parts(s) == {SubSeq(Text(s), i, j) : i \in 1 .. Len(Text(s)) + 1, j \in 0 .. Len(Text(s))}

\* Every process is given the arguments of the command that started it: as many as
\* fit, filled up with zeros, and nothing of an earlier process that had its pid;
\* getargs fails if and only if there are none (execute, getargs).
ArgsOfCommand ==
  \A p \in processes, nbytes \in {MaxArgs, MaxArgs + 3} :
    \E name, args \in Parts(command[p]) :
      /\ IsParse(command[p], name, args)
      /\ GetargsOk(p, nbytes) <=> args # <<>>
      /\ GetargsOk(p, nbytes) =>
           \A j \in 1 .. MaxArgs :
             Getargs(p, nbytes)[j - 1] = IF j <= Len(args) THEN args[j] ELSE 0

NameIs(fname, name) ==
  /\ Len(name) <= FnameLength
  /\ \A i \in 1 .. Len(name) : fname[i - 1] = name[i]
  /\ Len(name) < FnameLength => fname[Len(name)] = 0

\* In the page of every process lies the file its command names, and that is an
\* executable, whatever was loaded there before and whatever failed meanwhile: if the
\* file is long enough to say so.  A shorter one leaves elf_check undefined
\* (execute, read_dentry_by_name, read_data).
RunsNamedFile ==
  \A p \in processes :
    \E name \in Parts(command[p]), args \in Parts(command[p]), i \in DOMAIN Directory :
      LET file == Files[Directory[i].inode]
          size == file.file_size
      IN  /\ IsParse(command[p], name, args)
          /\ NameIs(Directory[i].fname, name)
          /\ \A k \in 0 .. PageSize - 1 : k < size /\ k < LoadSize => page[p][k] = file.data[k]
          /\ size >= Len(ElfMagic) => \A k \in 1 .. Len(ElfMagic) : page[p][k - 1] = ElfMagic[k]

\* The functions this module is built from, and the ones that print, do what their
\* callers take them for.  That is about data and not about states: the initial
\* one is enough to look at it (lib.c).
LibraryFunctions == Init => MemoryFunctions /\ StringFunctions /\ NumbersPrinted

===============================================================================
