------------------------------ MODULE MCPrograms ------------------------------
(***************************************************************************)
(* TLC instance of Programs, and of the functions of KernelLib.            *)
(***************************************************************************)
EXTENDS Programs

MCAddresses == 0 .. 13
MCBytes     == {0, 97, 98}

\* Characters, and a string of length n followed by zeros up to size.
Str(text, size) == [i \in 0 .. size |-> IF i < Len(text) THEN text[i + 1] ELSE 0]

\* Every command of up to three characters, a name longer than the directory has,
\* and spaces before and after everything with more arguments than fit.
MCCommands ==
  {Str(text, Len(text)) : text \in UNION {[1 .. n -> {32, 97, 98}] : n \in 0 .. 3}}
    \cup {Str(<<97, 98, 97, 32, 98, 97>>, 6),
          Str(<<32, 97, 32, 32, 98, 97, 98, 32>>, 8)}

Shell == Str(<<97>>, 1)

Magic == <<127, 69>>

\* Names of two bytes and, behind them, the file type: the shell, a program whose
\* name is as long as a name can be and begins with the shell's, a text, and a file
\* without contents.
MCDirectory ==
  << [fname |-> Str(<<97, 0, 2>>, 2),  inode |-> 1],
     [fname |-> Str(<<97, 98, 2>>, 2), inode |-> 2],
     [fname |-> Str(<<98, 0, 2>>, 2),  inode |-> 3],
     [fname |-> Str(<<98, 98, 0>>, 2), inode |-> 0] >>

\* A program longer than what is loaded of it, one that is shorter, a text that
\* begins like a program.
MCFiles ==
  [i \in 0 .. 3 |->
     CASE i = 0 -> [file_size |-> 0, data |-> Str(<<>>, 0)]
       [] i = 1 -> [file_size |-> 5, data |-> Str(<<127, 69, 1, 2, 3>>, 5)]
       [] i = 2 -> [file_size |-> 3, data |-> Str(<<127, 69, 4, 9>>, 3)]
       [] i = 3 -> [file_size |-> 4, data |-> Str(<<127, 5, 5, 5>>, 4)]]

===============================================================================
