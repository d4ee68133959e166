-------------------------------- MODULE Paging --------------------------------
(***************************************************************************)
(* The pages the kernel remaps while it runs (the program page at 128MB,   *)
(* the user's video page at 256MB and its own video page at 0xB8000), the  *)
(* translations the processor has cached of them, and what is in the       *)
(* memory behind them.                                                     *)
(*                                                                         *)
(* A handler or a system call is the list of the steps it has still to     *)
(* make: no other handler starts before it is done, but the processor may  *)
(* cache a translation between any two of them.  The module starts when    *)
(* the last terminal has just been booted.                                 *)
(***************************************************************************)
EXTENDS Integers, Sequences, SequencesExt

CONSTANTS
  MaxTerminals,   \* MAX_TERMINALS in terminal.h
  MaxProcesses,   \* pids, 6 in the code
  Contents        \* what a page can hold

ASSUME PagingAssumption ==
  /\ MaxTerminals \in Nat \ {0}
  /\ MaxProcesses \in Nat /\ MaxProcesses >= MaxTerminals
  /\ Contents # {}

Terminals == 0 .. MaxTerminals - 1
Pids      == 0 .. MaxProcesses - 1

\* Page frames: VGA memory (0xB8), the buffers behind it (0xB9 ..), the programs.
Vga        == <<"vga", 0>>
Buffer(t)  == <<"buffer", t>>
Program(p) == <<"program", p>>
Frames == {Vga} \cup {Buffer(t) : t \in Terminals} \cup {Program(p) : p \in Pids}

\* The remapped pages.  User code reaches the first two, init_paging makes the
\* rest of the directory absent or the kernel's own.
UserPages == {"program", "video"}
Pages     == UserPages \cup {"vidmem"}

VARIABLES
  page,       \* the entry of each page of the tables
  tlb,        \* the translations that are cached
  memory,     \* what the frames hold
  todo,       \* the steps left of the handler or system call that runs
  scheduled_terminal, visible_terminal,
  jobs,       \* jobs[t]: the processes of t, the one that runs last
  called_vidmap

state == <<scheduled_terminal, visible_terminal, jobs, called_vidmap>>
vars  == <<page, tlb, memory, todo, state>>

Running == Last(jobs[scheduled_terminal])

Init ==
  /\ page = [v \in Pages |->
               CASE v = "vidmem"  -> [present |-> TRUE, frame |-> Vga]
                 [] v = "program" -> [present |-> TRUE, frame |-> Program(MaxTerminals - 1)]
                 [] v = "video"   -> [present |-> FALSE, frame |-> Vga]]
  /\ tlb = <<>>
  /\ \E c \in Contents : memory = [f \in Frames |-> c]
  /\ todo = <<>>
  /\ scheduled_terminal = MaxTerminals - 1
  /\ visible_terminal = MaxTerminals - 1
  /\ jobs = [t \in Terminals |-> <<t>>]
  /\ called_vidmap = {}

-----------------------------------------------------------------------------
(* The processor *)

\* It may cache the translation of a present page whenever it likes.
Fill(v) ==
  /\ v \notin DOMAIN tlb
  /\ page[v].present
  /\ tlb' = [w \in DOMAIN tlb \cup {v} |-> IF w = v THEN page[v] ELSE tlb[w]]
  /\ UNCHANGED <<page, memory, todo, state>>

\* Where an access to v goes.
Translation(v) == IF v \in DOMAIN tlb THEN tlb[v] ELSE page[v]

-----------------------------------------------------------------------------
(* paging.c: what its functions have to do, step by step *)

\* Mutant of set_user_prog_page: the old translation may survive.
ProgPageUnflushed(pid, present_flag) ==
  << <<"present", "program", present_flag>>, <<"frame", "program", Program(pid)>> >>

set_user_prog_page(pid, present_flag) ==
  << <<"present", "program", present_flag>>, <<"frame", "program", Program(pid)>>, <<"flush">> >>

\* Mutant of FrameOf: the screen's page is counted twice.
FrameOfPast(t, visible) == IF t = visible THEN Vga ELSE Buffer(t + 1)

\* The frame of a terminal's text while `visible' is on the screen.
FrameOf(t, visible) == IF t = visible THEN Vga ELSE Buffer(t)

set_user_video_page(t) ==
  << <<"present", "video", TRUE>>, <<"frame", "video", FrameOf(t, visible_terminal)>>, <<"flush">> >>

redirect_vidmem_page(t) ==
  << <<"frame", "vidmem", FrameOf(t, visible_terminal)>>, <<"flush">> >>

\* Mutant of change_terminal_video_page: the new screen is fetched before the old is kept.
ChangeFetchFirst(from, to) ==
  << <<"fetch", Buffer(to)>>, <<"keep", Buffer(from)>>, <<"flush">> >>

change_terminal_video_page(from, to) ==
  << <<"keep", Buffer(from)>>, <<"fetch", Buffer(to)>>, <<"flush">> >>

-----------------------------------------------------------------------------
(* What runs while no handler does: the process on the scheduled terminal *)

Idle == todo = <<>>

\* The process writes its program page, or the video page if that is present.
UserStore(v, c) ==
  /\ Idle
  /\ v \in UserPages
  /\ Translation(v).present
  /\ memory' = [memory EXCEPT ![Translation(v).frame] = c]
  /\ UNCHANGED <<page, tlb, todo, state>>

PutBehind(t, c) ==
  redirect_vidmem_page(t) \o << <<"put", c, t>> >> \o redirect_vidmem_page(visible_terminal)

\* putc for a process: redirected unless its terminal is on the screen.  (The early
\* return of a backspace is Display's.)
Write(c) ==
  /\ Idle
  /\ todo' = IF scheduled_terminal = visible_terminal THEN << <<"put", c, visible_terminal>> >>
             ELSE PutBehind(scheduled_terminal, c)
  /\ UNCHANGED <<page, tlb, memory, state>>

\* The address goes into the caller's program page.
Vidmap(c) ==
  /\ Idle
  /\ called_vidmap' = called_vidmap \cup {Running}
  /\ todo' = set_user_video_page(scheduled_terminal) \o << <<"store", c>> >>
  /\ UNCHANGED <<page, tlb, memory, scheduled_terminal, visible_terminal, jobs>>

FreePids == Pids \ UNION {Range(jobs[t]) : t \in Terminals}
NextPid  == CHOOSE p \in FreePids : \A q \in FreePids : p <= q

\* Mutant of LoadProgram: the command is still needed after the remapping.
LoadProgramParseLast(pid, c) ==
  set_user_prog_page(pid, TRUE) \o << <<"parse">>, <<"store", c>> >>

\* execute up to the test for an executable: the command lies in the caller's
\* program page, the program goes into the new one's.
LoadProgram(pid, c) == << <<"parse">> >> \o set_user_prog_page(pid, TRUE) \o << <<"store", c>> >>

Execute(c) ==
  /\ Idle
  /\ FreePids # {}
  /\ todo' = LoadProgram(NextPid, c) \o << <<"run", NextPid>> >>
  /\ UNCHANGED <<page, tlb, memory, state>>

\* Not an executable: the caller gets its page back.
ExecuteNotElf(c) ==
  /\ Idle
  /\ FreePids # {}
  /\ todo' = LoadProgram(NextPid, c) \o set_user_prog_page(NextPid, FALSE)
             \o set_user_prog_page(Running, TRUE)
  /\ UNCHANGED <<page, tlb, memory, state>>

\* halt of a process somebody waits for.
HaltChild ==
  LET mine   == jobs[scheduled_terminal]
      parent == mine[Len(mine) - 1]
  IN  /\ Idle
      /\ Len(mine) > 1
      /\ jobs' = [jobs EXCEPT ![scheduled_terminal] = Front(@)]
      /\ todo' = set_user_prog_page(parent, TRUE)
                 \o (IF parent \in called_vidmap THEN set_user_video_page(scheduled_terminal) ELSE <<>>)
      /\ UNCHANGED <<page, tlb, memory, scheduled_terminal, visible_terminal, called_vidmap>>

\* halt of a base shell executes the shell again, under the same pid.
HaltBaseShell(c) ==
  /\ Idle
  /\ Len(jobs[scheduled_terminal]) = 1
  /\ called_vidmap' = called_vidmap \ {Running}
  /\ todo' = set_user_prog_page(Running, TRUE) \o << <<"store", c>> >>
  /\ UNCHANGED <<page, tlb, memory, scheduled_terminal, visible_terminal, jobs>>

-----------------------------------------------------------------------------
(* Interrupt handlers *)

\* The scheduler, all terminals booted.
Tick ==
  LET next == (scheduled_terminal + 1) % MaxTerminals
  IN  /\ Idle
      /\ scheduled_terminal' = next
      /\ todo' = set_user_video_page(next) \o set_user_prog_page(Last(jobs[next]), TRUE)
      /\ UNCHANGED <<page, tlb, memory, visible_terminal, jobs, called_vidmap>>

\* putc for the keyboard.
Echo(c) ==
  /\ Idle
  /\ todo' = << <<"put", c, visible_terminal>> >>
  /\ UNCHANGED <<page, tlb, memory, state>>

\* Alt+F1..F3: visible_terminal is assigned last.
switch_visible_terminal(t) ==
  /\ Idle
  /\ t # visible_terminal
  /\ todo' = change_terminal_video_page(visible_terminal, t) \o << <<"visible", t>> >>
  /\ UNCHANGED <<page, tlb, memory, state>>

-----------------------------------------------------------------------------
(* The steps of a handler *)

Step == Head(todo)
Doing(op) == todo # <<>> /\ Step[1] = op /\ todo' = Tail(todo)

SetEntry ==
  /\ \/ Doing("present") /\ page' = [page EXCEPT ![Step[2]].present = Step[3]]
     \/ Doing("frame")   /\ page' = [page EXCEPT ![Step[2]].frame = Step[3]]
  /\ UNCHANGED <<tlb, memory, state>>

\* flush_tlb: a new value in CR3 empties the cache.
FlushTlb ==
  /\ Doing("flush")
  /\ tlb' = <<>>
  /\ UNCHANGED <<page, memory, state>>

\* Accesses of the kernel: to its video page, and to the program page.
Access ==
  LET screen == Translation("vidmem").frame
      prog   == Translation("program").frame
  IN  /\ \/ Doing("put")   /\ memory' = [memory EXCEPT ![screen] = Step[2]]
         \/ Doing("keep")  /\ memory' = [memory EXCEPT ![Step[2]] = memory[screen]]
         \/ Doing("fetch") /\ memory' = [memory EXCEPT ![screen] = memory[Step[2]]]
         \/ Doing("store") /\ memory' = [memory EXCEPT ![prog] = Step[2]]
         \/ Doing("parse") /\ UNCHANGED memory
      /\ UNCHANGED <<page, tlb, state>>

SetGlobals ==
  /\ \/ /\ Doing("visible")
        /\ visible_terminal' = Step[2]
        /\ UNCHANGED <<jobs, called_vidmap>>
     \/ /\ Doing("run")
        /\ jobs' = [jobs EXCEPT ![scheduled_terminal] = Append(@, Step[2])]
        /\ called_vidmap' = called_vidmap \ {Step[2]}
        /\ UNCHANGED visible_terminal
  /\ UNCHANGED <<page, tlb, memory, scheduled_terminal>>

Kernel == SetEntry \/ FlushTlb \/ Access \/ SetGlobals

Next ==
  \/ \E v \in Pages : Fill(v)
  \/ \E c \in Contents :
       \/ \E v \in UserPages : UserStore(v, c)
       \/ Write(c) \/ Echo(c)
       \/ Vidmap(c) \/ Execute(c) \/ ExecuteNotElf(c) \/ HaltBaseShell(c)
  \/ HaltChild \/ Tick
  \/ \E t \in Terminals : switch_visible_terminal(t)
  \/ Kernel

Spec == Init /\ [][Next]_vars

-----------------------------------------------------------------------------
(* Properties *)

Entries == [present : BOOLEAN, frame : Frames]

\* The steps of handlers that run on terminal t: the video pages map the screen or
\* the text of t, the program page a program.
Steps(t) ==
  {<<"present", v, b>> : v \in Pages, b \in BOOLEAN}
    \cup {<<"frame", "program", Program(p)>> : p \in Pids}
    \cup {<<"frame", v, f>> : v \in {"video", "vidmem"}, f \in {Vga, Buffer(t)}}
    \cup {<<"flush">>, <<"parse">>}
    \cup {<<"store", c>> : c \in Contents}
    \cup {<<"put", c, u>> : c \in Contents, u \in Terminals}
    \cup {<<"keep", Buffer(u)>> : u \in Terminals}
    \cup {<<"fetch", Buffer(u)>> : u \in Terminals}
    \cup {<<"visible", u>> : u \in Terminals}
    \cup {<<"run", p>> : p \in Pids}

\* Type invariant.
TypeOK ==
  /\ page \in [Pages -> Entries]
  /\ DOMAIN tlb \subseteq Pages /\ \A v \in DOMAIN tlb : tlb[v] \in Entries
  /\ memory \in [Frames -> Contents]
  /\ todo \in Seq(Steps(scheduled_terminal))
  /\ scheduled_terminal \in Terminals
  /\ visible_terminal \in Terminals
  /\ jobs \in [Terminals -> Seq(Pids) \ {<<>>}]
  /\ called_vidmap \subseteq Pids

\* The pages the next step goes through: any for user code, those it names for a
\* handler.
Accessed ==
  IF Idle THEN Pages
  ELSE CASE Step[1] \in {"put", "keep", "fetch"} -> {"vidmem"}
         [] Step[1] \in {"store", "parse"}        -> {"program"}
         [] OTHER                                -> {}

\* Whatever the processor cached and whenever it did, an access never goes through
\* a translation that is no longer the entry's (flush_tlb and its callers).
NoStaleTranslation ==
  \A v \in Accessed \cap DOMAIN tlb : tlb[v] = page[v]

\* User code reaches its own program page, and of the video frames the screen and
\* its own terminal's buffer: no other process, no other terminal's buffer
\* (set_user_prog_page, set_user_video_page, scheduler, execute, halt).
UserReach ==
  Idle => \A v \in UserPages :
            Translation(v).present =>
              Translation(v).frame \in {Program(Running), Vga, Buffer(scheduled_terminal)}

\* execute reads the command through the page of the process that passed it, before
\* that address means the new program (execute).
CommandIsCallers ==
  todo # <<>> /\ Step[1] = "parse" => Translation("program") = [present |-> TRUE, frame |-> Program(Running)]

\* The terminal on the screen: from the moment its text is fetched.
Shown ==
  IF \E i \in DOMAIN todo : todo[i][1] = "visible" /\ \A j \in 1 .. i : todo[j][1] # "fetch"
  THEN Last(todo)[2] ELSE visible_terminal

Abstract == INSTANCE AddressSpaces WITH
  program <- [p \in Pids |-> memory[Program(p)]],
  console <- [t \in Terminals |-> memory[FrameOf(t, Shown)]],
  shown   <- Shown,
  running <- <<Running, scheduled_terminal>>

\* With cached translations, redirected pages and copied screens the kernel gives
\* each process its memory and each terminal its console (all of the above).
ImplementsAddressSpaces == Abstract!Spec

================================================================================
