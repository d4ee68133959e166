# TLA+ models of the kernel

This directory holds a verification development for the operating system kernel
in `src/`: TLA+ modules translated from the C and assembly sources, TLC
configurations that model-check small instances of them, and TLAPS proofs of the
invariants for instances of every size. `PROJECT.json` maps every definition to
the lines it models.

## 1. The system

The kernel is a 32-bit x86 kernel for one processor. It boots three terminals,
each with a base shell, and runs at most six processes. A program starts another
with `execute` and waits until that one calls `halt` (or dies by an exception);
the timer hands the processor from terminal to terminal. The keyboard types into
the terminal that is visible, the scheduler runs the one that is scheduled.

| component | sources | state | operations |
|---|---|---|---|
| process control | `system_calls.c` (execute, halt, vidmap), `scheduler.c`, `pit.c`, `paging.c`, `idt.c` | process table, PCBs, `terminals[].terminal_pcb` and `last_assigned_pid`, `scheduled_terminal`, `shell_count`, `exception_flag`, TSS, program and video page | PIT tick, execute, halt, exception, vidmap |
| terminal input | `terminal.c` (terminal_read), `keyboard.c` | keyboard buffer, index, Enter flag and `in_terminal_read` of each terminal, `terminal_buf_n_bytes` | key handler, terminal_read |
| virtual RTC | `rtc.c` | `rtc_active`, `rtc_freq`, `rtc_countdown`, `rtc_virt_interrupt` of each terminal | RTC interrupt, open, read, write, close |
| file descriptors | `system_calls.c` (open, close, read, write, halt's loop) | the `fda` of each PCB | open, close, read, write, halt |
| display | `lib.c` (putc, clear, scroll), `terminal.c` (switch_visible_terminal), `paging.c` (redirect_vidmem_page, change_terminal_video_page) | screen, three background buffers, cursors, the video page entry | putc from a process, putc from the keyboard, switch |
| file system | `file_system.c` | read-only image | read_dentry_by_name, read_dentry_by_index, read_data |
| keyboard | `keyboard.c`, `terminal.c` (terminal_write) | the modifier flags, each terminal's buffer and what its last line shows | make and break codes, tab, Backspace, Enter, Ctrl+L, Alt+F1..F3, the shell's prompt |
| programs | `system_calls.c` (execute's parser and loader, getargs), `file_system.c` | `arg` of each PCB, the program pages | execute, halt, getargs |
| paging | `paging.c` and its callers | page directory and tables, the processor's cached translations, the memory behind them | set_user_prog_page, set_user_video_page, redirect_vidmem_page, change_terminal_video_page, flush_tlb |
| interrupts | `i8259.c`, `kernel.c` (entry), `idt.c`, `pit.c`, the handlers' acknowledgements | request, in-service and mask registers of both chips, the IDT, the RTC's registers | boot steps, enable_irq, send_eoi, handlers |
| library | `lib.c` | none | strings, memory, itoa, printf's conversions |
| boot | `boot.S`, `x86_desc.S`, `kernel.c`, `multiboot.h` | descriptor tables | run once |
| tests, debugging | `tests.c`, `debug.h` | none | not linked into the running system's behaviour |

### How the components interact

* Every IDT entry is an interrupt gate, which turns interrupts off; the entry
  points in `asm_linkage.S` execute `cli` as well, except `systems_handler`. An
  interrupt handler or a system call therefore runs to its end without being
  interrupted. The exception is `read`, which begins with
  `sti`: `terminal_read` and `RTC_read` wait for their interrupt with
  interrupts enabled, and the timer may switch processes anywhere inside them.
* Timer tick: `PIT_processor` -> `PIT_handler` -> `scheduler` -> (while booting)
  `execute`, otherwise `set_user_video_page`, `set_user_prog_page`, TSS, stack
  switch.
* Processor exception: `exception_handler` -> `halt_wrapper` -> `halt`, which
  returns 256 to the parent when `exception_flag` is set.
* `halt` closes the process's descriptors, which calls `RTC_close`, and that
  acts on the *scheduled terminal*, not on the process.
* The keyboard interrupt handler writes the buffer of the *visible* terminal;
  `terminal_read` takes it from the *scheduled* terminal.

### What is hard

* a tick between any two system calls, and anywhere inside `read`;
* state of one process recorded in four places (`terminal_pcb`,
  `last_assigned_pid`, `tss.esp0`, the page directory), which must agree
  whenever the next handler looks;
* the boot: base shells are started by the timer interrupt itself, one per
  round, with a saved stack pointer that is taken in a different tick;
* keys that arrive while `terminal_read` takes the line apart;
* one limit (`terminal_buf_n_bytes`) and one RTC per terminal shared by several
  readers;
* error paths of `execute` after it has remapped the program page;
* page table entries assigned field by field while the processor may cache them
  at any moment;
* interrupts acknowledged at three devices and two chips, set up in an order
  that leaves no request without a handler and none lost;
* modifier flags set in one interrupt and used in another, and a line that is
  typed, shown, cleared and shown again by different code.

`PROJECT.json` lists each of these as a hazard at the line where it bites.

### What makes each component correct

* process control: the terminals, the process table and the processor state
  agree on who runs; every child's parent waits for exactly that child; no
  process is lost; a saved stack pointer is the one its process was interrupted
  at; every terminal gets the processor again and again;
* terminal input: a line is delivered exactly as typed, once, to the reader of
  its terminal; until Enter it stays in its buffer; Enter ends a read;
* virtual RTC: a reader waits for its own terminal's interrupts, one period
  apart, and an armed RTC wakes it;
* file descriptors: an open descriptor's table fits its file, the lowest free
  slot is handed out, nothing stays open after halt;
* display: a terminal's text goes to its own buffer; switching saves and
  restores screen and cursor;
* file system: reads return the bytes of the file and nothing else;
* keyboard: a key types what is engraved on it; what a shell's terminal shows
  is the line that Enter will deliver;
* programs: a process runs the file its command names, with the arguments the
  command gives, whatever its pid was used for before;
* paging: no access goes through an old translation; every process has its
  memory and every terminal its text;
* interrupts: what the chips hold in service is what the processor handles;
  every request is served.

## 2. Plan

The modules, in the order in which they were written:

1. `ProcessControl`, `JobStacks`, `ProcessControlProofs`: the core.
2. `TerminalInput`, with `LineTerminals` as its abstract specification.
3. `VirtualRtc`: the RTC and the descriptor tables that open and close it.
4. `Display`, with `Consoles` as its abstract specification.
5. `FileSystem`: directory search and `read_data` against a definition of a file.
6. `Interrupts`: the 8259s, the order of the boot and the acknowledgements.
7. `Paging`, with `AddressSpaces` as its abstract specification.
8. `Keyboard`: scan codes, modifiers, the echo and the shell's prompt.
9. `KernelLib` and, on top of it, `Programs`: what a command starts.

Every component with state is modelled. Every safety property and refinement the
runs check is proved for every value of the constants, in eight modules:
`FilesAndProgramsProofs` for `FileSystem`, `Programs` and `KernelLib`, and one
`...Proofs` module for each of `ProcessControl`, `TerminalInput`, `VirtualRtc`,
`Display`, `Interrupts`, `Paging` and `Keyboard`. Liveness is checked by TLC.
What the code does against a comment of its own is said in the section of its
module; for an exception's status there is a run, `exception_status`. Still
open: abstract specifications that hold for users who do not wait for their
prompt, and for a terminal whose page a backspace has lost. There the runs and
proofs say what is bounded and where it stops (`LineBound`, `PageLostAtOrigin`,
`OnlyTypedAheadRecurs`), not what is delivered or shown.

Every configuration checks what its module is about; the type invariants of
`TerminalInput`, `Interrupts`, `Paging` and `Programs` are stated in the
modules and hold as well (add `TypeOK` to the configuration), and are left out
of the runs in favour of properties that say more.

## 3. Process control

`ProcessControl.tla` models the scheduler, `execute`, `halt`, `vidmap`, the
exception path and terminal switching as the state of the C globals they
maintain.

| model | code |
|---|---|
| `processes`, `parent_process_id`, `parent_pcb`, `parent_esp`, `curr_esp`, `called_vidmap` | `processes[]` and the PCB fields, indexed by pid |
| `terminal_pcb`, `last_assigned_pid`, `scheduled_terminal`, `visible_terminal`, `shell_count`, `exception_flag` | the globals of the same names |
| `tss`, `user_page`, `video_page` | `tss.esp0`, the 4MB page at 128MB, the page at 256MB |
| `cpu`, `context` | whose code runs, and in which frame each process is suspended |
| `BootTerminal`, `SkipToUnbooted`, `SwitchProcess` | the three paths through `scheduler` |
| `Execute`, `ExecuteNotElf` | `execute` up to the iret, and its error path after the page was remapped |
| `HaltBaseShell`, `HaltChild` | the two paths through `halt`, from the system call or from `halt_wrapper` |
| `EnterRead`, `LeaveRead` | `read`, the only system call that enables interrupts |

A PCB and a kernel stack lie at addresses computed from the pid, so pointers to
either are written as pids. A saved stack pointer is abstracted to the kind of
frame it points at (`Depths`); `Resume` gives the processor to the process only
when the frame it loads is the frame the process was interrupted in, and to
nobody (`Wild`) otherwise. The keyboard IRQ is enabled by the boot of the last
terminal, so before that a base shell can do nothing but draw its prompt and
wait in `read`: that is the guard `Running`.

`QuickBoot` is an assumption on timing, not on code: with it, no tick finds a
base shell outside its first `read` while other terminals are still being
booted (a timer period is 10 to 50 ms, the shell needs far less). Without it TLC
finds `SavedFrames` violated: `scheduler` saves a stack pointer at line 46, and
if a second tick comes between a base shell's entry and its first `read`, the
one it loads later is stale.

`JobStacks.tla` is the abstract specification: a stack of jobs for each
terminal, of which the top one runs. `jobs` in `ProcessControl` computes the
stacks from the parent links and is the refinement mapping.

| run | instance | shows |
|---|---|---|
| `process_control` | 3 terminals, 5 pids | six invariants over every interleaving, and that process control implements `JobStacks` |
| `fair_scheduling` | 2 terminals, 3 pids | boot completes, no terminal starves, with the type invariant |
| `exception_status` | 2 terminals, 3 pids | violated: a stale `exception_flag` |

Bounds. Three terminals are what the code has. Two pids for children let one
child run on each of two terminals, or one child start a second, and let
`execute` find the table full. The sixth pid of the code adds one more level and
no new kind of step, and the proofs cover it. `process_control` uses a VIEW that
leaves out fields of unowned PCBs, saved stack pointers nobody will load and two
variables that influence nothing else (`ControlView` in `MCProcessControl.tla`);
no property of that run reads what is left out.

Fairness. `WF(Scheduler)`: the PIT is never masked after boot and every process
runs with interrupts enabled or inside a system call that ends, so a tick comes
again and again. `WF(EnterRead /\ ~Booted)`: a base shell goes from its entry
point to its first `read` without waiting for anybody.

### Proofs

`ProcessControlProofs.tla` proves, for every number of terminals and pids, the
type invariant and the invariants of `process_control`. `IInv` is the
conjunction of the control invariants with `LastAssigned` (a booted terminal's
`last_assigned_pid` is its `terminal_pcb`) and `VideoInv` (the video page is
unmapped until a switch happens after boot). They are only inductive together:
`halt` restores three records that `ParentWaits` relates, and that it restores a
live process needs `NoProcessLost`. There is one lemma for each action and
`NextIInv` combines them; `Invariance` is the theorem, and the named properties
follow from it. `FramesSaved` needs the further invariant `FrameInv`, whose
second part `BootFrame` says what the saved stack pointer is between the two
ticks of a boot, and assumes `QuickBoot`.

`ImplementsStacks` proves the refinement, also under `QuickBoot`: a stale frame
would hand the processor to nobody, which no step of `JobStacks` does. The
mapping `jobs` reads a stack off the parent links with a recursive function, so
the proof needs three facts about it. `LevelsExist` and `StacksAreTopLevel`: the
function the recursion describes exists, so that its equation may be used.
`StackFits`: a stack without repetition is no higher than there are pids (a
pigeon-hole argument), so the bound on the recursion cuts nothing off.
`StacksRead`: the function returns any sequence of processes that the parent
links describe (`StackedBelow`). The inductions in them are arguments about the
least counterexample. With these, `JobsInv` (the PCBs of a booted terminal form
such a stack of live processes) is preserved, and each step does to `jobs` what
`JobStacks` says: the pid `execute` finds is in no stack because everything in a
stack is alive, and the process `halt` frees is in no other one because those
below a top wait in `execute`.

`BootCompletes` and `EveryTerminalRuns` are liveness and model-checked.

## 4. Terminal input

`TerminalInput.tla` models `keyboard_handler` from the point where a scan code
has become a character, and `terminal_read` statement by statement.

| model | code |
|---|---|
| `kb[t]` | `kb_enter_flag`, `kb_buf` and `in_terminal_read` of a `terminal_t`, adjacent chars in memory: slot -1, slots 0 .. `BufSize` - 1, slot `BufSize` |
| `kb_buf_i`, `terminal_buf_n_bytes` | the fields and globals of the same names |
| `reader[t]` | the statement of `terminal_read` the process on `t` is at, its `n_bytes`, its buffer and `bytes_written` |
| `TypeKey`, `TypeTab`, `Backspace`, `PressEnter` | the branches of `keyboard_handler`, one step each: the handler runs with interrupts off |
| `CallRead`, `AllowEcho`, `SeeEnter`, `StopEcho`, `Strip`, `EraseLast`, `Shorten`, `CopyLine`, `Count`, `ClearIndex`, `ZeroBuffer` | the statements of `terminal_read` that touch shared state: `read` turned interrupts on, so keys and ticks fall between them |

A loop (`strncpy`, the zeroing of the buffer) is one step: what a key could add
in the middle of it, it could also add just before or after it. The constant
`Patient` describes the user: with it, nobody types on a terminal from an Enter
until the read it ends has returned. The kernel does not enforce that, so what
uses it shows what users who wait for their prompt get. Of all users `LineBound`
says that a line no Enter has completed lies in its buffer and has room for its
newline: keyboard.c:167 tests for equality with the limit, which is enough if no
way of typing, taking and erasing puts the index beyond it. After an Enter it
does: Enter looks at no limit, and a key after an Enter that filled the buffer is
written behind it, over `in_terminal_read`, although keyboard.c:166 says that one
that would overflow the buffer is ignored. The module follows the index up to one
slot out of the buffer (`OverrunBound`), and `LineBound` says that the next line
starts in the buffer again.

`LineTerminals.tla` is what the terminals promise: characters are appended to
and erased from the line of the visible terminal, Enter completes it if somebody
reads, and the read delivers exactly that line.

| run | instance | shows |
|---|---|---|
| `terminal_lines` | 2 terminals, lines of 2 characters, `Patient` | `FlagHasReader`, and that `TerminalInput` implements `LineTerminals` |
| `enter_ends_read` | 2 terminals, one slot, keys at any time | an Enter ends the read that waits for it, and `LineBound` with keys after Enter |

Keys that arrive while the line is taken have further effects, which the steps
of the model show and no run states: `terminal_read` strips one character after
the newline and no more (terminal.c:118); a character between the copy and the
count is counted without having been copied (terminal.c:128); and a line typed
ahead of a read that asks for fewer bytes is counted in full, because
`terminal_buf_n_bytes` was another read's when it was typed.

Bounds. Two terminals, because the code treats a terminal as visible or not and
scheduled or not. In `terminal_lines` the buffer holds two characters and
the newline, which makes "full" and "one below full" distinct. `enter_ends_read`
needs one slot, since a read ends by the flag and not by what is in the buffer: an
Enter fills it, a key after that is past it and a Backspace before it, which is
what the index can do there. For larger buffers under hurried users `LineBound` is
proved, and a limit that lets a line grow too long would break `DeliversLines` too. `KeyPress` stops following an index two slots past the buffer, where the
code goes on to overwrite the next fields. `InputView` leaves
out what a finished read returned; `DeliversLines` sees it in the step that
returns it.

Fairness (`FairSpec`): weak for `Tick`, the PIT is never masked; strong for a
reader's steps, since a process that gets the processor again and again executes
an instruction between two ticks (a tick lasts at least 10 ms).

### Proofs

`TerminalInputProofs.tla`, for every number of terminals, buffer size and set of
read sizes. `IndexNearBuffer` is the type invariant and assumes nothing of the
users; it needs to know that the index is below zero only between `Strip` and
`ClearIndex`. `LinesFit` is `LineBound` and assumes nothing of them either:
`RoomInv` keeps the room for the newline while no Enter is pending and no read
is past the flag, and `ClearIndex` restores it whatever keys did to the index
before. With `Patient`, `EnterHasReader` is `FlagHasReader`: `LineInv` says for
one terminal where the newline is while an Enter is pending and which statements
of `terminal_read` can then be reached (neither `EraseLast` nor `Shorten`).

`LinesAreDelivered` is the refinement of `LineTerminals`. It assumes `Patient`
and that no read asks for fewer bytes than the keyboard buffer has, as the
shell's reads do: one that does gets a line that is cut, which `LineTerminals`
does not promise. `TakeInv` says what has been copied and counted at each
statement; the line delivered is the buffer below the index at the moment of
`CopyLine`. The mapping (what was typed, up to the index) is a sequence built by
comprehension, so typing a character appends to it and a backspace takes its
front, for tabs too.

`EnterEndsRead` is liveness and model-checked.

## 5. The virtual RTC and the descriptors

`VirtualRtc.tla` models `rtc.c`, the descriptor tables of the processes that
stand on each other in a terminal, and the calls that couple them.

| model | code |
|---|---|
| `rtc_active`, `rtc_freq`, `rtc_countdown`, `rtc_virt_interrupt` | the fields of `terminal_t` |
| `jobs[t]` | the `fda` of each process of terminal `t`, the running one last |
| `at[t]` | whether that process waits in `RTC_read` |
| `Open`, `Close`, `Write`, `Read`, `Execute`, `Halt` | the system calls; `Halt` closes what is open |
| `SeeInterrupt`, `ClearInterrupt` | the two statements of `RTC_read`, interrupts on |
| `RtcInterrupt`, `Tick` | the two handlers |

| run | instance | shows |
|---|---|---|
| `virtual_rtc` | 2 terminals, 2 descriptors, 1 child, 2 frequencies, fairness | the countdown never wraps, an active RTC is armed and has an owner, a reader on an active RTC returns |

`ActiveReadReturns` speaks of RTCs that are active: `RTC_close` turns off the
RTC of its terminal, also under a parent or another descriptor that still has it
open, and a read there then waits until somebody opens the RTC again.

Bounds. The real RTC interrupts 8 times a second and a byte has 8 values, so that
a period is two or four interrupts (four after `RTC_open`, two at frequency 4)
and both accepted and refused frequencies occur. The only files are RTCs: the
others share the descriptors and never touch the RTC's state. `RTC_write` takes
its frequency from one byte, so 256, 512 and 1024 count as 0 and are refused
(rtc.c:135); `RtcWrite` does the same and no run states it. One child gives the
case of a parent and a child with the RTC open, two descriptors the case of one
process with two. Fairness: weak for both timers, strong for the reader, as
above.

### Proofs

`VirtualRtcProofs.tla` proves the three invariants (`TypesCorrect`,
`ActiveRtcIsArmed`, `ActiveRtcHasOwner`), for every number of terminals,
descriptors and processes and every base frequency. They are inductive together:
the countdown of an active RTC is at least one when `RtcInterrupt` decrements
it, because the RTC is armed, and `Halt`, which closes what its process had open,
leaves an owner or an inactive RTC. `ActiveReadReturns` is liveness and
model-checked.

## 6. Display

`Display.tla` models `putc`, `clear`, `scroll`, `update_cursor`,
`switch_visible_terminal`, `redirect_vidmem_page` and
`change_terminal_video_page`.

| model | code |
|---|---|
| `memory` | the VGA page and the three background pages |
| `vidmem_page` | the page that 0xB8000 is mapped to |
| `screen`, `cursor`, `vga_cursor` | `screen_x/y`, `terminals[].cursor_x/y`, the CRT's cursor registers |
| `Write` | `putc` from `terminal_write` for the scheduled process, on the screen (`PutVisible`) or redirected (`PutBackground`) |
| `Echo`, `Clear` | the keyboard handler's `putc(c, 1)` and Ctrl+L |
| `SwitchVisible` | Alt+F1 .. F3 |

`putc` runs with interrupts off. A loop around it (a long write, the echo of a
tab, the line printed again after Ctrl+L) is several steps here: more
interleavings than the code has, so what holds here holds there. `Consoles.tla`
is the promise: every terminal has a page and a cursor of its own that only its
own text changes, and the screen shows the visible one. It is written with lines
and no addresses, so the arithmetic on cells, scrolling, and the order of save
and restore are what the refinement checks.

| run | instance | shows |
|---|---|---|
| `consoles` | 2 terminals, processes write backspaces too | the type invariant, `BlinksAtVisible`, `PageLostAtOrigin`, and that `Display` implements `Consoles` while the page is the visible terminal's |

A backspace that a process writes with its cursor at the origin of a background
terminal takes the early return of `putc` (lib.c:276) before the page and the
cursor are given back to the visible terminal, which the comments at lib.c:308
and 311 announce and which nothing else does for it (`terminal_write` passes every
character on). The next echo then goes to the background buffer, an effect that no
specification of consoles allows. So `ImplementsConsoles` speaks of every step
from a state in which `PageRestored` holds, and `PageLostAtOrigin` of the others:
only that backspace loses the page, it changes no text and no saved cursor, and
every character that a background terminal takes afterwards gives the page back.

Bounds. Lines of two columns and pages of two lines, in which every character
meets the end of a line, and every line the bottom. Two terminals: the code tells
the visible one from the others, and the scheduled one is either the visible one
or not. A third one is out of the run's reach and in the theorems'.

### Proofs

`DisplayProofs.tla`, for screens of any size and any number of terminals.
`CursorsOnScreen` (the type invariant) and `BlinkingIsVisible` hold whatever is
written, and so do `OnlyOriginLosesPage` (`PageLostAtOrigin`) and
`DisplayImplementsConsoles` (`ImplementsConsoles`): the page need not be the
visible terminal's for ever, only in the state a step starts from.
`ConsolesWithoutBackspace` draws the conclusion for processes that write no
backspace: `Spec => Abstract!Spec`, the refinement without the condition. The
lemmas relate the two ways to see a page: cells at addresses and lines (`Lines`). Putting a
character at an address changes one place of one line, copying each row over the
one above it and clearing the last is `Tail` and a blank line, and so `putc`
(its carry into the next line, its scroll) is `After` of `Consoles`. Saving and
loading a page in `change_terminal_video_page` is then a change of which page is
shown.

## 7. File system

`FileSystem.tla` models the descriptors of one process on an image that never
changes; a read touches only its own descriptor, so each call is one step.
`fda`, `Open`, `Close`, `ReadFile` and `ReadDir` are the code's; `got` records
what the reads of a descriptor delivered. `FileOf` defines a file without
offsets: its blocks in order, cut at its size. `file_reads` compares the two on
an image with an empty file, one that ends inside a block, and one that fills
its blocks, with interleaved blocks of two bytes. `MaxPos` stops the model
from reading further once a position is past every file.

Two things the comments of the code do not say: `read_data` lets one byte past
the end of a file through (its test at file_system.c:99 is `>`), which
`ReadsDeliverFile` allows and limits to one; and `read_dir` returns `nbytes`
while it copies `FNAME_LENGTH` bytes (file_system.c:194).

### Proofs

`FilesAndProgramsProofs.tla` proves both invariants of `file_reads` for every image,
block size, set of read sizes and number of descriptors (`FilesAreDelivered`,
`DirectoryIsListed`). `ImageAssumption` says what an image is: entries of one of
the three types, and a regular one names an inode. `IInv` relates, descriptor by
descriptor, `file_pos` to what was delivered: the first `file_pos` bytes of the
file, of which one may lie behind its end (`FileRead`), or the first `file_pos`
names (`DirectoryRead`). `DataRead` is the fact about `read_data` it rests on,
that what a read returns starts at `file_pos` and is as long as the position
moves. `LoadIsReadData` connects the module with `Programs` (section 11), which
has a file's bytes where this one has its blocks: for every file what `execute`
loads is what `read_data` delivers here, the byte past the end included.

## 8. Interrupts

`Interrupts.tla` models the two 8259s as the kernel drives them, the three
devices that make requests, the order in which `entry` and the boot of the base
shells set everything up, and the acknowledgements of the handlers.

| model | code |
|---|---|
| `irr`, `isr`, `imr` | the request, in-service and mask registers of each chip |
| `idt` | the IRQs for which `SET_IDT_ENTRY` has been called |
| `at` | the statement of `entry`, or of a handler, that comes next |
| `periodic`, `register_c` | bit 6 of the RTC's register B; its interrupt flag |
| `InitIdt`, `InitPic`, `InitRtc`, `InitPit`, `EnableInterrupts` | what `entry` calls, in the order of `Following` |
| `PitPeriod`, `RtcPeriod`, `KeyPress` | the devices (external) |
| `TakeInterrupt` | the chips' priorities and the processor's interrupt gate (external) |
| `PitEoi`, `BootTerminal`, `MoveOn`; `ReadRegisterC`, `RtcEoi`; `ReadScanCode`, `KeyboardEoi` | the steps of the three handlers |

`interrupts` (3 terminals) checks that nothing is in service that no handler
works on, that no request comes before its handler, that the RTC is never
waiting for a register C nobody is going to read, and that ticks, RTC
interrupts and keys are served for ever (`RequestsServed`). The last one is what
the fairness of `Tick` and `RtcInterrupt` in the other modules rests on. Note
that `enable_irq` comes before `SET_IDT_ENTRY` in `init_RTC` and
`init_keyboard`: that is right because interrupts stay off until the `sti` of
`entry`, and in the scheduler, which calls the latter.

Bounds and fairness. `Burst` bounds how many requests a device makes between two
moments at which none is pending (`Rest`): an assumption about the machine, that
its handlers keep up, without which a fast timer starves the keyboard. Two
requests let one arrive while another is being handled. `WF` for the boot, the
processor and its handlers says that the processor executes, `WF` for the two
timers that they run, and `SF(Rest)` that system calls do not take all of its
time.

### Proofs

`InterruptsProofs.tla` proves the type invariant, `InServiceIsHandled`,
`NoStrayInterrupt` and `RtcNotSilent`. None is inductive alone. `IInv` adds what
`entry` has set up at each of its statements (`HandledAtBoot`), that the masks
let through what has a handler (`MasksFollowHandlers`), and that the RTC is quiet
until `init_RTC` and the keyboard until the last boot (`QuietUntilTold`). The
heart is `NextIrqHasHandler`: what the two chips offer between them, while
nothing is in service, is an IRQ with a handler. From it follows which lines go
into service. `RequestsServed` is liveness and model-checked.

## 9. Paging

`Paging.tla` models the three pages the kernel remaps while it runs and the
translations the processor may cache of them at any moment (`Fill`). A handler
or system call puts the list of its steps into `todo`, one assignment to an
entry, one flush or one access each, in the order of the statements of
`paging.c` and of the caller; `Kernel` takes them one by one. User code
(`UserStore`) runs when the list is empty, as every handler runs with interrupts
off.

| model | code |
|---|---|
| `page` | `present` and `base_addr` of the entries for 128MB, 256MB and 0xB8000 |
| `tlb` | the processor's cache (external) |
| `memory` | the program frames, VGA memory and the buffers behind it, one value for each page |
| `jobs`, `called_vidmap` | the processes of each terminal; the flag of each PCB |
| `Write`, `Echo`, `Vidmap`, `Execute`, `ExecuteNotElf`, `HaltChild`, `HaltBaseShell`, `Tick`, `switch_visible_terminal` | the callers of `paging.c` |

`AddressSpaces.tla` is the promise: every process has a program memory of its
own, every terminal a console of its own, and showing another terminal changes
neither. It lets a process put text on its own terminal or on the one shown,
because the video page of a process is chosen when it is mapped, and keeps the
choice when the user shows another terminal before the next tick; `UserReach`
bounds it.

`address_spaces` checks the refinement, that no access uses a translation that
is not the entry's any more, that user code reaches nothing else, and that
`execute` reads its command while the address still means the caller's page. Two
terminals (visible, and not), three pids (a child, and no free pid) and two
values for what a page holds, which are interchangeable.

### Proofs

`PagingProofs.tla`, for any number of terminals and pids: the type invariant
(which contains that `todo` is made of the steps of the running terminal), the
three invariants and the refinement. Each property is about one step, but what
makes it true is in the list of the steps that are left, so `IInv` speaks of the
list. `Flushes`: an entry a step sets is flushed before a later step uses it.
`StaleIsFlushed`: so is a translation that is not its entry's now. `ProgramInv`
and `ScreenInv`: when the list is done, the program page will be that of the
process that runs then, the video page the screen or its terminal's buffer, and
0xB8000 the screen. `ParseInv` and `SwitchInv`: where the command is read, and how
far a switch of the visible terminal has come. A step then takes the head off the
list and a handler puts a list there that has all of this by its shape.

From it follow `NothingStaleIsUsed`, `ProcessesAreApart`, `CommandIsReadFirst`,
and `PagingImplementsAddressSpaces`: the mapping shows the text of the visible
terminal from the screen and the others' from their buffers, with `Shown` for
which one is visible in the middle of a switch.

## 10. Keyboard

`Keyboard.tla` models `keyboard_handler` from the scan code on: the modifier
flags, the table and the switch that make a character of it, and what each key
does to the buffer and to the screen; and the part of `terminal_write` that
prints the keyboard buffer after the shell's prompt.

| model | code |
|---|---|
| `left_shift_flag`, `right_shift_flag`, `ctrl_flag`, `alt_flag`, `caps_flag`, `kb_buf`, `kb_buf_i` | the globals and fields of the same names |
| `held`, `caps_lock` | the keys that are down, the times caps lock was pressed: what the flags should say |
| `at[t]`, `row[t]` | what the process of a terminal does; the last line the terminal shows |
| `Make`, `Break`, `CapsLock`, `PressBackspace`, `PressEnter`, `PressCtrlL`, `SwitchVisible`, `PressTab`, `TypeKey` | the cases of the handler |
| `WriteText`, `WritePrompt`, `StartRead`, `EndRead` | `terminal_write` and `terminal_read` |

| run | instance | shows |
|---|---|---|
| `keyboard` | 2 terminals, 2 modifiers held at once, `Unhurried` | the type invariant, no modifier sticks, a key types what is engraved on it, the terminal of a reading shell shows the prompt and the line that Enter will deliver, and only what was typed ahead makes `terminal_write` call itself for ever |

`terminal_write` calls itself with the keyboard buffer when what it prints starts
with the prompt, and compares the buffer with the prompt again (terminal.c:161).
All characters of "391OS> " are on the keyboard; a user who types them while no
process reads makes the shell's next prompt end in a recursion without end, the
state `"lost"`. The run reaches it: its prompt is the one character "L", which its
keys type with shift or caps lock. `OnlyTypedAheadRecurs` says that nothing else
leads there. `strncmp` compares the buffer whatever the index is, so a prompt that
was typed as a line, erased or not, would be found too if `clear_keyboard_vars`
left the characters behind. `ahead[t]` remembers, for this property only, whether
something was typed on `t` while nobody read, since the last read there ended.
`EngravingAssumption` in `Keyboard` compares table and switch with the engraving
for all keys and shift states, the run uses a few of them.

What is assumed. The handler ignores the prefix 0xE0, so that both ctrl keys and
both alt keys are one to it: releasing one while the other is held clears the
flag, which `NoStuckModifier` allows. Prefixed codes that a keyboard makes up
around others (a shift released and pressed again) are not modelled. Nobody holds caps lock until it repeats.
Readers ask for a whole buffer, as the shell does. `Unhurried`: nobody types
between the shell's prompt and its `read`, and from an Enter until the read has
returned; a character typed in the first window is stored and not shown, and
what the second does is section 4's. Without it, and the run has it, after an Enter on a full line,
keys go past the buffer. `Memory` holds the buffer and the byte after it,
`in_terminal_read`, which a key stored there leaves set; `Followed` is the bound
at which the module stops, for characters and Enters.

Bounds. Two terminals; a line of one character and the newline, so that it is
empty, full, or completed; modifiers of which two can be held at once, which
includes two of a kind.

### Proofs

`KeyboardProofs.tla`. `ModifiersFollowKeys` (no modifier sticks) and
`KeysTypeEngraving` (the action property) hold for any number of keys held,
hurried users or not, and so does `RecursionIsTypedAhead`
(`OnlyTypedAheadRecurs`) for every prompt that has a character: `AheadInv` says
that where nothing was typed ahead, `terminal_write` returns, and the buffer is all
zeros unless a read is open. `KeysTypeEngraving` uses `EngravingAssumption`, which has no
parameter: it compares two constant tables, TLC computes it in every run of the
module, and a proof by cases on 128 codes would say no more.

`EchoFollowsLine` assumes `Unhurried`, as the run does, and proves `EchoIsLine`
for every prompt and buffer size. `LineInv` relates for one terminal the buffer
and its index, what its process is doing, and the last row: the row ends in the
line, behind the prompt since `WritePrompt` (`BehindPrompt`). Typing, erasing and
the reprint of `terminal_write` keep it by lemmas about fronts and
concatenations. `TypesCorrect` is the type invariant, for up to three terminals
(there are three function keys) and hurried users: a line leaves room for its
newline until Enter completes it, although the limit is an equality, because no
key and no tab (`TabInLine`) steps over it. For a completed line the code has no
limit, and what the theorem says of it is only the bound `Followed`.

## 11. Programs and the library

`KernelLib.tla` has the pure functions of `lib.c`: memory (by bytes, dwords and
bytes, as the assembly goes), strings, `itoa` and the conversions of `printf`.
`LibraryFunctions` compares them with what they promise: in the run for all
blocks of up to 14 bytes in 14 addresses (three dwords between the bytes before
and after them, at every alignment), all strings of three characters over
`LibBytes`, and every word of 8 bits. `MaxString`, `Addresses` and `WordBits` are
constants, and the proofs below are for all of their values. `memcpy` promises nothing for blocks that overlap the wrong way.

`Programs.tla` builds `execute` from them: it takes the command apart, looks up
the name, loads the file into the page of the lowest free pid, and checks the
header; `Getargs` is the system call. PCBs and pages keep what was left in them,
by a process that ended or by an `execute` that failed.

| model | code |
|---|---|
| `ExecName`, `ParsedArgs` | the two parsing loops of `execute` |
| `Matches` | `read_dentry_by_name` |
| `InodeNamed` | the inode of the first entry that matches |
| `LoadedBytes`, `Loaded` | `read_data` from position 0, into the program page |
| `IsElf` | the comparison with the magic number |
| `Start`, `Halt`, `Getargs` | `execute`, `halt`, `getargs` |

`programs` checks that every process has the arguments of its command, neither
cut at the wrong place nor mixed with those of another (`ArgsOfCommand`), and
that the file its command names lies in its page and is an executable
(`RunsNamedFile`), through any sequence of `execute` and `halt` with every
command of up to three characters over a space and two letters. The directory
holds a name as long as a name can be, the prefix of another; the files one that
is longer than what is loaded, a text that begins like a program, and an empty
one.

Four things the code does and the properties leave open: `elf_check` is a local
variable that `read_data` does not fill for an empty file, so an entry without
contents ("rtc", ".") starts or fails by what the stack holds; arguments of
`MAX_ARGS` characters or more are cut and not ended by a 0; only 100000 bytes of
a program are loaded; and spaces at the end of a command stay in the arguments.

### Proofs

`FilesAndProgramsProofs.tla` proves the three properties of `programs` for every
directory, every set of files and commands, and every width of a word. It is the
longest of the proof modules because every loop of `lib.c` and `execute` needs an
argument of its own. A loop is modelled by a function that is defined by itself,
and what `CHOOSE` picks for it is known only if some function solves the
equation. For a loop that runs up to a position (`strlen`, `strncmp`, the parsing
loops) `ScanExists` gives the solution for whatever the loop stops at, even if it
never does, and `ScanStops` what the loop returns; for a loop that counts, the
solution is written down (a block copied up to here) or built up by
`IterationExists` (what `itoa` divides). `UpTo`, induction up to a number stated
for sets, which the provers can use, then compares any other solution with it.

*The library* (`BlocksFilledAndCopied`, of memory with any contents, and
`LibraryFunctionsHold`). Moving a block in two parts is moving it
at once, if no part is read after it was written over (`MoveTwice`, `Copyable`);
so the dwords and the bytes before and after them come to one copy at every
alignment (`MemcpyIs`, `MemmoveIs`; `MemsetIs` likewise). `strncmp` finds the
first place where two strings differ or end (`StrncmpFinds`). The quotients
`itoa` divides reach zero (`QuotientsEnd`), `strrev` reverses (`StrrevIs`), and
the digits, read as a number from the highest on, are at each place the quotient
that was left there (`DigitsRead`), with zeros in front as without. A word has
at most `HexWidth` hexadecimal digits (`WordEnds`).

*Programs.* `Cuts` says where a command is cut, and `CommandCut` that every
string can be cut so. `ExecNameIs`, `ParsedArgsAre`, `CutsAreParse` and
`MatchIsNamed` turn what the loops compute into the terms of the properties: the
command is spaces, a name, spaces and arguments, and the entry `execute` accepts
has exactly that name. The inductive invariant is `ProgramsInv`: each process
was started by a command, its `arg` is that command's arguments padded with
zeros, whatever the PCB held before, and its page agrees with the file of the
first matching entry as far as that was loaded. Failed calls change only a free
pid. `ArgsOfCommand` and `RunsNamedFile` follow from it. In the proof that `halt`
keeps it lies a fact of its own, `ShellIsRestarted`: a base shell that halts gets
its own pid back, because all lower ones belong to base shells.

The assumptions are about data the code takes from elsewhere. A command is a
string. The image has entries with names that are not empty and name a file
(`DirectoryAssumption`); an empty name would be found by an empty command. The
shell is in the directory, long enough to have a header, and has it
(`ShellAssumption`): otherwise `execute` would return to `halt`, which would go on
as if there were a parent to return to.

## 12. What is proved, what is checked, what is missing

Proved for every value of the constants, under the named assumptions of each
module (sizes are positive, the pids are enough for the base shells, an image is
an image) and the hypotheses listed here:

| module | proved | hypotheses |
|---|---|---|
| `ProcessControl` | `TypeOK`, `BootOrder`, `ProcessorServesScheduled`, `ParentWaits`, `NoProcessLost`, `NoForeignBuffer` | |
| | `SavedFrames`, implements `JobStacks` | `QuickBoot` |
| `TerminalInput` | `TypeOK`, `LineBound` | |
| | `FlagHasReader` | `Patient` |
| | implements `LineTerminals` | `Patient`, reads of at least the buffer's size |
| `VirtualRtc` | `TypeOK`, `ActiveIsArmed`, `ActiveHasOwner` | |
| `Display` | `TypeOK`, `BlinksAtVisible`, `PageLostAtOrigin`, `ImplementsConsoles` | |
| | implements `Consoles` in every state | no process writes a backspace |
| `FileSystem` | `ReadsDeliverFile`, `ReadsListDirectory` | |
| `Programs`, `KernelLib` | `TypeOK`, `ArgsOfCommand`, `RunsNamedFile`, `LibraryFunctions` | |
| `Interrupts` | `TypeOK`, `InServiceIsHandled`, `NoStrayInterrupt`, `RtcNotSilent` | |
| `Paging` | `TypeOK`, `NoStaleTranslation`, `UserReach`, `CommandIsCallers`, implements `AddressSpaces` | |
| `Keyboard` | `TypeOK`, `NoStuckModifier`, `TypesAsEngraved`, `OnlyTypedAheadRecurs` | |
| | `EchoIsLine` | `Unhurried` |

What the code does outside of the hypotheses is in the section of each module. The prover of temporal steps takes such a
hypothesis as `ASSUME ... PROVE`, which is how the theorems state it.

Model-checked only: liveness (`BootCompletes`, `EveryTerminalRuns`,
`EnterEndsRead`, `ActiveReadReturns`, `RequestsServed`), because the prover
cannot reason about the fairness it rests on (`ENABLED`).

False, and shown by a run to be so: `ExceptionReported` (`exception_status`).

Not modelled: the multiboot information, and the contents of GDT, LDT and IDT
entries, constants written once with interrupts off; `printf`'s scan over its
format; functions nothing calls (`strcpy`, `memset_word`, `memset_dword`,
`test_interrupts`, `disable_irq`); tests and build files. Hazards that are
listed without a property:

* the boot window (terminal.c:101): `scheduled_terminal` may already name the
  next terminal when a base shell enters `terminal_read`, which then waits on
  and sets the flags of a terminal that is not its own; `TerminalInput` starts
  after the boot, and the keyboard is off until then;
* `terminal_buf_n_bytes` (terminal.c:98), one limit for three terminals: the
  steps are in `TerminalInput`, no property of lines typed under another
  reader's limit holds;
* `RTC_write` reads a 32-bit frequency as one byte (rtc.c:135), and `read_dir`
  returns `nbytes` whatever it copied (file_system.c:194): `RtcWrite` and
  `ReadDir` do the same, and both are what they are in a single call.

The violation is listed in `PROJECT.json` under `findings`, with the line of
the source and the comment that says otherwise.
