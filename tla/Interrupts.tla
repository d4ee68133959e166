------------------------------ MODULE Interrupts ------------------------------
(***************************************************************************)
(* The interrupt requests of the timer, the keyboard and the RTC: the two  *)
(* 8259s that pass them on, the handlers that acknowledge them, and the    *)
(* order in which the kernel sets all of it up.                            *)
(*                                                                         *)
(* One processor; interrupts are on only while it runs a process, waits    *)
(* inside read, or halts in the kernel's idle loop.  Every IDT entry is an *)
(* interrupt gate and the sti before a handler's iret takes effect after   *)
(* the iret, so handlers do not nest; devices raise requests at any time.  *)
(***************************************************************************)
EXTENDS Integers, FiniteSets, FiniteSetsExt

CONSTANTS
  MaxTerminals,  \* MAX_TERMINALS in terminal.h
  Burst          \* bound: requests of one device between two moments of rest

ASSUME InterruptsAssumption ==
  /\ MaxTerminals \in Nat \ {0}
  /\ Burst \in Nat \ {0}

PIT_IRQ      == 0
KEYBOARD_IRQ == 1
CASCADE      == 2      \* the master's input that the slave is wired to
RTC_IRQ      == 8
DeviceIrqs   == {PIT_IRQ, KEYBOARD_IRQ, RTC_IRQ}

Chips == {"master", "slave"}
Lines == 0 .. 7

VARIABLES
  irr, isr, imr,       \* the request, in-service and mask registers of each chip, as sets of lines
  idt,                 \* the IRQs whose vector has a handler
  at,                  \* where the processor is
  periodic,            \* bit 6 of the RTC's register B: interrupts every period
  register_c,          \* the RTC holds an interrupt nobody has read register C for
  scan_code,           \* the keyboard holds a scan code nobody has read
  quota,               \* quota[irq]: requests its device may still make before the next Rest
  shell_count, scheduled_terminal

pic     == <<irr, isr, imr>>
devices == <<periodic, register_c, scan_code, quota>>
kernel  == <<idt, shell_count, scheduled_terminal>>
vars    == <<pic, idt, at, devices, shell_count, scheduled_terminal>>

\* What entry runs through before it waits for the first tick.
BootSteps == {"init_IDT", "i8259_init", "init_RTC", "init_PIT", "sti"}

\* Whatever the BIOS left in the chips; its RTC interrupts are off.
Init ==
  /\ irr \in [Chips -> {{}, {PIT_IRQ}}]
  /\ isr = [c \in Chips |-> {}]
  /\ imr = [c \in Chips |-> {}]
  /\ idt = {}
  /\ at = "init_IDT"
  /\ periodic = FALSE
  /\ register_c \in BOOLEAN
  /\ scan_code = FALSE
  /\ quota = [irq \in DeviceIrqs |-> Burst]
  /\ shell_count = 0
  /\ scheduled_terminal = 0

-----------------------------------------------------------------------------
(* i8259.c, and the chips as it drives them *)

Chip(irq) == IF irq < 8 THEN "master" ELSE "slave"
Line(irq) == irq % 8

\* A request line goes up.  A masked line still latches its request.
Raised(irq) == [irr EXCEPT ![Chip(irq)] = @ \cup {Line(irq)}]

\* What a chip would have served next: an unmasked request that no line of the
\* same or a higher priority holds back.
Candidates(c, requests) == {k \in requests \ imr[c] : \A s \in isr[c] : k < s}

SlaveAsks == Candidates("slave", irr["slave"]) # {}
Asked == Candidates("master", (irr["master"] \ {CASCADE}) \cup (IF SlaveAsks THEN {CASCADE} ELSE {}))

\* The IRQ whose handler the processor is about to be sent to.
NextIrq ==
  IF Min(Asked) = CASCADE THEN 8 + Min(Candidates("slave", irr["slave"])) ELSE Min(Asked)

\* Mutant of EoiLines: only the chip of the IRQ is told.
EoiOwnChip(irq) == {<<Chip(irq), Line(irq)>>}

\* send_eoi ends an IRQ of the slave on both chips.
EoiLines(irq) ==
  {<<Chip(irq), Line(irq)>>} \cup (IF irq >= 8 THEN {<<"master", CASCADE>>} ELSE {})

SendEoi(irq) == isr' = [c \in Chips |-> isr[c] \ {k \in Lines : <<c, k>> \in EoiLines(irq)}]

\* enable_irq
Unmasked(irq) == [imr EXCEPT ![Chip(irq)] = @ \ {Line(irq)}]

InitialMasks == [c \in Chips |-> IF c = "master" THEN Lines \ {CASCADE} ELSE Lines]

-----------------------------------------------------------------------------
(* entry *)

\* Mutant of Following: the RTC is set up before the chips.
FollowingRtcFirst(step) ==
  CASE step = "init_IDT"   -> "init_RTC"
    [] step = "init_RTC"   -> "i8259_init"
    [] step = "i8259_init" -> "init_PIT"
    [] step = "init_PIT"   -> "sti"

\* The order in which entry calls them.
Following(step) ==
  CASE step = "init_IDT"   -> "i8259_init"
    [] step = "i8259_init" -> "init_RTC"
    [] step = "init_RTC"   -> "init_PIT"
    [] step = "init_PIT"   -> "sti"

InitIdt ==
  /\ at = "init_IDT"
  /\ at' = Following(at)
  /\ UNCHANGED <<pic, devices, kernel>>

\* ICW1 clears the chips.
InitPic ==
  /\ at = "i8259_init"
  /\ irr' = [c \in Chips |-> {}]
  /\ isr' = [c \in Chips |-> {}]
  /\ imr' = InitialMasks
  /\ at' = Following(at)
  /\ UNCHANGED <<devices, kernel>>

\* If a period has passed since register C was last read, the line goes up as
\* soon as register B says so.
InitRtc ==
  /\ at = "init_RTC"
  /\ periodic' = TRUE
  /\ irr' = IF register_c THEN Raised(RTC_IRQ) ELSE irr
  /\ imr' = Unmasked(RTC_IRQ)
  /\ idt' = idt \cup {RTC_IRQ}
  /\ at' = Following(at)
  /\ UNCHANGED <<isr, register_c, scan_code, quota, shell_count, scheduled_terminal>>

InitPit ==
  /\ at = "init_PIT"
  /\ idt' = idt \cup {PIT_IRQ}
  /\ imr' = Unmasked(PIT_IRQ)
  /\ at' = Following(at)
  /\ UNCHANGED <<irr, isr, devices, shell_count, scheduled_terminal>>

\* sti, and the idle loop.
EnableInterrupts ==
  /\ at = "sti"
  /\ at' = "interruptible"
  /\ UNCHANGED <<pic, devices, kernel>>

Boot == InitIdt \/ InitPic \/ InitRtc \/ InitPit \/ EnableInterrupts

-----------------------------------------------------------------------------
(* The devices *)

\* The handlers keep up: no device makes more than Burst requests before the
\* processor has none left to handle.
KeepsPace(irq) ==
  /\ quota[irq] > 0
  /\ quota' = [quota EXCEPT ![irq] = @ - 1]

PitPeriod ==
  /\ KeepsPace(PIT_IRQ)
  /\ irr' = Raised(PIT_IRQ)
  /\ UNCHANGED <<isr, imr, kernel, at, periodic, register_c, scan_code>>

\* The request line stays up until register C is read, and only a line that goes
\* up makes a request.
RtcPeriod ==
  /\ KeepsPace(RTC_IRQ)
  /\ register_c' = TRUE
  /\ irr' = IF periodic /\ ~register_c THEN Raised(RTC_IRQ) ELSE irr
  /\ UNCHANGED <<isr, imr, kernel, at, periodic, scan_code>>

\* Keys pressed before the chips are set up are lost.
KeyPress ==
  /\ at \notin {"init_IDT", "i8259_init"}
  /\ KeepsPace(KEYBOARD_IRQ)
  /\ ~scan_code
  /\ scan_code' = TRUE
  /\ irr' = Raised(KEYBOARD_IRQ)
  /\ UNCHANGED <<isr, imr, kernel, at, periodic, register_c>>

Devices == PitPeriod \/ RtcPeriod \/ KeyPress

-----------------------------------------------------------------------------
(* The processor *)

Entry(irq) ==
  CASE irq = PIT_IRQ      -> "PIT_handler"
    [] irq = KEYBOARD_IRQ -> "keyboard_handler"
    [] irq = RTC_IRQ      -> "RTC_interrupt"

\* The processor takes a request before it executes the next instruction, and the
\* chips put it in service.
TakeInterrupt ==
  /\ at = "interruptible"
  /\ Asked # {}
  /\ irr' = [irr EXCEPT ![Chip(NextIrq)] = @ \ {Line(NextIrq)}]
  /\ isr' = [c \in Chips |-> isr[c] \cup
               (IF c = Chip(NextIrq) THEN {Line(NextIrq)} ELSE {}) \cup
               (IF c = "master" /\ NextIrq >= 8 THEN {CASCADE} ELSE {})]
  /\ at' = Entry(NextIrq)
  /\ UNCHANGED <<imr, devices, kernel>>

\* Code that nobody interrupts for the moment.
Rest ==
  /\ at = "interruptible"
  /\ Asked = {}
  /\ quota' = [irq \in DeviceIrqs |-> Burst]
  /\ UNCHANGED <<pic, kernel, at, periodic, register_c, scan_code>>

\* A system call, an exception: interrupts are off until it returns, or until it
\* is a read and turns them on.
EnterKernel ==
  /\ at = "interruptible"
  /\ Asked = {}
  /\ shell_count > 0
  /\ at' = "system_call"
  /\ UNCHANGED <<pic, devices, kernel>>

LeaveKernel ==
  /\ at = "system_call"
  /\ at' = "interruptible"
  /\ UNCHANGED <<pic, devices, kernel>>

PitEoi ==
  /\ at = "PIT_handler"
  /\ SendEoi(PIT_IRQ)
  /\ at' = "scheduler"
  /\ UNCHANGED <<irr, imr, devices, kernel>>

\* Mutant of KeyboardDue: the first shell to boot gets the keyboard.
KeyboardDueFirst(shells) == shells = 1

KeyboardDue(shells) == shells = MaxTerminals

\* Ticks that find the scheduled terminal without a process boot it; execute does
\* not return, its iret turns interrupts on.  The last boot enables the keyboard.
BootTerminal ==
  /\ at = "scheduler"
  /\ scheduled_terminal = shell_count
  /\ shell_count' = shell_count + 1
  /\ LET due == KeyboardDue(shell_count')
     IN  /\ imr' = IF due THEN Unmasked(KEYBOARD_IRQ) ELSE imr
         /\ idt' = IF due THEN idt \cup {KEYBOARD_IRQ} ELSE idt
  /\ at' = "interruptible"
  /\ UNCHANGED <<irr, isr, devices, scheduled_terminal>>

NextTerminal(t) == (t + 1) % MaxTerminals

\* Otherwise the tick moves on, and returns into this process or into another
\* that was interrupted by a tick.
MoveOn ==
  /\ at = "scheduler"
  /\ scheduled_terminal # shell_count
  /\ scheduled_terminal' = NextTerminal(scheduled_terminal)
  /\ at' = "interruptible"
  /\ UNCHANGED <<pic, devices, idt, shell_count>>

\* Mutant of RegisterCRead: the interrupt is acknowledged at the chips only.
RegisterCNotRead == register_c

\* Reading register C takes the request line down.
RegisterCRead == FALSE

ReadRegisterC ==
  /\ at = "RTC_interrupt"
  /\ register_c' = RegisterCRead
  /\ at' = "countdowns"
  /\ UNCHANGED <<pic, kernel, periodic, scan_code, quota>>

\* The countdowns are VirtualRtc's.
RtcEoi ==
  /\ at = "countdowns"
  /\ SendEoi(RTC_IRQ)
  /\ at' = "interruptible"
  /\ UNCHANGED <<irr, imr, devices, kernel>>

ReadScanCode ==
  /\ at = "keyboard_handler"
  /\ scan_code' = FALSE
  /\ at' = "key"
  /\ UNCHANGED <<pic, kernel, periodic, register_c, quota>>

\* Every path through keyboard_handler ends with its EOI.
KeyboardEoi ==
  /\ at = "key"
  /\ SendEoi(KEYBOARD_IRQ)
  /\ at' = "interruptible"
  /\ UNCHANGED <<irr, imr, devices, kernel>>

Handlers ==
  \/ PitEoi \/ BootTerminal \/ MoveOn
  \/ ReadRegisterC \/ RtcEoi
  \/ ReadScanCode \/ KeyboardEoi
  \/ LeaveKernel

Next == Boot \/ Devices \/ TakeInterrupt \/ Rest \/ EnterKernel \/ Handlers

Spec == Init /\ [][Next]_vars

\* The processor executes, the two timers run, and system calls do not take all
\* of its time.
FairSpec ==
  /\ Spec
  /\ WF_vars(Boot) /\ WF_vars(TakeInterrupt) /\ WF_vars(Handlers) /\ SF_vars(Rest)
  /\ WF_vars(PitPeriod) /\ WF_vars(RtcPeriod)

-----------------------------------------------------------------------------
(* Properties *)

Served ==
  CASE at = "PIT_handler"                        -> {<<"master", PIT_IRQ>>}
    [] at \in {"keyboard_handler", "key"}        -> {<<"master", KEYBOARD_IRQ>>}
    [] at \in {"RTC_interrupt", "countdowns"}    -> {<<"master", CASCADE>>, <<"slave", 0>>}
    [] OTHER                                     -> {}

\* Type invariant, with the interrupts that have a handler.
TypeOK ==
  /\ irr \in [Chips -> SUBSET Lines]
  /\ isr \in [Chips -> SUBSET Lines]
  /\ imr \in [Chips -> SUBSET Lines]
  /\ idt \subseteq DeviceIrqs
  /\ at \in BootSteps \cup {"interruptible", "system_call", "PIT_handler", "scheduler",
            "RTC_interrupt", "countdowns", "keyboard_handler", "key"}
  /\ {periodic, register_c, scan_code} \subseteq BOOLEAN
  /\ quota \in [DeviceIrqs -> 0 .. Burst]
  /\ shell_count \in 0 .. MaxTerminals
  /\ scheduled_terminal \in 0 .. MaxTerminals - 1

\* What the chips hold in service is what the processor is handling: no EOI is
\* missing, names another line or forgets the master, and in particular the timer's
\* is sent before scheduler goes to a process that will not come back (send_eoi,
\* PIT_handler, RTC_interrupt, keyboard_handler).
InServiceIsHandled ==
  {line \in Chips \X Lines : line[2] \in isr[line[1]]} = Served

\* The processor is never sent to a vector without a handler, from the sti of entry
\* to the boot of the last terminal; and no key is handled before that boot (entry,
\* init_RTC, init_PIT, scheduler, init_keyboard).
NoStrayInterrupt ==
  /\ at = "interruptible" /\ Asked # {} => NextIrq \in idt
  /\ at \in {"keyboard_handler", "key"} => shell_count = MaxTerminals

\* The RTC never falls silent: an interrupt whose register C is unread is on its way
\* to the handler that reads it (init_RTC, RTC_interrupt).
RtcNotSilent ==
  periodic /\ register_c => 0 \in irr["slave"] \/ at = "RTC_interrupt"

\* Once booted, ticks and RTC interrupts are handled for ever, and every key is read:
\* what Tick and RtcInterrupt are assumed to do elsewhere (PIT_handler, RTC_interrupt,
\* keyboard_handler, enable_irq).
RequestsServed ==
  /\ []<>(at = "scheduler")
  /\ []<>(at = "countdowns")
  /\ scan_code ~> ~scan_code

================================================================================
