--------------------------- MODULE InterruptsProofs ---------------------------
(***************************************************************************)
(* Proofs about Interrupts, for every number of terminals and of requests. *)
(***************************************************************************)
EXTENDS Interrupts, TLAPS

Running == at \notin BootSteps

\* What entry has set up when it comes to a statement.  The keyboard is the
\* scheduler's.
HandledAtBoot ==
  /\ at \in {"init_IDT", "i8259_init", "init_RTC"} => idt = {}
  /\ at = "init_PIT" => idt = {RTC_IRQ}
  /\ at = "sti" => idt = {RTC_IRQ, PIT_IRQ}
  /\ at \in BootSteps => shell_count = 0
  /\ Running => idt = {RTC_IRQ, PIT_IRQ}
                        \cup (IF shell_count = MaxTerminals THEN {KEYBOARD_IRQ} ELSE {})

\* Once the chips are set up they let through what has a handler, and the cascade.
MasksFollowHandlers ==
  at \notin {"init_IDT", "i8259_init"} =>
    \A k \in Lines :
      /\ k \notin imr["master"] <=> k = CASCADE \/ k \in idt \cap {PIT_IRQ, KEYBOARD_IRQ}
      /\ k \notin imr["slave"] <=> k = 0 /\ RTC_IRQ \in idt

\* The RTC makes no requests before it is told to; a key is handled after the last boot.
QuietUntilTold ==
  /\ at \in {"init_IDT", "i8259_init", "init_RTC"} => ~periodic
  /\ at \in {"keyboard_handler", "key"} => shell_count = MaxTerminals

\* The inductive invariant.  That a request has a handler follows from the masks, that
\* the right lines are in service from the request that is taken, and that the RTC's
\* request is not cleared by i8259_init from its being quiet until then.
IInv ==
  /\ TypeOK
  /\ HandledAtBoot
  /\ MasksFollowHandlers
  /\ QuietUntilTold
  /\ InServiceIsHandled
  /\ RtcNotSilent

USE DEF PIT_IRQ, KEYBOARD_IRQ, CASCADE, RTC_IRQ, DeviceIrqs, Chips, Lines

-----------------------------------------------------------------------------
(* The request the processor takes *)

LEMMA MinOfLines ==
  ASSUME NEW S \in SUBSET {0, 1, 2}, S # {}
  PROVE  Min(S) \in S
<1>1. \E x \in S : \A y \in S : x <= y
  <2>1. CASE 0 \in S
    BY <2>1
  <2>2. CASE 0 \notin S /\ 1 \in S
    BY <2>2
  <2>3. CASE S = {2}
    BY <2>3
  <2>4. QED
    BY <2>1, <2>2, <2>3
<1>2. QED
  BY <1>1 DEF Min

\* While the processor can be interrupted, nothing is in service.
LEMMA NothingInService ==
  ASSUME TypeOK, InServiceIsHandled, at = "interruptible"
  PROVE  isr["master"] = {} /\ isr["slave"] = {}
<1>1. Served = {}
  BY DEF Served
<1>2. ASSUME NEW c \in Chips, NEW k \in Lines  PROVE k \notin isr[c]
  <2> DEFINE l == <<c, k>>
  <2>1. l \in Chips \X Lines /\ l[1] = c /\ l[2] = k
    OBVIOUS
  <2>2. l \notin {line \in Chips \X Lines : line[2] \in isr[line[1]]}
    BY <1>1 DEF InServiceIsHandled
  <2>3. QED
    BY <2>1, <2>2
<1>3. QED
  BY <1>2 DEF TypeOK

\* While nothing is in service, the chips offer an IRQ that has a handler.
LEMMA NextIrqHasHandler ==
  ASSUME IInv, at = "interruptible", Asked # {}
  PROVE  NextIrq \in idt /\ NextIrq \in {0, 1, 8}
<1>1. isr["master"] = {} /\ isr["slave"] = {}
  BY NothingInService DEF IInv
<1>2. \A c \in Chips : \A requests : Candidates(c, requests) = requests \ imr[c]
  BY <1>1 DEF Candidates
<1> DEFINE slave == Candidates("slave", irr["slave"])
<1>3. slave \subseteq {0} /\ (slave # {} => RTC_IRQ \in idt)
  BY <1>2 DEF IInv, TypeOK, MasksFollowHandlers
<1>4. /\ Asked \subseteq {0, 1, 2}
      /\ \A k \in Asked : IF k = CASCADE THEN slave # {} ELSE k \in idt
  <2>1. Asked = ((irr["master"] \ {CASCADE}) \cup (IF slave # {} THEN {CASCADE} ELSE {})) \ imr["master"]
    BY <1>2 DEF Asked, SlaveAsks
  <2>2. irr["master"] \subseteq Lines
    BY DEF IInv, TypeOK
  <2>3. \A k \in Lines : k \notin imr["master"] => k = CASCADE \/ k \in idt \cap {PIT_IRQ, KEYBOARD_IRQ}
    BY DEF IInv, MasksFollowHandlers
  <2>4. QED
    BY <2>1, <2>2, <2>3
<1>5. Min(Asked) \in Asked
  BY <1>4, MinOfLines
<1>6. CASE Min(Asked) = CASCADE
  <2>1. slave = {0}
    BY <1>3, <1>4, <1>5, <1>6
  <2>2. Min(slave) = 0
    BY <2>1, MinOfLines
  <2>3. QED
    BY <1>3, <1>6, <2>1, <2>2 DEF NextIrq
<1>7. CASE Min(Asked) # CASCADE
  BY <1>4, <1>5, <1>7 DEF NextIrq
<1>8. QED
  BY <1>6, <1>7

-----------------------------------------------------------------------------
(* Every step preserves the invariant *)

LEMMA InitIInv == Init => IInv
<1> SUFFICES ASSUME Init  PROVE IInv
  OBVIOUS
<1>1. TypeOK
  <2>1. irr \in [Chips -> SUBSET Lines]
    BY DEF Init
  <2>2. isr \in [Chips -> SUBSET Lines] /\ imr \in [Chips -> SUBSET Lines]
    BY DEF Init
  <2>3. quota \in [DeviceIrqs -> 0 .. Burst]
    BY InterruptsAssumption DEF Init
  <2>4. {periodic, register_c, scan_code} \subseteq BOOLEAN
    BY Zenon DEF Init
  <2>5. shell_count \in 0 .. MaxTerminals /\ scheduled_terminal \in 0 .. MaxTerminals - 1
    BY InterruptsAssumption DEF Init
  <2>6. idt \subseteq DeviceIrqs /\ at \in BootSteps
    BY DEF Init, BootSteps
  <2>7. QED
    BY <2>1, <2>2, <2>3, <2>4, <2>5, <2>6 DEF TypeOK
<1>2. InServiceIsHandled
  BY DEF Init, InServiceIsHandled, Served
<1>3. HandledAtBoot /\ MasksFollowHandlers /\ QuietUntilTold /\ RtcNotSilent
  BY DEF Init, HandledAtBoot, MasksFollowHandlers, QuietUntilTold, RtcNotSilent, BootSteps, Running
<1>4. QED
  BY <1>1, <1>2, <1>3 DEF IInv

\* entry: each device is set up behind masks and with interrupts off.
LEMMA BootIInv ==
  ASSUME IInv, Boot
  PROVE  IInv'
<1> USE DEF IInv, TypeOK, HandledAtBoot, MasksFollowHandlers, QuietUntilTold,
            InServiceIsHandled, RtcNotSilent, Served, BootSteps, Running, Following
<1>1. CASE InitIdt
  BY <1>1 DEF InitIdt, pic, devices, kernel
<1>2. CASE InitPic
  BY <1>2 DEF InitPic, devices, kernel, InitialMasks
<1>3. CASE InitRtc
  BY <1>3 DEF InitRtc, Raised, Unmasked, Chip, Line
<1>4. CASE InitPit
  BY <1>4 DEF InitPit, Unmasked, Chip, Line, devices
<1>5. CASE EnableInterrupts
  BY <1>5, InterruptsAssumption DEF EnableInterrupts, pic, devices, kernel
<1>6. QED
  BY <1>1, <1>2, <1>3, <1>4, <1>5 DEF Boot

\* A device raises a request: that concerns irr, and the RTC's request stays.
LEMMA DevicesIInv ==
  ASSUME IInv, Devices
  PROVE  IInv'
<1>1. /\ UNCHANGED <<isr, imr, kernel, at, periodic>>
      /\ irr' \in [Chips -> SUBSET Lines]
      /\ register_c' \in BOOLEAN /\ scan_code' \in BOOLEAN
      /\ quota' \in [DeviceIrqs -> 0 .. Burst]
  <2>1. ASSUME NEW irq \in DeviceIrqs  PROVE Raised(irq) \in [Chips -> SUBSET Lines]
    BY DEF IInv, TypeOK, Raised, Chip, Line
  <2>2. ASSUME NEW irq \in DeviceIrqs, KeepsPace(irq)
        PROVE  quota' \in [DeviceIrqs -> 0 .. Burst]
    BY <2>2, InterruptsAssumption DEF IInv, TypeOK, KeepsPace
  <2>3. CASE PitPeriod
    BY <2>1, <2>2, <2>3 DEF IInv, TypeOK, PitPeriod, kernel
  <2>4. CASE RtcPeriod
    BY <2>1, <2>2, <2>4 DEF IInv, TypeOK, RtcPeriod, kernel
  <2>5. CASE KeyPress
    BY <2>1, <2>2, <2>5 DEF IInv, TypeOK, KeyPress, kernel
  <2>6. QED
    BY <2>3, <2>4, <2>5 DEF Devices
<1>2. RtcNotSilent'
  <2>1. \A irq \in DeviceIrqs : 0 \in irr["slave"] => 0 \in Raised(irq)["slave"]
    BY DEF IInv, TypeOK, Raised, Chip
  <2>2. 0 \in Raised(RTC_IRQ)["slave"]
    BY DEF IInv, TypeOK, Raised, Chip, Line
  <2>3. CASE PitPeriod
    BY <2>1, <2>3 DEF IInv, RtcNotSilent, PitPeriod
  <2>4. CASE RtcPeriod
    BY <2>2, <2>4 DEF IInv, RtcNotSilent, RtcPeriod
  <2>5. CASE KeyPress
    BY <2>1, <2>5 DEF IInv, RtcNotSilent, KeyPress
  <2>6. QED
    BY <2>3, <2>4, <2>5 DEF Devices
<1>3. QED
  BY <1>1, <1>2 DEF IInv, TypeOK, HandledAtBoot, MasksFollowHandlers, QuietUntilTold,
                    InServiceIsHandled, Served, Running, kernel

\* The lines of the IRQ that is taken go into service, and its handler runs.
LEMMA TakeInterruptIInv ==
  ASSUME IInv, TakeInterrupt
  PROVE  IInv'
<1>1. NextIrq \in idt /\ NextIrq \in {0, 1, 8}
  BY NextIrqHasHandler DEF TakeInterrupt
<1>2. isr["master"] = {} /\ isr["slave"] = {}
  BY NothingInService DEF IInv, TakeInterrupt
<1>3. /\ irr' \in [Chips -> SUBSET Lines] /\ isr' \in [Chips -> SUBSET Lines]
      /\ UNCHANGED <<imr, devices, kernel>>
  BY <1>1, <1>2 DEF TakeInterrupt, IInv, TypeOK, Chip, Line
<1>4. InServiceIsHandled'
  BY <1>1, <1>2, <1>3 DEF TakeInterrupt, InServiceIsHandled, Served, Entry, Chip, Line, IInv, TypeOK
<1>5. RtcNotSilent'
  BY <1>1, <1>3 DEF TakeInterrupt, RtcNotSilent, Entry, Chip, Line, IInv, TypeOK, devices
<1>6. at' \in {"PIT_handler", "keyboard_handler", "RTC_interrupt"}
  BY <1>1 DEF TakeInterrupt, Entry
<1>7. QuietUntilTold'
  BY <1>1, <1>3, <1>6
  DEF TakeInterrupt, Entry, IInv, HandledAtBoot, QuietUntilTold, Running, BootSteps, kernel, devices
<1>8. HandledAtBoot' /\ MasksFollowHandlers'
  BY <1>3, <1>6 DEF TakeInterrupt, IInv, HandledAtBoot, MasksFollowHandlers, Running, BootSteps, kernel
<1>9. TypeOK'
  BY <1>3, <1>6 DEF IInv, TypeOK, kernel, devices
<1>10. QED
  BY <1>4, <1>5, <1>7, <1>8, <1>9 DEF IInv

\* Rest, and code that keeps interrupts off.
LEMMA ProcessorIInv ==
  ASSUME IInv, Rest \/ EnterKernel \/ LeaveKernel
  PROVE  IInv'
BY InterruptsAssumption
DEF Rest, EnterKernel, LeaveKernel, IInv, TypeOK, HandledAtBoot, MasksFollowHandlers, QuietUntilTold,
    InServiceIsHandled, RtcNotSilent, Served, BootSteps, Running, pic, devices, kernel

\* Each handler ends the lines it was entered for, before it may go elsewhere.
LEMMA HandlersIInv ==
  ASSUME IInv, Handlers
  PROVE  IInv'
<1> USE DEF IInv, TypeOK, HandledAtBoot, MasksFollowHandlers, QuietUntilTold,
            InServiceIsHandled, RtcNotSilent, Served, BootSteps, Running
<1>1. CASE PitEoi
  BY <1>1 DEF PitEoi, SendEoi, EoiLines, Chip, Line, devices, kernel
<1>2. CASE BootTerminal
  BY <1>2, InterruptsAssumption DEF BootTerminal, KeyboardDue, Unmasked, Chip, Line, devices
<1>3. CASE MoveOn
  BY <1>3, InterruptsAssumption DEF MoveOn, NextTerminal, pic, devices
<1>4. CASE ReadRegisterC
  BY <1>4 DEF ReadRegisterC, RegisterCRead, pic, kernel
<1>5. CASE RtcEoi
  BY <1>5 DEF RtcEoi, SendEoi, EoiLines, Chip, Line, devices, kernel
<1>6. CASE ReadScanCode
  BY <1>6 DEF ReadScanCode, pic, kernel
<1>7. CASE KeyboardEoi
  BY <1>7 DEF KeyboardEoi, SendEoi, EoiLines, Chip, Line, devices, kernel
<1>8. CASE LeaveKernel
  BY <1>8, ProcessorIInv
<1>9. QED
  BY <1>1, <1>2, <1>3, <1>4, <1>5, <1>6, <1>7, <1>8 DEF Handlers

\* Every step preserves the invariant.
THEOREM Invariance == Spec => []IInv
<1>1. IInv /\ [Next]_vars => IInv'
  <2> SUFFICES ASSUME IInv, [Next]_vars  PROVE IInv'
    OBVIOUS
  <2>1. CASE UNCHANGED vars
    BY <2>1 DEF vars, pic, devices, IInv, TypeOK, HandledAtBoot, MasksFollowHandlers,
                QuietUntilTold, InServiceIsHandled, RtcNotSilent, Served, Running
  <2>2. QED
    BY <2>1, BootIInv, DevicesIInv, TakeInterruptIInv, ProcessorIInv, HandlersIInv DEF Next
<1>2. QED
  BY InitIInv, <1>1, PTL DEF Spec

-----------------------------------------------------------------------------

\* The type invariant.
THEOREM TypeCorrect == Spec => []TypeOK
<1>1. IInv => TypeOK
  BY DEF IInv
<1>2. QED
  BY Invariance, <1>1, PTL

\* No EOI is missing, early, or sent to the wrong chip (send_eoi and the handlers).
THEOREM ServiceIsHandled == Spec => []InServiceIsHandled
<1>1. IInv => InServiceIsHandled
  BY DEF IInv
<1>2. QED
  BY Invariance, <1>1, PTL

\* The processor is never sent to a vector without a handler (entry, init_keyboard).
THEOREM NoInterruptStrays == Spec => []NoStrayInterrupt
<1>1. IInv => NoStrayInterrupt
  BY NextIrqHasHandler DEF IInv, NoStrayInterrupt, QuietUntilTold
<1>2. QED
  BY Invariance, <1>1, PTL

\* The RTC's interrupt is always on its way to the read of register C (init_RTC,
\* RTC_interrupt).
THEOREM RtcIsHeard == Spec => []RtcNotSilent
<1>1. IInv => RtcNotSilent
  BY DEF IInv
<1>2. QED
  BY Invariance, <1>1, PTL

===============================================================================
