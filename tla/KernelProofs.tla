---------------------------- MODULE KernelProofs ----------------------------
(***************************************************************************)
(* Theorems about Kernel, for every number of pages, word size, tick count *)
(* and set of request sizes. Three inductive invariants are laid on one    *)
(* another: ControlInv for interrupts and the nesting of threads, handlers *)
(* and calls; PanicInv for panics; KernelInv for the pages, which joins    *)
(* the control state to the invariant of the allocator, proved in          *)
(* DefaultPmmProofs and reused here through INSTANCE.                      *)
(***************************************************************************)
EXTENDS Kernel, FiniteSetTheorems, TLAPS

\* The interrupt enable that the interrupted code will see again: in a trap
\* it is kept in SPIE.
ThreadSie == IF trap = "none" THEN sie ELSE spie
\* kern_init before and while it turns interrupts on.
Booting == kern \in {"default_check", "set_sie", "set_timer", "zero_ticks", "intr_enable"}
\* Between local_intr_save and local_intr_restore.
Guarded == api \in {"call", "manager", "intr_restore"}

ControlType ==
  /\ {sie, spie, intr_flag, caller_sie, is_panic, DEBUG_GRADE} \subseteq BOOLEAN
  /\ api \in {"none", "intr_save", "intr_disable", "call", "manager", "intr_restore", "return"}

(***************************************************************************)
(* A trap handler runs with interrupts off. Until boot is over they are    *)
(* off for the thread too, so the only traps are exceptions. A call of     *)
(* alloc_pages, free_pages or nr_free_pages finds the interrupt enable its *)
(* caller had, and carries it in intr_flag while the manager runs with     *)
(* interrupts off. IrqRestored alone is not inductive: it says nothing of  *)
(* the steps between the save and the restore.                             *)
(***************************************************************************)
IrqInv ==
  /\ trap # "none" => ~sie
  /\ Booting => ~ThreadSie /\ ~caller_sie /\ ticks = 0
  /\ Booting => trap \in {"none", "exception_handler", "sret"}
  /\ api # "none" => kern \in {"default_check", "running"}
  /\ api \in {"intr_save", "return"} => ThreadSie = caller_sie
  /\ api = "intr_disable" => ThreadSie /\ caller_sie
  /\ Guarded => trap = "none" /\ ~sie /\ intr_flag = caller_sie
  /\ pc # "idle" => api = "manager"

ControlInv == ControlType /\ IrqInv

LEMMA ControlInit == Init => ControlInv
  BY KernelConstants DEF Init, ControlInv, ControlType, IrqInv, ThreadSie, Booting, Guarded

LEMMA ControlStep == ControlInv /\ [Next]_vars => ControlInv'
<1> SUFFICES ASSUME ControlInv, [Next]_vars PROVE ControlInv'
  OBVIOUS
<1> USE DEF ControlInv, ControlType, IrqInv, ThreadSie, Booting, Guarded, Running, pmm, irq,
            clock, around, thread, intr_enable, intr_disable
<1>1. CASE Boot
  <2>1. CASE CheckDone
    BY <2>1 DEF CheckDone, KernGoto
  <2>2. CASE SetStie
    BY <2>2 DEF SetStie, KernGoto
  <2>3. CASE ArmTimer
    BY <2>3 DEF ArmTimer, KernGoto
  <2>4. CASE ZeroTicks
    BY <2>4 DEF ZeroTicks, KernGoto
  <2>5. CASE IntrEnable
    BY <2>5 DEF IntrEnable, KernGoto
  <2> QED
    BY <1>1, <2>1, <2>2, <2>3, <2>4, <2>5 DEF Boot
<1>2. CASE Callers
  BY <1>2 DEF Callers, CallApi, CallPanic, Calling
<1>3. CASE IntrSave
  BY <1>3 DEF IntrSave
<1>4. CASE IntrDisable
  BY <1>4 DEF IntrDisable
<1>5. CASE CallManager
  BY <1>5 DEF CallManager
<1>6. CASE ManagerStep
  BY <1>6 DEF ManagerStep
<1>7. CASE ManagerReturns
  BY <1>7 DEF ManagerReturns
<1>8. CASE IntrRestore
  <2>1. CASE intr_flag = TRUE
    BY <1>8, <2>1 DEF IntrRestore
  <2>2. CASE intr_flag = FALSE
    <3>1. sie = FALSE /\ caller_sie = FALSE
      BY <1>8, <2>2 DEF IntrRestore
    <3>2. sie' = FALSE
      BY <1>8, <2>2, <3>1 DEF IntrRestore
    <3> QED
      BY <1>8, <3>1, <3>2 DEF IntrRestore
  <2> QED
    BY <2>1, <2>2
<1>9. CASE ApiReturn
  BY <1>9 DEF ApiReturn
<1>10. CASE Expire
  BY <1>10 DEF Expire
<1>11. CASE TakeInterrupt
  BY <1>11 DEF TakeInterrupt, EnterTrap
<1>12. CASE TakeException
  BY <1>12 DEF TakeException, EnterTrap, Calling
<1>13. CASE Handler
  <2>1. CASE SetNextEvent
    BY <2>1 DEF SetNextEvent
  <2>2. CASE CountTick
    BY <2>2 DEF CountTick
  <2>3. CASE print_ticks
    BY <2>3 DEF print_ticks
  <2>4. CASE exception_handler
    BY <2>4 DEF exception_handler
  <2>5. CASE Sret
    BY <2>5 DEF Sret
  <2> QED
    BY <1>13, <2>1, <2>2, <2>3, <2>4, <2>5 DEF Handler
<1>14. CASE PanicStep
  <2>1. CASE TestPanic
    BY <2>1 DEF TestPanic, Goto
  <2>2. CASE SetPanic
    BY <2>2 DEF SetPanic, Goto
  <2>3. CASE PrintPanic
    BY <2>3 DEF PrintPanic, Goto
  <2>4. CASE PanicDead
    BY <2>4 DEF PanicDead, Goto
  <2> QED
    BY <1>14, <2>1, <2>2, <2>3, <2>4 DEF PanicStep
<1>15. CASE UNCHANGED vars
  BY <1>15 DEF vars
<1> QED
  BY <1>1, <1>2, <1>3, <1>4, <1>5, <1>6, <1>7, <1>8, <1>9, <1>10, <1>11, <1>12, <1>13,
     <1>14, <1>15 DEF Next, ApiStep, StayInMonitor

\* ControlInv holds in every reachable state: local_intr_save, sret and
\* intr_enable keep SIE, SPIE and intr_flag consistent under every
\* interleaving of traps.
THEOREM ControlInvariant == Spec => []ControlInv
  BY ControlInit, ControlStep, PTL DEF Spec

\* Nothing interrupts a call of the manager between local_intr_save and
\* local_intr_restore, and no trap handler runs then: see CallsUninterrupted
\* in Kernel.
THEOREM CallsNotInterrupted == Spec => []CallsUninterrupted
<1>1. ControlInv => CallsUninterrupted
  BY DEF ControlInv, ControlType, IrqInv, CallsUninterrupted, Guarded
<1> QED
  BY <1>1, ControlInvariant, PTL

\* alloc_pages, free_pages and nr_free_pages return with the interrupt enable
\* their caller had: see IrqRestored in Kernel.
THEOREM InterruptsRestored == Spec => []IrqRestored
<1>1. ControlInv => IrqRestored
  BY DEF ControlInv, IrqInv, IrqRestored, ThreadSie
<1> QED
  BY <1>1, ControlInvariant, PTL

\* The tick counter only ever stays or grows by one: kern_init zeroes it
\* before interrupts are on, so no tick is lost: see TicksOnlyGrow in Kernel.
THEOREM NoTickLost == Spec => TicksOnlyGrow
<1>1. ControlInv /\ [Next]_vars => [ticks' \in {ticks, (ticks + 1) % TICKWORD}]_vars
  <2> SUFFICES ASSUME ControlInv, Next PROVE ticks' \in {ticks, (ticks + 1) % TICKWORD}
    OBVIOUS
  <2>1. CASE ZeroTicks
    BY <2>1 DEF ZeroTicks, KernGoto, ControlInv, IrqInv, Booting
  <2>2. CASE CountTick
    BY <2>2 DEF CountTick
  <2>3. CASE ~ZeroTicks /\ ~CountTick
    BY <2>3 DEF Next, Boot, CheckDone, SetStie, ArmTimer, IntrEnable, Callers, CallApi, CallPanic,
       ApiStep, IntrSave, IntrDisable, CallManager, ManagerStep, ManagerReturns, IntrRestore,
       ApiReturn, Expire, TakeInterrupt, TakeException, EnterTrap, Handler, SetNextEvent,
       print_ticks, exception_handler, Sret, PanicStep, TestPanic, SetPanic, PrintPanic,
       PanicDead, Goto, StayInMonitor, vars, clock
  <2> QED
    BY <2>1, <2>2, <2>3
<1> QED
  BY <1>1, ControlInvariant, PTL DEF Spec, TicksOnlyGrow

-----------------------------------------------------------------------------
\* Where __panic is, in a thread or in a handler.
Printing == {"print", "print_rest"}
Printed  == {"panic_dead", "kmonitor"}
HandlerPanics == trap \in {"__panic", "set_is_panic"} \cup Printing \cup Printed

(***************************************************************************)
(* Where is_panic stands while a panic of the thread is interrupted by a   *)
(* panic of the tick handler. A handler that found is_panic unset has      *)
(* found the thread before its own message; a handler that found it set    *)
(* has cut the thread off while it printed.                                *)
(***************************************************************************)
PanicInv ==
  /\ kern = "kmonitor" => trap = "none" /\ ~sie
  /\ HandlerPanics => DEBUG_GRADE
  /\ trap \notin Printing \cup Printed =>
       /\ is_panic <=> kern \in Printing \cup Printed
       /\ kern \in Printed => message = "whole"
  /\ trap \in {"set_is_panic"} \cup Printing => kern \notin Printing \cup Printed
  /\ trap \in Printed => message = "whole" \/ kern \in Printing

LEMMA PanicInit == Init => PanicInv
  BY DEF Init, PanicInv, Printing, Printed, HandlerPanics

LEMMA PanicNext == ControlInv /\ PanicInv /\ [Next]_vars => PanicInv'
<1> SUFFICES ASSUME ControlInv, PanicInv, [Next]_vars PROVE PanicInv'
  OBVIOUS
<1> USE DEF PanicInv, Printing, Printed, HandlerPanics, Running, pmm, irq, clock, around, thread
<1>1. CASE Boot
  BY <1>1 DEF Boot, CheckDone, SetStie, ArmTimer, ZeroTicks, IntrEnable, KernGoto, intr_enable
<1>2. CASE Callers
  BY <1>2 DEF Callers, CallApi, CallPanic, Calling
<1>3. CASE ApiStep
  <2>1. kern # "kmonitor"
    BY <1>3 DEF ApiStep, IntrSave, IntrDisable, CallManager, ManagerStep, ManagerReturns,
       IntrRestore, ApiReturn, ControlInv, IrqInv
  <2> QED
    BY <1>3, <2>1 DEF ApiStep, IntrSave, IntrDisable, CallManager, ManagerStep, ManagerReturns,
       IntrRestore, ApiReturn
<1>4. CASE Expire
  BY <1>4 DEF Expire
<1>5. CASE TakeInterrupt
  BY <1>5 DEF TakeInterrupt, EnterTrap
<1>6. CASE TakeException
  BY <1>6 DEF TakeException, EnterTrap, Calling
<1>7. CASE Handler
  <2>1. CASE SetNextEvent
    BY <2>1 DEF SetNextEvent
  <2>2. CASE CountTick
    BY <2>2 DEF CountTick
  <2>3. CASE print_ticks
    BY <2>3 DEF print_ticks
  <2>4. CASE exception_handler
    BY <2>4 DEF exception_handler
  <2>5. CASE Sret
    BY <2>5 DEF Sret
  <2> QED
    BY <1>7, <2>1, <2>2, <2>3, <2>4, <2>5 DEF Handler
<1>8. CASE PanicStep
  <2>1. CASE TestPanic
    BY <2>1 DEF TestPanic, Goto
  <2>2. CASE SetPanic
    BY <2>2 DEF SetPanic, Goto
  <2>3. CASE PrintPanic
    BY <2>3 DEF PrintPanic, Goto
  <2>4. CASE PanicDead
    BY <2>4 DEF PanicDead, Goto, intr_disable
  <2> QED
    BY <1>8, <2>1, <2>2, <2>3, <2>4 DEF PanicStep
<1>9. CASE UNCHANGED vars
  BY <1>9 DEF vars
<1> QED
  BY <1>1, <1>2, <1>3, <1>4, <1>5, <1>6, <1>7, <1>8, <1>9 DEF Next, StayInMonitor

\* PanicInv holds in every reachable state of the two nested __panic calls.
THEOREM PanicInvariant == Spec => []PanicInv
  BY ControlInvariant, PanicInit, PanicNext, PTL DEF Spec

\* When the monitor is reached the whole message of a panic is on the screen,
\* unless a panic of the handler cut it off: see PanicMessage in Kernel.
THEOREM MessageShown == Spec => []PanicMessage
<1>1. PanicInv => PanicMessage
  BY DEF PanicInv, PanicMessage, InMonitor, Running, Printing, Printed, HandlerPanics
<1> QED
  BY <1>1, PanicInvariant, PTL

(***************************************************************************)
(* kmonitor, entered by __panic, is never left, and while it runs no page, *)
(* no interrupt enable, no tick and no message changes. This is the part   *)
(* of PanicIsFinal that holds at every step.                               *)
(***************************************************************************)
MonitorKeepsAll == [][InMonitor => InMonitor' /\ UNCHANGED <<pmm, irq, ticks, message, held>>]_vars

\* Once in kmonitor, always in kmonitor, with the memory as the panic left
\* it.
THEOREM MonitorIsFinal == Spec => MonitorKeepsAll
<1>1. ControlInv /\ PanicInv /\ [Next]_vars =>
        [InMonitor => InMonitor' /\ UNCHANGED <<pmm, irq, ticks, message, held>>]_vars
  <2> SUFFICES ASSUME ControlInv, PanicInv, Next, InMonitor
               PROVE  InMonitor' /\ UNCHANGED <<pmm, irq, ticks, message, held>>
    OBVIOUS
  <2>1. /\ ~sie
        /\ trap = "none" => kern = "kmonitor" /\ api = "none"
        /\ trap # "none" => trap = "kmonitor"
    BY DEF InMonitor, Running, ControlInv, IrqInv, PanicInv
  <2>2. Expire \/ StayInMonitor
    BY <2>1 DEF Next, Boot, CheckDone, SetStie, ArmTimer, ZeroTicks, IntrEnable, KernGoto, Callers,
       CallApi, CallPanic, Calling, ApiStep, IntrSave, IntrDisable, CallManager, ManagerStep,
       ManagerReturns, IntrRestore, ApiReturn, TakeInterrupt, TakeException, Handler,
       SetNextEvent, CountTick, print_ticks, exception_handler, Sret, PanicStep, TestPanic,
       SetPanic, PrintPanic, PanicDead, Goto, Running
  <2> QED
    BY <2>2 DEF Expire, StayInMonitor, InMonitor, Running, vars, pmm, irq, clock, thread, around
<1> QED
  BY <1>1, ControlInvariant, PanicInvariant, PTL DEF Spec, MonitorKeepsAll

-----------------------------------------------------------------------------
\* The manager with callers that keep the contract of free_pages
\* (disciplined), and no history of its calls.
Manager == INSTANCE DefaultPmmProofs WITH disciplined <- TRUE, op <- <<>>

\* The manager that Kernel runs is the one DefaultPmmProofs is about.
LEMMA SameStep == Pmm!Step => Manager!Step
<1> USE DEF Pmm!Return, Manager!Return, Pmm!Iterate, Manager!Iterate, Pmm!NextLoop,
            Manager!NextLoop, Pmm!InBlock, Manager!InBlock, Pmm!WordAdd, Manager!WordAdd,
            Pmm!PageReserved, Manager!PageReserved, Pmm!PG_reserved, Manager!PG_reserved,
            Pmm!PageAllocated, Manager!PageAllocated, Pmm!PG_allocated, Manager!PG_allocated
<1>1. Pmm!CheckReserved => Manager!CheckReserved
  BY DEF Pmm!CheckReserved, Manager!CheckReserved
<1>2. Pmm!CheckAllocated => Manager!CheckAllocated
  BY DEF Pmm!CheckAllocated, Manager!CheckAllocated
<1>3. Pmm!ClearReserved => Manager!ClearReserved
  BY DEF Pmm!ClearReserved, Manager!ClearReserved, Pmm!clear_bit, Manager!clear_bit
<1>4. Pmm!InitMemmapDone => Manager!InitMemmapDone
  BY DEF Pmm!InitMemmapDone, Manager!InitMemmapDone
<1>5. Pmm!ScanTaken => Manager!ScanTaken
  BY DEF Pmm!ScanTaken, Manager!ScanTaken, Pmm!Taken, Manager!Taken
<1>6. Pmm!ScanUsable => Manager!ScanUsable
  BY DEF Pmm!ScanUsable, Manager!ScanUsable, Pmm!Taken, Manager!Taken
<1>7. Pmm!ScanFailed => Manager!ScanFailed
  BY DEF Pmm!ScanFailed, Manager!ScanFailed
<1>8. Pmm!SetAllocated => Manager!SetAllocated
  BY DEF Pmm!SetAllocated, Manager!SetAllocated, Pmm!set_bit, Manager!set_bit
<1>9. Pmm!AllocDone => Manager!AllocDone
  BY DEF Pmm!AllocDone, Manager!AllocDone, Pmm!WordSub, Manager!WordSub
<1>10. Pmm!ClearAllocated => Manager!ClearAllocated
  BY DEF Pmm!ClearAllocated, Manager!ClearAllocated, Pmm!clear_bit, Manager!clear_bit
<1>11. Pmm!FreeDone => Manager!FreeDone
  BY DEF Pmm!FreeDone, Manager!FreeDone
<1> QED
  BY <1>1, <1>2, <1>3, <1>4, <1>5, <1>6, <1>7, <1>8, <1>9, <1>10, <1>11
  DEF Pmm!Step, Manager!Step

\* The same for the calls.
LEMMA SameCalls ==
  ASSUME NEW b, NEW k
  PROVE  /\ Pmm!default_alloc_pages(k) => Manager!default_alloc_pages(k)
         /\ Pmm!default_free_pages(b, k) => Manager!default_free_pages(b, k)
         /\ Pmm!default_nr_free_pages => Manager!default_nr_free_pages
  BY DEF Pmm!default_alloc_pages, Manager!default_alloc_pages, Pmm!default_free_pages,
     Manager!default_free_pages, Pmm!default_nr_free_pages, Manager!default_nr_free_pages,
     Pmm!Reject, Manager!Reject, Pmm!Enter, Manager!Enter, Pmm!free_pages_args,
     Manager!free_pages_args, Pmm!WordAdd, Manager!WordAdd

-----------------------------------------------------------------------------
\* A block as the callers see it.
Within(q, b, k) == b <= q /\ q < b + k
Fits(b, k)      == b \in Pages /\ k \in 1 .. NPAGE /\ b + k <= NPAGE

\* A block that is on its way into free_pages, or out of alloc_pages.
FreePending  == call[1] = "free_pages" /\ api \in {"intr_save", "intr_disable", "call"}
AllocPending ==
  /\ call[1] = "alloc_pages" /\ ret # NULLPAGE /\ pc = "idle"
  /\ api \in {"manager", "intr_restore", "return"}

\* The pages that belong to the call under way: they are in no caller's hands
\* but marked allocated, or are so far.
InCall(q) ==
  \/ FreePending /\ Within(q, call[2], call[3])
  \/ AllocPending /\ Within(q, ret, call[3])
  \/ pc = "set_allocated" /\ Within(q, page, n) /\ q < p
  \/ pc = "clear_allocated" /\ Within(q, base, n) /\ q >= p
Owned(q) == \E b \in held : Within(q, b[1], b[2])

\* What the call under way was called with, and which loop it can be in.
CallInv ==
  /\ held \subseteq Pages \X (1 .. NPAGE)
  /\ \A b \in held : Fits(b[1], b[2])
  /\ api # "none" => call[1] \in {"alloc_pages", "free_pages", "nr_free_pages"}
  /\ api # "none" => call[2] \in Word /\ call[3] \in Word
  /\ FreePending => Fits(call[2], call[3])
  /\ AllocPending => Fits(ret, call[3])
  /\ pc \in {"idle", "scan", "set_allocated", "clear_allocated"}
  /\ pc \in {"scan", "set_allocated"} => call[1] = "alloc_pages" /\ n = call[3]
  /\ pc = "clear_allocated" => call[1] = "free_pages"

(***************************************************************************)
(* Held blocks are disjoint, and a page is marked allocated exactly if a   *)
(* caller holds it or the call under way does; never both. The second      *)
(* conjunct is what makes HeldBlocks inductive: within a call the marks    *)
(* and the held blocks differ, by the part of the block that the loop of   *)
(* default_alloc_pages or default_free_pages has passed.                   *)
(***************************************************************************)
HeldInv ==
  /\ \A b, c \in held : b # c =>
       \A q \in Pages : ~(Within(q, b[1], b[2]) /\ Within(q, c[1], c[2]))
  /\ \A q \in Pages : PageAllocated(pages, q) <=> Owned(q) \/ InCall(q)
  /\ \A q \in Pages : ~(Owned(q) /\ InCall(q))

KernelInv == ControlInv /\ CallInv /\ HeldInv /\ Manager!Inv

\* A caller makes a call.
CallMade ==
  \/ \E k \in CallSizes : CallApi("alloc_pages", 0, k)
  \/ \E b \in held : CallApi("free_pages", b[1], b[2])
  \/ CallApi("nr_free_pages", 0, 0)

\* Only calls and the API touch the manager; traps, boot, ticks and panics do
\* not.
LEMMA Elsewhere ==
  [Next]_vars => CallMade \/ ApiStep \/ UNCHANGED <<pmm, api, call, held>>
<1> SUFFICES ASSUME [Next]_vars, ~CallMade, ~ApiStep PROVE UNCHANGED <<pmm, api, call, held>>
  OBVIOUS
<1> USE DEF pmm, irq, clock, around, thread
<1>1. CASE Boot
  BY <1>1 DEF Boot, CheckDone, SetStie, ArmTimer, ZeroTicks, IntrEnable, KernGoto
<1>2. CASE CallPanic
  BY <1>2 DEF CallPanic
<1>3. CASE Expire \/ TakeInterrupt \/ TakeException
  BY <1>3 DEF Expire, TakeInterrupt, TakeException, EnterTrap
<1>4. CASE Handler
  BY <1>4 DEF Handler, SetNextEvent, CountTick, print_ticks, exception_handler, Sret
<1>5. CASE PanicStep
  BY <1>5 DEF PanicStep, TestPanic, SetPanic, PrintPanic, PanicDead, Goto
<1>6. CASE UNCHANGED vars
  BY <1>6 DEF vars
<1> QED
  BY <1>1, <1>2, <1>3, <1>4, <1>5, <1>6 DEF Next, Callers, CallMade, StayInMonitor

\* free_pages is called with a block that passes the checks of
\* default_free_pages.
LEMMA Contract ==
  ASSUME KernelInv, api = "call", call[1] = "free_pages"
  PROVE  Manager!free_pages_args(call[2], call[3]) /\ Manager!KeepsContract(call[2], call[3])
<1>1. FreePending /\ Fits(call[2], call[3])
  BY DEF FreePending, KernelInv, CallInv
<1>2. \A q \in Pages : Within(q, call[2], call[3]) => PageAllocated(pages, q)
  BY <1>1 DEF KernelInv, HeldInv, InCall
<1>3. Manager!WordAdd(call[2], call[3]) = call[2] + call[3]
  BY <1>1, PageConstants DEF Fits, Pages, Manager!WordAdd
<1> QED
  BY <1>1, <1>2, <1>3, PageConstants
  DEF Fits, Pages, Within, PageAllocated, PG_allocated, Manager!free_pages_args, Manager!KeepsContract,
      Manager!Pages, Manager!InBlock, Manager!PageAllocated, Manager!PG_allocated

\* Seen by the manager, every step of the kernel is a step of a disciplined
\* client.
LEMMA ManagerMoves == KernelInv /\ [Next]_vars => [Manager!Moves]_(Manager!code_vars)
<1> SUFFICES ASSUME KernelInv, [Next]_vars PROVE Manager!Moves \/ UNCHANGED Manager!code_vars
  OBVIOUS
<1>1. CASE CallManager
  <2>1. call[2] \in Manager!Word /\ call[3] \in Manager!Word
    BY <1>1 DEF CallManager, KernelInv, CallInv, Word, Manager!Word
  <2>2. CASE call[1] = "alloc_pages" /\ Pmm!default_alloc_pages(call[3])
    BY <2>1, <2>2, SameCalls DEF Manager!Moves
  <2>3. CASE call[1] = "free_pages" /\ Pmm!default_free_pages(call[2], call[3])
    <3>1. Manager!CallFree(call[2], call[3])
      BY <1>1, <2>3, SameCalls, Contract DEF CallManager, Manager!CallFree
    <3> QED
      BY <2>1, <3>1 DEF Manager!Moves
  <2>4. CASE call[1] = "nr_free_pages" /\ Pmm!default_nr_free_pages
    BY <2>4, SameCalls DEF Manager!Moves
  <2> QED
    BY <1>1, <2>2, <2>3, <2>4 DEF CallManager
<1>2. CASE ManagerStep
  BY <1>2, SameStep DEF ManagerStep, Manager!Moves
<1>3. CASE ~CallManager /\ ~ManagerStep
  BY <1>3, Elsewhere DEF CallMade, CallApi, ApiStep, IntrSave, IntrDisable, ManagerReturns, IntrRestore,
     ApiReturn, pmm, Manager!code_vars
<1> QED
  BY <1>1, <1>2, <1>3

LEMMA ManagerInvStep == KernelInv /\ [Next]_vars => Manager!Inv'
  BY ManagerMoves, Manager!TypeStep, Manager!LoopStep, PageConstants DEF KernelInv, Manager!Inv

\* The loops of init_memmap are over before the kernel starts.
LEMMA StepTaken ==
  ASSUME KernelInv, ManagerStep
  PROVE  /\ api = "manager" /\ UNCHANGED <<api, call, held>>
         /\ \/ Manager!ScanTaken \/ Manager!ScanUsable \/ Manager!ScanFailed
            \/ Manager!SetAllocated \/ Manager!AllocDone
            \/ Manager!ClearAllocated \/ Manager!FreeDone
<1>1. pc \notin {"check_reserved", "check_allocated", "clear_reserved"}
  BY DEF KernelInv, CallInv
<1>2. Manager!Step
  BY SameStep DEF ManagerStep
<1> QED
  BY <1>1, <1>2 DEF ManagerStep, thread, Manager!Step, Manager!CheckReserved, Manager!CheckAllocated,
     Manager!ClearReserved, Manager!InitMemmapDone

LEMMA CallStep == KernelInv /\ [Next]_vars => CallInv'
<1> SUFFICES ASSUME KernelInv, [Next]_vars PROVE CallInv'
  OBVIOUS
<1> USE PageConstants DEF KernelInv, CallInv, FreePending, AllocPending, Fits, Pages, Word
<1>0. pc = "idle" \/ api = "manager"
  BY DEF ControlInv, IrqInv
<1>1. CASE UNCHANGED <<pmm, api, call, held>>
  BY <1>1 DEF pmm
<1>2. CASE CallMade
  <2>1. pc = "idle" /\ UNCHANGED pmm
    BY <1>0, <1>2 DEF CallMade, CallApi, Calling
  <2>2. ASSUME NEW k \in CallSizes, CallApi("alloc_pages", 0, k) PROVE CallInv'
    BY <2>1, <2>2, KernelConstants DEF CallApi, pmm
  <2>3. ASSUME NEW b \in held, CallApi("free_pages", b[1], b[2]) PROVE CallInv'
    BY <2>1, <2>3 DEF CallApi, pmm
  <2>4. CASE CallApi("nr_free_pages", 0, 0)
    BY <2>1, <2>4 DEF CallApi, pmm
  <2> QED
    BY <1>2, <2>2, <2>3, <2>4 DEF CallMade
<1>3. CASE IntrSave \/ IntrDisable \/ ManagerReturns \/ IntrRestore
  BY <1>0, <1>3 DEF IntrSave, IntrDisable, ManagerReturns, IntrRestore, pmm
<1>4. CASE CallManager
  <2>1. api' = "manager" /\ UNCHANGED <<call, held>> /\ api = "call"
    BY <1>4 DEF CallManager
  <2>2. CASE call[1] = "alloc_pages" /\ Manager!default_alloc_pages(call[3])
    BY <2>1, <2>2 DEF Manager!default_alloc_pages, Manager!Reject, Manager!Enter
  <2>3. CASE call[1] = "free_pages" /\ Manager!default_free_pages(call[2], call[3])
    BY <2>1, <2>3, Contract DEF Manager!default_free_pages, Manager!Reject, Manager!Enter
  <2>4. CASE call[1] = "nr_free_pages" /\ Manager!default_nr_free_pages
    BY <2>1, <2>4 DEF Manager!default_nr_free_pages, Manager!Reject
  <2> QED
    BY <1>4, <2>2, <2>3, <2>4, SameCalls DEF CallManager
<1>5. CASE ManagerStep
  <2>1. CASE Manager!ScanTaken \/ Manager!ScanUsable
    BY <1>5, <2>1, StepTaken DEF Manager!ScanTaken, Manager!ScanUsable, Manager!Iterate
  <2>2. CASE Manager!ScanFailed
    BY <1>5, <2>2, StepTaken DEF Manager!ScanFailed, Manager!Return
  <2>3. CASE Manager!SetAllocated \/ Manager!ClearAllocated
    BY <1>5, <2>3, StepTaken DEF Manager!SetAllocated, Manager!ClearAllocated, Manager!Iterate
  <2>4. CASE Manager!AllocDone
    <3>1. page \in Word /\ n > 0 /\ page + n <= NPAGE
      BY <2>4 DEF Manager!AllocDone, Manager!Inv, Manager!LoopInv, Manager!SetAllocatedLoop,
         Manager!TypeOK, Manager!Word
    <3> QED
      BY <1>5, <2>4, <3>1, StepTaken DEF Manager!AllocDone, Manager!Return
  <2>5. CASE Manager!FreeDone
    BY <1>5, <2>5, StepTaken DEF Manager!FreeDone, Manager!Return
  <2> QED
    BY <1>5, <2>1, <2>2, <2>3, <2>4, <2>5, StepTaken
<1>6. CASE ApiReturn
  BY <1>0, <1>6 DEF ApiReturn, pmm
<1> QED
  BY <1>1, <1>2, <1>3, <1>4, <1>5, <1>6, Elsewhere DEF ApiStep

\* Steps that move no page from one owner to another.
LEMMA SameOwners ==
  ASSUME HeldInv, UNCHANGED <<pages, held>>, \A q \in Pages : InCall(q)' <=> InCall(q)
  PROVE  HeldInv'
  BY DEF HeldInv, Owned, Within, PageAllocated

LEMMA HeldStep == KernelInv /\ [Next]_vars => HeldInv'
<1> SUFFICES ASSUME KernelInv, [Next]_vars PROVE HeldInv'
  OBVIOUS
<1> USE PageConstants DEF KernelInv, CallInv, Pages
<1>0. pc = "idle" \/ api = "manager"
  BY DEF ControlInv, IrqInv
<1>1. CASE UNCHANGED <<pmm, api, call, held>>
  BY <1>1, SameOwners DEF pmm, InCall, FreePending, AllocPending, Within
<1>2. CASE CallMade
  <2>1. pc = "idle" /\ UNCHANGED pmm /\ api = "none" /\ api' = "intr_save"
    BY <1>0, <1>2 DEF CallMade, CallApi, Calling
  <2>2. \A q \in Pages : ~InCall(q)
    BY <2>1 DEF InCall, FreePending, AllocPending
  <2>3. CASE held' = held /\ call'[1] # "free_pages"
    BY <2>1, <2>2, <2>3, SameOwners DEF InCall, FreePending, AllocPending, pmm
  <2>4. ASSUME NEW b \in held, CallApi("free_pages", b[1], b[2]) PROVE HeldInv'
    <3>1. held' = held \ {b} /\ UNCHANGED pages
      BY <2>1, <2>4 DEF CallApi, pmm
    <3>2. \A q \in Pages : InCall(q)' <=> Within(q, b[1], b[2])
      BY <2>1, <2>4 DEF CallApi, InCall, FreePending, AllocPending, pmm, Within
    <3>3. \A q \in Pages : Owned(q)' <=> Owned(q) /\ ~Within(q, b[1], b[2])
      BY <3>1 DEF Owned, HeldInv, Within
    <3>4. \A q \in Pages : Within(q, b[1], b[2]) => Owned(q)
      BY DEF Owned
    <3> QED
      BY <2>2, <3>1, <3>2, <3>3, <3>4 DEF HeldInv, Within, PageAllocated
  <2> QED
    BY <1>2, <2>3, <2>4 DEF CallMade, CallApi
<1>3. CASE IntrSave \/ IntrDisable \/ ManagerReturns \/ IntrRestore
  BY <1>0, <1>3, SameOwners DEF IntrSave, IntrDisable, ManagerReturns, IntrRestore, pmm,
     InCall, FreePending, AllocPending, Within
<1>4. CASE CallManager
  <2>0. /\ api' = "manager" /\ UNCHANGED <<call, held>> /\ api = "call" /\ pc = "idle"
    BY <1>0, <1>4 DEF CallManager
  <2>1. p = 0
    BY <2>0 DEF Manager!Inv, Manager!LoopInv
  <2>2. CASE call[1] = "alloc_pages" /\ Manager!default_alloc_pages(call[3])
    BY <2>0, <2>2, SameOwners DEF Manager!default_alloc_pages, Manager!Reject, Manager!Enter,
       InCall, FreePending, AllocPending
  <2>3. CASE call[1] = "free_pages" /\ Manager!default_free_pages(call[2], call[3])
    <3>1. pc' = "clear_allocated" /\ base' = call[2] /\ n' = call[3] /\ p' = 0 /\ UNCHANGED pages
      BY <2>0, <2>1, <2>3, Contract DEF Manager!default_free_pages, Manager!Enter
    <3> QED
      BY <2>0, <2>3, <3>1, SameOwners DEF InCall, FreePending, AllocPending, Within
  <2>4. CASE call[1] = "nr_free_pages" /\ Manager!default_nr_free_pages
    BY <2>0, <2>4, SameOwners DEF Manager!default_nr_free_pages, Manager!Reject, InCall,
       FreePending, AllocPending
  <2> QED
    BY <1>4, <2>2, <2>3, <2>4, SameCalls DEF CallManager
<1>5. CASE ManagerStep
  <2>0. api = "manager" /\ UNCHANGED <<api, call, held>>
    BY <1>5, StepTaken
  <2>1. CASE Manager!ScanTaken \/ Manager!ScanUsable
    BY <2>0, <2>1, SameOwners DEF Manager!ScanTaken, Manager!ScanUsable, Manager!Iterate, InCall,
       FreePending, AllocPending
  <2>2. CASE Manager!ScanFailed
    BY <2>0, <2>2, SameOwners DEF Manager!ScanFailed, Manager!Return, InCall, FreePending,
       AllocPending
  <2>3. CASE Manager!SetAllocated
    <3>1. /\ p \in Pages /\ p' = p + 1 /\ pc' = pc /\ pc = "set_allocated"
          /\ UNCHANGED <<page, n>> /\ page \in Word /\ n \in Word /\ page + n <= NPAGE
      BY <2>3 DEF Manager!SetAllocated, Manager!Iterate, Manager!Inv, Manager!TypeOK, Manager!Word,
         Manager!LoopInv, Manager!SetAllocatedLoop, Word
    <3>2. \A q \in Pages : PageAllocated(pages', q) <=>
            PageAllocated(pages, q) \/ (q = p /\ Within(p, page, n))
      BY <2>3, <3>1 DEF Manager!SetAllocated, Manager!set_bit, Manager!InBlock, Manager!WordAdd,
         Manager!PG_allocated, Manager!Inv, Manager!TypeOK, Manager!Pages, PageAllocated,
         PG_allocated, Within, Word
    <3>3. Within(p, page, n) => ~Owned(p)
      BY <3>1 DEF Manager!Inv, Manager!LoopInv, Manager!SetAllocatedLoop, Manager!Pages,
         Manager!PageAllocated, Manager!PG_allocated, PageAllocated, PG_allocated, Within, HeldInv
    <3>4. \A q \in Pages : InCall(q)' <=> InCall(q) \/ (q = p /\ Within(p, page, n))
      BY <2>0, <3>1 DEF InCall, FreePending, AllocPending, Within
    <3> QED
      BY <2>0, <3>2, <3>3, <3>4 DEF HeldInv, Owned, Within
  <2>4. CASE Manager!AllocDone
    <3>1. /\ pc = "set_allocated" /\ p = NPAGE /\ pc' = "idle" /\ ret' = page /\ UNCHANGED pages
          /\ page \in Word /\ n > 0 /\ page + n <= NPAGE /\ n = call[3] /\ call[1] = "alloc_pages"
      BY <2>4 DEF Manager!AllocDone, Manager!Return, Manager!Inv, Manager!TypeOK, Manager!Word,
         Manager!LoopInv, Manager!SetAllocatedLoop, Word
    <3>2. \A q \in Pages : InCall(q)' <=> InCall(q)
      BY <2>0, <3>1 DEF InCall, FreePending, AllocPending, Within, Word
    <3> QED
      BY <2>0, <3>1, <3>2, SameOwners
  <2>5. CASE Manager!ClearAllocated
    <3>1. /\ p \in Pages /\ p' = p + 1 /\ pc' = pc /\ pc = "clear_allocated"
          /\ UNCHANGED <<base, n>> /\ base \in Word /\ n \in Word /\ base + n <= NPAGE
      BY <2>5 DEF Manager!ClearAllocated, Manager!Iterate, Manager!Inv, Manager!TypeOK, Manager!Word,
         Manager!LoopInv, Manager!ClearAllocatedLoop, Word
    <3>2. \A q \in Pages : PageAllocated(pages', q) <=>
            PageAllocated(pages, q) /\ ~(q = p /\ Within(p, base, n))
      BY <2>5, <3>1 DEF Manager!ClearAllocated, Manager!clear_bit, Manager!InBlock,
         Manager!WordAdd, Manager!PG_allocated, Manager!Inv, Manager!TypeOK, Manager!Pages,
         PageAllocated, PG_allocated, Within, Word
    <3>3. Within(p, base, n) => InCall(p)
      BY <3>1 DEF InCall
    <3>4. \A q \in Pages : InCall(q)' <=> InCall(q) /\ ~(q = p /\ Within(p, base, n))
      BY <2>0, <3>1 DEF InCall, FreePending, AllocPending, Within
    <3> QED
      BY <2>0, <3>2, <3>3, <3>4 DEF HeldInv, Owned, Within
  <2>6. CASE Manager!FreeDone
    <3>1. pc = "clear_allocated" /\ p = NPAGE /\ pc' = "idle" /\ UNCHANGED pages /\ call[1] = "free_pages"
      BY <2>6 DEF Manager!FreeDone, Manager!Return
    <3>2. \A q \in Pages : InCall(q)' <=> InCall(q)
      BY <2>0, <3>1 DEF InCall, FreePending, AllocPending
    <3> QED
      BY <2>0, <3>1, <3>2, SameOwners
  <2> QED
    BY <1>5, <2>1, <2>2, <2>3, <2>4, <2>5, <2>6, StepTaken
<1>6. CASE ApiReturn
  <2>1. /\ api = "return" /\ api' = "none" /\ pc = "idle" /\ UNCHANGED pmm
        /\ \A q \in Pages : ~InCall(q)'
    BY <1>0, <1>6 DEF ApiReturn, pmm, InCall, FreePending, AllocPending
  <2>2. CASE AllocPending
    <3>1. held' = held \cup {<<ret, call[3]>>}
      BY <1>6, <2>2 DEF ApiReturn, AllocPending
    <3>2. \A q \in Pages : InCall(q) <=> Within(q, ret, call[3])
      BY <2>1, <2>2 DEF InCall, FreePending
    <3>3. \A q \in Pages : Owned(q)' <=> Owned(q) \/ Within(q, ret, call[3])
      <4> SUFFICES ASSUME NEW q \in Pages PROVE Owned(q)' <=> Owned(q) \/ Within(q, ret, call[3])
        OBVIOUS
      <4>1. Owned(q)' <=> \E b \in held' : Within(q, b[1], b[2])
        BY DEF Owned, Within
      <4>2. (\E b \in {<<ret, call[3]>>} : Within(q, b[1], b[2])) <=> Within(q, ret, call[3])
        OBVIOUS
      <4> QED
        BY <3>1, <4>1, <4>2 DEF Owned
    <3>4. \A b \in held : \A q \in Pages : Within(q, b[1], b[2]) => ~Within(q, ret, call[3])
      BY <3>2 DEF HeldInv, Owned
    <3>5. \A b, c \in held' : b # c =>
            \A q \in Pages : ~(Within(q, b[1], b[2]) /\ Within(q, c[1], c[2]))
      <4> SUFFICES ASSUME NEW b \in held', NEW c \in held', b # c, NEW q \in Pages,
                          Within(q, b[1], b[2]), Within(q, c[1], c[2])
                   PROVE  FALSE
        OBVIOUS
      <4>1. CASE b \in held /\ c \in held
        BY <4>1 DEF HeldInv
      <4>2. CASE b = <<ret, call[3]>> \/ c = <<ret, call[3]>>
        BY <3>1, <3>4, <4>2
      <4> QED
        BY <3>1, <4>1, <4>2
    <3>6. \A q \in Pages : PageAllocated(pages', q) <=> Owned(q) \/ InCall(q)
      BY <2>1 DEF HeldInv, PageAllocated, pmm
    <3> QED
      BY <2>1, <3>2, <3>3, <3>5, <3>6 DEF HeldInv, Within
  <2>3. CASE ~AllocPending
    <3>1. UNCHANGED held /\ \A q \in Pages : ~InCall(q)
      BY <1>6, <2>1, <2>3 DEF ApiReturn, AllocPending, InCall, FreePending
    <3> QED
      BY <2>1, <3>1, SameOwners DEF pmm
  <2> QED
    BY <2>2, <2>3
<1> QED
  BY <1>1, <1>2, <1>3, <1>4, <1>5, <1>6, Elsewhere DEF ApiStep

LEMMA KernelInit == Init => KernelInv
<1> SUFFICES ASSUME Init PROVE KernelInv
  OBVIOUS
<1> PICK m \in 0 .. NPAGE - MinFree :
      /\ pages = [q \in Pages |-> IF q < m THEN {PG_reserved} ELSE {}]
      /\ nr_free = NPAGE - m
  BY DEF Init
<1> USE PageConstants, KernelConstants DEF Pages, Word
<1>1. CallInv
  BY DEF Init, CallInv, FreePending, AllocPending
<1>2. \A q \in Pages : ~PageAllocated(pages, q)
  BY DEF PageAllocated, PG_reserved, PG_allocated
<1>3. HeldInv
  BY <1>2 DEF Init, HeldInv, Owned, InCall, FreePending, AllocPending
<1>4. Manager!TypeOK
  BY DEF Init, Manager!TypeOK, Manager!Loops, Manager!Pages, Manager!Word, Manager!Flags,
     Manager!PG_reserved, PG_reserved
<1>5. Manager!NoReservedAllocated /\ Manager!LoopInv
  BY <1>2 DEF Init, Manager!NoReservedAllocated, Manager!LoopInv, Manager!InitMemmapLoops,
     Manager!ScanLoop, Manager!SetAllocatedLoop, Manager!ClearAllocatedLoop, Manager!Pages,
     Manager!PageAllocated, Manager!PG_allocated, PageAllocated, PG_allocated
<1> QED
  BY <1>1, <1>3, <1>4, <1>5, ControlInit DEF KernelInv, Manager!Inv

\* KernelInv holds in every reachable state: control, the call under way, the
\* holders of pages and the allocator's own invariant together.
THEOREM KernelInvariant == Spec => []KernelInv
<1>1. KernelInv /\ [Next]_vars => KernelInv'
  BY ControlStep, CallStep, HeldStep, ManagerInvStep DEF KernelInv
<1> QED
  BY <1>1, KernelInit, PTL DEF Spec

\* No page is in two blocks that alloc_pages gave out, and outside calls the
\* marked pages are exactly those that callers hold: see HeldBlocks in
\* Kernel.
THEOREM BlocksHeldOnce == Spec => []HeldBlocks
<1>1. KernelInv => HeldBlocks
  <2> SUFFICES ASSUME KernelInv PROVE HeldBlocks
    OBVIOUS
  <2>1. \A b \in held : BlockPages(b) = {q \in Pages : Within(q, b[1], b[2])}
    BY PageConstants DEF KernelInv, CallInv, BlockPages, Within, Fits, Pages
  <2>2. \A b, c \in held : b # c => BlockPages(b) \cap BlockPages(c) = {}
    BY <2>1 DEF KernelInv, HeldInv
  <2>3. ASSUME api = "none"
        PROVE  UNION {BlockPages(b) : b \in held} = {q \in Pages : PageAllocated(pages, q)}
    <3>1. \A q \in Pages : ~InCall(q)
      BY <2>3 DEF KernelInv, ControlInv, IrqInv, InCall, FreePending, AllocPending
    <3> QED
      BY <2>1, <3>1 DEF KernelInv, HeldInv, Owned
  <2> QED
    BY <2>2, <2>3 DEF HeldBlocks
<1> QED
  BY <1>1, KernelInvariant, PTL

\* Composition: however traps and ticks interleave, the callers of
\* alloc_pages and free_pages use the manager as DefaultPmm's disciplined
\* client does, so every theorem about DefaultPmm holds in the kernel.
THEOREM CallersKeepContract == Spec => [][Manager!Moves]_(Manager!code_vars)
  BY KernelInvariant, ManagerMoves, PTL DEF Spec

(***************************************************************************)
(* A call of the API of kern/mm/pmm.c, from its first instruction to its   *)
(* return, as a call of PagedbCalls: with the arguments its caller gave,   *)
(* and having taken effect or not yet.                                     *)
(***************************************************************************)
ApiOp ==
  IF call[1] = "alloc_pages" THEN <<"alloc_pages", call[3]>>
  ELSE IF call[1] = "free_pages" THEN <<"free_pages", call[2], call[3]>>
  ELSE IF call[1] = "nr_free_pages" THEN <<"nr_free_pages">>
  ELSE <<"none">>
ApiPhase ==
  IF api = "none" THEN "idle"
  ELSE IF api \in {"intr_save", "intr_disable", "call"} \/ pc = "scan" THEN "called"
  ELSE "done"
Api == INSTANCE PagedbCalls WITH
  nrfree <- Manager!MapNrFree, flag <- Manager!MapFlag, ret <- Manager!MapRet,
  op <- ApiOp, phase <- ApiPhase

\* The methods of the two instances are the same.
LEMMA SameMethods ==
  ASSUME NEW b, NEW k
  PROVE  /\ Manager!Pagedb!spec_default_alloc_pages(k) => Api!spec_default_alloc_pages(k)
         /\ Manager!Pagedb!spec_default_free_pages(b, k) => Api!spec_default_free_pages(b, k)
         /\ Manager!Pagedb!spec_default_nr_free_pages => Api!spec_default_nr_free_pages
<1> USE DEF Manager!Pagedb!WordAdd, Api!WordAdd, Manager!Pagedb!WordSub, Api!WordSub,
            Manager!Pagedb!InBlock, Api!InBlock, Manager!Pagedb!Pages, Api!Pages,
            Manager!Pagedb!PG_allocated, Api!PG_allocated
<1>1. Manager!Pagedb!spec_default_alloc_pages(k) => Api!spec_default_alloc_pages(k)
  <2>1. \A f, c : Manager!Pagedb!free_block(f, c, k) = Api!free_block(f, c, k)
    BY DEF Manager!Pagedb!free_block, Api!free_block, Manager!Pagedb!Available, Api!Available,
       Manager!Pagedb!PageReserved, Api!PageReserved, Manager!Pagedb!PG_reserved, Api!PG_reserved,
       Manager!Pagedb!PageAllocated, Api!PageAllocated
  <2>2. \A f, c : Manager!Pagedb!first_free_block(f, c, k) = Api!first_free_block(f, c, k)
    BY <2>1 DEF Manager!Pagedb!first_free_block, Api!first_free_block
  <2> QED
    BY <2>1, <2>2
    DEF Manager!Pagedb!spec_default_alloc_pages, Api!spec_default_alloc_pages,
        Manager!Pagedb!page_set_flag, Api!page_set_flag
<1>2. Manager!Pagedb!spec_default_free_pages(b, k) => Api!spec_default_free_pages(b, k)
  BY DEF Manager!Pagedb!spec_default_free_pages, Api!spec_default_free_pages,
     Manager!Pagedb!page_clear_flag, Api!page_clear_flag
<1>3. Manager!Pagedb!spec_default_nr_free_pages => Api!spec_default_nr_free_pages
  BY DEF Manager!Pagedb!spec_default_nr_free_pages, Api!spec_default_nr_free_pages
<1> QED
  BY <1>1, <1>2, <1>3

\* The call that is under way takes effect.
LEMMA ApiEffect ==
  ASSUME KernelInv, UNCHANGED call, api' = "manager", pc' # "scan",
         api = "call" \/ (api = "manager" /\ pc = "scan"),
         \/ call[1] = "alloc_pages" /\ Api!spec_default_alloc_pages(call[3])
         \/ call[1] = "free_pages" /\ Api!spec_default_free_pages(call[2], call[3])
         \/ call[1] = "nr_free_pages" /\ Api!spec_default_nr_free_pages
  PROVE  Api!Next
<1>1. ApiOp' = ApiOp /\ ApiOp \in Api!Calls
  BY DEF ApiOp, Api!Calls, KernelInv, CallInv, Word, Api!Word
<1>2. Api!Effect(ApiOp)
  BY DEF ApiOp, Api!Effect
<1>3. Api!TakeEffect(ApiOp)
  BY <1>1, <1>2 DEF Api!TakeEffect, ApiPhase
<1> QED
  BY <1>1, <1>3 DEF Api!Next

\* Every step of the kernel, with the call it belongs to.
LEMMA ApiMoves == KernelInv /\ [Next]_vars => [Api!Next]_(Api!call_vars)
<1> SUFFICES ASSUME KernelInv, [Next]_vars PROVE Api!Next \/ UNCHANGED Api!call_vars
  OBVIOUS
<1>0. /\ Manager!Inv /\ Manager!Inv' /\ Manager!TypeOK' /\ CallInv'
      /\ pc = "idle" \/ api = "manager"
  BY ManagerInvStep, CallStep DEF KernelInv, Manager!Inv, ControlInv, IrqInv
<1>1. CASE UNCHANGED <<pmm, api, call>>
  BY <1>1 DEF pmm, Api!call_vars, ApiOp, ApiPhase, Manager!MapNrFree, Manager!MapFlag, Manager!MapRet,
     Manager!InBlock, Manager!WordAdd, Manager!WordSub
<1> DEFINE Mapped == <<Manager!MapNrFree, Manager!MapFlag, Manager!MapRet>>
<1>2. UNCHANGED pmm => UNCHANGED Mapped
  BY DEF pmm, Manager!MapNrFree, Manager!MapFlag, Manager!MapRet, Manager!InBlock,
     Manager!WordAdd, Manager!WordSub
<1>3. CASE CallMade
  <2>1. /\ UNCHANGED pmm /\ api = "none" /\ api' = "intr_save"
        /\ call'[1] \in {"alloc_pages", "free_pages", "nr_free_pages"}
    BY <1>3 DEF CallMade, CallApi, Calling
  <2>2. ApiOp' \in Api!Calls
    BY <1>0, <2>1 DEF ApiOp, Api!Calls, CallInv, Word, Api!Word
  <2>3. Api!Call(ApiOp')
    BY <1>2, <2>1 DEF Api!Call, ApiPhase
  <2> QED
    BY <2>2, <2>3 DEF Api!Next
<1>4. CASE IntrSave \/ IntrDisable \/ ManagerReturns \/ IntrRestore
  <2>1. UNCHANGED Mapped /\ UNCHANGED <<ApiOp, ApiPhase>>
    BY <1>0, <1>2, <1>4
    DEF IntrSave, IntrDisable, ManagerReturns, IntrRestore, ApiOp, ApiPhase, pmm
  <2> QED
    BY <2>1 DEF Api!call_vars
<1>5. CASE CallManager
  <2>1. /\ api = "call" /\ api' = "manager" /\ UNCHANGED call
        /\ call[2] \in Manager!Word /\ call[3] \in Manager!Word
    BY <1>5 DEF CallManager, KernelInv, CallInv, Word, Manager!Word
  <2>2. CASE call[1] = "alloc_pages" /\ Manager!default_alloc_pages(call[3])
    <3>1. CASE Manager!Pagedb!spec_default_alloc_pages(call[3]) /\ pc' = "idle"
      BY <2>1, <2>2, <3>1, SameMethods, ApiEffect
    <3>2. CASE UNCHANGED Manager!MapVars /\ pc' = "scan"
      BY <2>1, <3>2 DEF Manager!MapVars, Api!call_vars, ApiOp, ApiPhase
    <3> QED
      BY <1>0, <2>1, <2>2, <3>1, <3>2, Manager!SimAlloc, PageConstants
  <2>3. CASE call[1] = "free_pages" /\ Manager!default_free_pages(call[2], call[3])
    <3>1. Manager!CallFree(call[2], call[3])
      BY <2>1, <2>3, Contract DEF Manager!CallFree
    <3>2. Manager!Pagedb!spec_default_free_pages(call[2], call[3]) /\ pc' # "scan"
      BY <1>0, <2>1, <3>1, Manager!SimFree, PageConstants
    <3> QED
      BY <2>1, <2>3, <3>2, SameMethods, ApiEffect
  <2>4. CASE call[1] = "nr_free_pages" /\ Manager!default_nr_free_pages
    <3>1. Manager!Pagedb!spec_default_nr_free_pages /\ pc' = "idle"
      BY <1>0, <2>4, Manager!MapIdentity, Manager!MapIdentityNext, PageConstants
      DEF Manager!Inv, Manager!default_nr_free_pages, Manager!Reject,
          Manager!Pagedb!spec_default_nr_free_pages
    <3> QED
      BY <2>1, <2>4, <3>1, SameMethods, ApiEffect
  <2> QED
    BY <1>5, <2>2, <2>3, <2>4, SameCalls DEF CallManager
<1>6. CASE ManagerStep
  <2>1. api = "manager" /\ api' = "manager" /\ UNCHANGED call
    BY <1>6, StepTaken
  <2>2. pc = "scan" => call[1] = "alloc_pages" /\ n = call[3] /\ n \in Manager!Word
    BY <1>0 DEF KernelInv, CallInv, Manager!Inv, Manager!TypeOK
  <2>3. CASE Manager!ScanTaken
    BY <1>0, <2>1, <2>3, Manager!MapIdentity, Manager!MapIdentityNext, PageConstants
    DEF Manager!Inv, Manager!ScanTaken, Manager!Iterate, Api!call_vars, ApiOp, ApiPhase
  <2>4. CASE Manager!ScanUsable
    <3>1. pc = "scan"
      BY <2>4 DEF Manager!ScanUsable
    <3>2. CASE Manager!Pagedb!spec_default_alloc_pages(n) /\ pc' = "set_allocated"
      BY <2>1, <2>2, <3>1, <3>2, SameMethods, ApiEffect
    <3>3. CASE UNCHANGED Manager!MapVars /\ pc' = "scan"
      BY <2>1, <3>1, <3>3 DEF Manager!MapVars, Api!call_vars, ApiOp, ApiPhase
    <3> QED
      BY <1>0, <2>4, <3>2, <3>3, Manager!SimScanUsable, PageConstants
  <2>5. CASE Manager!ScanFailed
    <3>1. pc = "scan"
      BY <2>5 DEF Manager!ScanFailed
    <3>2. Manager!Pagedb!spec_default_alloc_pages(n) /\ pc' = "idle"
      BY <1>0, <2>5, Manager!SimScanFailed, PageConstants
    <3> QED
      BY <2>1, <2>2, <3>1, <3>2, SameMethods, ApiEffect
  <2>6. CASE Manager!SetAllocated \/ Manager!ClearAllocated
    <3>1. UNCHANGED Manager!MapVars /\ UNCHANGED pc /\ pc # "scan"
      BY <1>0, <2>6, Manager!SimLastLoop, PageConstants
      DEF Manager!SetAllocated, Manager!ClearAllocated, Manager!Iterate
    <3> QED
      BY <2>1, <3>1 DEF Manager!MapVars, Api!call_vars, ApiOp, ApiPhase
  <2>7. CASE Manager!AllocDone \/ Manager!FreeDone
    <3>1. UNCHANGED Manager!MapVars /\ pc' # "scan" /\ pc # "scan"
      BY <1>0, <2>7, Manager!SimDone, PageConstants DEF Manager!AllocDone, Manager!FreeDone
    <3> QED
      BY <2>1, <3>1 DEF Manager!MapVars, Api!call_vars, ApiOp, ApiPhase
  <2> QED
    BY <1>6, <2>3, <2>4, <2>5, <2>6, <2>7, StepTaken
<1>7. CASE ApiReturn
  <2>1. /\ UNCHANGED pmm /\ api = "return" /\ api' = "none" /\ pc = "idle"
        /\ call' = <<"none", 0, 0>>
    BY <1>0, <1>7 DEF ApiReturn
  <2>2. Api!Return
    BY <1>2, <2>1 DEF Api!Return, Api!NoCall, ApiOp, ApiPhase
  <2> QED
    BY <2>2 DEF Api!Next
<1> QED
  BY <1>1, <1>3, <1>4, <1>5, <1>6, <1>7, Elsewhere DEF ApiStep

\* Refinement through the composition: with interrupts, exceptions and panics
\* at any point, each call of alloc_pages, free_pages and nr_free_pages takes
\* effect once, between its call and its return and with the arguments of its
\* caller, as the specification in verif/llvm-spec.rkt says of that call.
THEOREM CallsAreAtomic == Spec => [][Api!Next]_(Api!call_vars)
  BY KernelInvariant, ApiMoves, PTL DEF Spec

-----------------------------------------------------------------------------
\* nr_free, which default_nr_free_pages returns, is the number of pages that
\* are neither reserved nor allocated whenever the manager is idle.
CounterCountsFree == pc = "idle" => nr_free = Cardinality(Available(pages))

LEMMA SameCardinality == \A S : Manager!Cardinality(S) = Cardinality(S)
  BY DEF Manager!Cardinality, Cardinality

\* nr_free counts the available pages in the running kernel, from the state
\* that pmm_init leaves on: the counter of default_pmm.c does not drift over
\* any sequence of calls.
THEOREM CounterExact == Spec => []CounterCountsFree
<1>1. Init => Manager!CounterInv
  <2> SUFFICES ASSUME Init PROVE Manager!CounterInv
    OBVIOUS
  <2> PICK m \in 0 .. NPAGE - MinFree :
        /\ pages = [q \in Pages |-> IF q < m THEN {PG_reserved} ELSE {}]
        /\ nr_free = NPAGE - m
    BY DEF Init
  <2>1. Manager!MapFlag = pages /\ Manager!MapNrFree = nr_free
    BY KernelInit, Manager!MapIdentity, PageConstants DEF Init, KernelInv, Manager!Inv
  <2>2. Manager!Available(pages) = m .. NPAGE - 1
    BY PageConstants, KernelConstants DEF Manager!Available, Manager!PageReserved,
       Manager!PageAllocated, Manager!PG_reserved, Manager!PG_allocated, Manager!Pages, Pages,
       PG_reserved
  <2>3. Cardinality(m .. NPAGE - 1) = NPAGE - m
    <3>1. m \in Int /\ NPAGE - 1 \in Int /\ m <= NPAGE - 1
      BY PageConstants, KernelConstants
    <3>2. Cardinality(m .. NPAGE - 1) = NPAGE - 1 - m + 1
      BY <3>1, FS_Interval
    <3> QED
      BY <3>2, PageConstants
  <2> QED
    BY <2>1, <2>2, <2>3, SameCardinality DEF Manager!CounterInv
<1>2. KernelInv /\ Manager!CounterInv /\ [Next]_vars => Manager!CounterInv'
  BY ManagerMoves, ManagerInvStep, Manager!CounterStep, PageConstants DEF KernelInv, Manager!Inv
<1>3. KernelInv /\ Manager!CounterInv => CounterCountsFree
  BY SameCardinality, Manager!MapIdentity, PageConstants DEF KernelInv, Manager!Inv, Manager!CounterInv, CounterCountsFree,
     Available, Manager!Available, PageReserved, Manager!PageReserved, PageAllocated,
     Manager!PageAllocated, PG_reserved, Manager!PG_reserved, PG_allocated, Manager!PG_allocated,
     Pages, Manager!Pages
<1> QED
  BY <1>1, <1>2, <1>3, KernelInvariant, PTL DEF Spec

LEMMA ModSmall == ASSUME NEW m \in Nat \ {0}, NEW a \in 0 .. m - 1 PROVE a % m = a
  OBVIOUS

LEMMA ModZero ==
  ASSUME NEW m \in Nat \ {0}, NEW a \in 1 .. m PROVE a % m = 0 <=> a = m
<1>1. m % m = 0
  OBVIOUS
<1>2. CASE a < m
  <2>1. a \in 0 .. m - 1
    BY <1>2
  <2>2. a % m = a
    BY <2>1, ModSmall
  <2> QED
    BY <1>2, <2>2
<1> QED
  BY <1>1, <1>2

\* In a DEBUG_GRADE build the count stops at TICK_NUM, when print_ticks
\* panics.
TickInv ==
  DEBUG_GRADE =>
    /\ ticks \in 0 .. TICK_NUM
    /\ ticks = TICK_NUM <=> HandlerPanics \/ trap = "print_ticks"

LEMMA TickStep ==
  ASSUME TICK_NUM < TICKWORD, TickInv, [Next]_vars
  PROVE  TickInv'
<1> USE KernelConstants DEF TickInv, HandlerPanics, Printing, Printed, Running, pmm, irq, clock,
        around, thread
<1>1. CASE Boot
  <2>1. UNCHANGED <<trap, DEBUG_GRADE>> /\ trap = "none"
    BY <1>1 DEF Boot, CheckDone, SetStie, ArmTimer, ZeroTicks, IntrEnable, KernGoto
  <2>2. ticks' = 0 \/ ticks' = ticks
    BY <1>1 DEF Boot, CheckDone, SetStie, ArmTimer, ZeroTicks, IntrEnable
  <2> QED
    BY <2>1, <2>2
<1>2. CASE Callers
  BY <1>2 DEF Callers, CallApi, CallPanic
<1>3. CASE ApiStep
  BY <1>3 DEF ApiStep, IntrSave, IntrDisable, CallManager, ManagerStep, ManagerReturns,
     IntrRestore, ApiReturn
<1>4. CASE Expire \/ TakeInterrupt \/ TakeException
  BY <1>4 DEF Expire, TakeInterrupt, TakeException, EnterTrap, Calling
<1>5. CASE CountTick
  <2>1. CASE DEBUG_GRADE
    <3>1. trap = "count" /\ ticks \in 0 .. TICK_NUM - 1 /\ DEBUG_GRADE' = DEBUG_GRADE
      BY <1>5, <2>1 DEF CountTick
    <3>2. ticks' = ticks + 1
      BY <1>5, <3>1, ModSmall DEF CountTick
    <3>3. ticks' % TICK_NUM = 0 <=> ticks' = TICK_NUM
      BY <3>1, <3>2, ModZero
    <3> QED
      BY <1>5, <3>1, <3>2, <3>3 DEF CountTick
  <2>2. CASE ~DEBUG_GRADE
    BY <1>5, <2>2 DEF CountTick
  <2> QED
    BY <2>1, <2>2
<1>6. CASE SetNextEvent \/ print_ticks \/ exception_handler \/ Sret
  BY <1>6 DEF SetNextEvent, print_ticks, exception_handler, Sret
<1>7. CASE PanicStep
  BY <1>7 DEF PanicStep, TestPanic, SetPanic, PrintPanic, PanicDead, Goto
<1>8. CASE UNCHANGED vars
  BY <1>8 DEF vars
<1> QED
  BY <1>1, <1>2, <1>3, <1>4, <1>5, <1>6, <1>7, <1>8 DEF Next, Handler, StayInMonitor

(***************************************************************************)
(* "End of Test." comes at tick TICK_NUM: a DEBUG_GRADE kernel whose       *)
(* thread has not panicked is in the monitor with exactly TICK_NUM ticks   *)
(* counted, never later.                                                   *)
(***************************************************************************)
GradeEndsOnTime ==
  DEBUG_GRADE /\ InMonitor /\ kern = "running" => ticks = TICK_NUM

\* print_ticks ends the test at the first multiple of TICK_NUM, provided that
\* the counter does not wrap before (TICK_NUM is 100, ticks is a size_t).
THEOREM GradeStopsOnTime ==
  ASSUME TICK_NUM < TICKWORD
  PROVE  Spec => []GradeEndsOnTime
<1>1. Init => TickInv
  BY KernelConstants DEF Init, TickInv, HandlerPanics, Printing, Printed
<1>2. TickInv /\ [Next]_vars => TickInv'
  BY TickStep
<1>3. TickInv => GradeEndsOnTime
  BY DEF TickInv, GradeEndsOnTime, InMonitor, Running, HandlerPanics, Printed
<1> QED
  BY <1>1, <1>2, <1>3, PTL DEF Spec
=============================================================================
