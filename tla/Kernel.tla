------------------------------- MODULE Kernel -------------------------------
(***************************************************************************)
(* The kernel on one hart: kern_init, the allocator API of kern/mm/pmm.c   *)
(* with its interrupt guard (kern/sync/sync.h), __panic, and the traps:    *)
(* the timer interrupt, which may arrive between any two steps while       *)
(* sstatus.SIE is set, and exceptions. The allocator underneath is         *)
(* DefaultPmm, loop iteration by loop iteration.                           *)
(*                                                                         *)
(* Callers of the API are the environment. They make one call at a time    *)
(* (there is one thread), free only blocks that they were given, and       *)
(* between two calls may execute an instruction that faults, or panic.     *)
(***************************************************************************)
EXTENDS PageDefs

CONSTANTS
  TICK_NUM,      \* ticks between two messages (100)
  TICKWORD,      \* ticks is counted modulo TICKWORD (2^64)
  CallSizes,     \* the sizes that callers ask for
  MinFree,       \* pages that must be free for the self-check to pass (5)
  Builds         \* the values of DEBUG_GRADE that kernels are built with

ASSUME KernelConstants ==
  /\ TICK_NUM \in Nat \ {0} /\ TICKWORD \in Nat \ {0}
  /\ CallSizes \subseteq Word /\ MinFree \in 1 .. NPAGE /\ Builds \subseteq BOOLEAN

VARIABLES
  nr_free, pages, pc, base, n, p, page, first_usable, ret,   \* DefaultPmm
  sie, spie,     \* sstatus.SIE, sstatus.SPIE
  stie,          \* sie.STIE, the timer's own enable
  timer,         \* the SBI timer: "off", "armed" or "expired"
  ticks,
  kern,          \* where kern_init is
  trap,          \* where the trap handler is, "none" outside
  api, call,     \* where the API function is, and its arguments
  intr_flag,     \* its local
  caller_sie,    \* history: SIE when it was called
  held,          \* the blocks callers own
  stuck,         \* whether the thread is at an instruction that faults
  is_panic,
  message,       \* how much of a panic message is on the console
  DEBUG_GRADE    \* whether print_ticks ends the test with a panic; never changes

pmm    == <<nr_free, pages, pc, base, n, p, page, first_usable, ret>>
irq    == <<sie, spie>>
clock  == <<stie, timer, ticks>>
around == <<kern, stuck, is_panic, message, DEBUG_GRADE>>   \* not the API's
thread == <<api, call, intr_flag, caller_sie, held, around>>
vars   == <<pmm, irq, clock, trap, thread>>

\* Its callers keep the contract of free_pages; the call under way is in call,
\* so that the manager needs no history of its own.
Pmm == INSTANCE DefaultPmm WITH disciplined <- TRUE, op <- <<>>

\* The thread runs while no trap is being handled.
Running == trap = "none"

-----------------------------------------------------------------------------
(***************************************************************************)
(* kern_init. OpenSBI starts the kernel with interrupts off. The model     *)
(* starts when page_init has handed the pages above the image over (see    *)
(* PmmBoot) and default_check begins to call the API; the calls it makes   *)
(* are some of those the environment may make.                             *)
(***************************************************************************)
Init ==
  /\ \E m \in 0 .. NPAGE - MinFree :
       /\ pages = [q \in Pages |-> IF q < m THEN {PG_reserved} ELSE {}]
       /\ nr_free = NPAGE - m
  /\ pc = "idle" /\ base = 0 /\ n = 0 /\ p = 0 /\ page = 0 /\ first_usable = 0
  /\ ret = Void
  /\ sie = FALSE /\ spie = FALSE /\ stie = FALSE
  /\ timer = "off" /\ ticks = 0
  /\ kern = "default_check"
  /\ trap = "none"
  /\ api = "none" /\ call = <<"none", 0, 0>> /\ intr_flag = FALSE /\ caller_sie = FALSE
  /\ held = {} /\ stuck = FALSE
  /\ is_panic = FALSE /\ message = "none"
  /\ DEBUG_GRADE \in Builds

KernGoto(from, to) ==
  /\ Running /\ kern = from /\ kern' = to
  /\ UNCHANGED <<pmm, spie, trap, api, call, intr_flag, caller_sie, held>>
  /\ UNCHANGED <<stuck, is_panic, message, DEBUG_GRADE>>

CheckDone ==
  /\ api = "none" /\ held = {} /\ ~stuck
  /\ KernGoto("default_check", "set_sie")
  /\ UNCHANGED <<sie, clock>>

\* An SBI call, of which only the timer's has an effect on this state: it sets
\* the timer and withdraws the interrupt that is pending.
SBI_SET_TIMER == 0
sbi_call(sbi_type) == timer' = IF sbi_type = SBI_SET_TIMER THEN "armed" ELSE timer
sbi_set_timer == sbi_call(SBI_SET_TIMER)
clock_set_next_event == sbi_set_timer

intr_enable  == sie' = TRUE
intr_disable == sie' = FALSE

\* clock_init: three steps, in this order.
SetStie ==
  /\ KernGoto("set_sie", "set_timer")
  /\ stie' = TRUE
  /\ UNCHANGED <<sie, timer, ticks>>

\* Mutant: interrupts are enabled before clock_init has finished.
ArmTimerEnabled ==
  /\ KernGoto("set_timer", "zero_ticks")
  /\ clock_set_next_event
  /\ intr_enable
  /\ UNCHANGED <<stie, ticks>>

ArmTimer ==
  /\ KernGoto("set_timer", "zero_ticks")
  /\ clock_set_next_event
  /\ UNCHANGED <<sie, stie, ticks>>

ZeroTicks ==
  /\ KernGoto("zero_ticks", "intr_enable")
  /\ ticks' = 0
  /\ UNCHANGED <<sie, stie, timer>>

IntrEnable ==
  /\ KernGoto("intr_enable", "running")
  /\ intr_enable
  /\ UNCHANGED clock

-----------------------------------------------------------------------------
(***************************************************************************)
(* alloc_pages, free_pages and nr_free_pages of kern/mm/pmm.c. __intr_save *)
(* reads sstatus and clears SIE in two instructions: a trap fits between.  *)
(***************************************************************************)
\* The thread is in callers' code.
Calling == Running /\ api = "none" /\ kern \in {"default_check", "running"}

CallApi(op, b, k) ==
  /\ Calling /\ ~stuck
  /\ api' = "intr_save"
  /\ call' = <<op, b, k>>
  /\ caller_sie' = sie
  /\ held' = IF op = "free_pages" THEN held \ {<<b, k>>} ELSE held
  /\ UNCHANGED <<pmm, irq, clock, trap, intr_flag, around>>

IntrSave ==
  /\ Running /\ api = "intr_save"
  /\ \/ sie /\ api' = "intr_disable" /\ UNCHANGED intr_flag
     \/ ~sie /\ api' = "call" /\ intr_flag' = FALSE
  /\ UNCHANGED <<pmm, irq, clock, trap, call, caller_sie, held, around>>

\* Mutant: the flag is saved but interrupts stay on.
IntrSaveLeavesOn ==
  /\ Running /\ api = "intr_disable"
  /\ intr_flag' = TRUE
  /\ api' = "call"
  /\ UNCHANGED <<pmm, irq, clock, trap, call, caller_sie, held, around>>

IntrDisable ==
  /\ Running /\ api = "intr_disable"
  /\ intr_disable
  /\ intr_flag' = TRUE
  /\ api' = "call"
  /\ UNCHANGED <<pmm, spie, clock, trap, call, caller_sie, held, around>>

CallManager ==
  /\ Running /\ api = "call"
  /\ \/ call[1] = "alloc_pages" /\ Pmm!default_alloc_pages(call[3])
     \/ call[1] = "free_pages" /\ Pmm!default_free_pages(call[2], call[3])
     \/ call[1] = "nr_free_pages" /\ Pmm!default_nr_free_pages
  /\ api' = "manager"
  /\ UNCHANGED <<irq, clock, trap, call, intr_flag, caller_sie, held, around>>

ManagerStep ==
  /\ Running /\ api = "manager"
  /\ Pmm!Step
  /\ UNCHANGED <<irq, clock, trap, thread>>

ManagerReturns ==
  /\ Running /\ api = "manager" /\ pc = "idle"
  /\ api' = "intr_restore"
  /\ UNCHANGED <<pmm, irq, clock, trap, call, intr_flag, caller_sie, held, around>>

\* Mutant: intr_enable whatever the flag says.
IntrRestoreAlways ==
  /\ Running /\ api = "intr_restore"
  /\ intr_enable
  /\ api' = "return"
  /\ UNCHANGED <<pmm, spie, clock, trap, call, intr_flag, caller_sie, held, around>>

\* Mutant: interrupts are never enabled again.
IntrRestoreNever ==
  /\ Running /\ api = "intr_restore"
  /\ api' = "return"
  /\ UNCHANGED <<pmm, irq, clock, trap, call, intr_flag, caller_sie, held, around>>

IntrRestore ==
  /\ Running /\ api = "intr_restore"
  /\ IF intr_flag THEN intr_enable ELSE UNCHANGED sie
  /\ api' = "return"
  /\ UNCHANGED <<pmm, spie, clock, trap, call, intr_flag, caller_sie, held, around>>

ApiReturn ==
  /\ Running /\ api = "return"
  /\ held' = IF call[1] = "alloc_pages" /\ ret # NULLPAGE
             THEN held \cup {<<ret, call[3]>>} ELSE held
  /\ api' = "none"
  /\ call' = <<"none", 0, 0>> /\ intr_flag' = FALSE /\ caller_sie' = FALSE
  /\ UNCHANGED <<pmm, irq, clock, trap, around>>

-----------------------------------------------------------------------------
(***************************************************************************)
(* Traps. The hart saves SIE in SPIE and clears it, and sret restores SIE. *)
(* The timer's handler sets the next event (which also withdraws the       *)
(* interrupt) and counts. An exception is an empty case of                 *)
(* exception_handler or, for a cause that has no case, its default, which  *)
(* only prints the trap frame: sret goes back to the instruction that      *)
(* faulted, and the thread never comes past it.                            *)
(***************************************************************************)
Expire ==
  /\ timer = "armed"
  /\ timer' = "expired"
  /\ UNCHANGED <<pmm, irq, stie, ticks, trap, thread>>

EnterTrap(handler) ==
  /\ spie' = sie /\ sie' = FALSE
  /\ trap' = handler
  /\ UNCHANGED <<pmm, clock>>

TakeInterrupt ==
  /\ Running /\ sie /\ stie /\ timer = "expired"
  /\ EnterTrap("clock_set_next_event")
  /\ UNCHANGED thread

TakeException ==
  /\ Calling
  /\ EnterTrap("exception_handler")
  /\ stuck' = TRUE
  /\ UNCHANGED <<kern, api, call, intr_flag, caller_sie, held, is_panic, message, DEBUG_GRADE>>

exception_handler ==
  /\ trap = "exception_handler"
  /\ trap' = "sret"
  /\ UNCHANGED <<pmm, irq, clock, thread>>

SetNextEvent ==
  /\ trap = "clock_set_next_event"
  /\ clock_set_next_event
  /\ trap' = "count"
  /\ UNCHANGED <<pmm, irq, stie, ticks, thread>>

\* Mutant: ticks++ instead of ++ticks.
CountTickAfter ==
  /\ trap = "count"
  /\ ticks' = (ticks + 1) % TICKWORD
  /\ trap' = IF ticks % TICK_NUM = 0 THEN "print_ticks" ELSE "sret"
  /\ UNCHANGED <<pmm, irq, stie, timer, thread>>

CountTick ==
  /\ trap = "count"
  /\ ticks' = (ticks + 1) % TICKWORD
  /\ trap' = IF ticks' % TICK_NUM = 0 THEN "print_ticks" ELSE "sret"
  /\ UNCHANGED <<pmm, irq, stie, timer, thread>>

print_ticks ==
  /\ trap = "print_ticks"
  /\ trap' = IF DEBUG_GRADE THEN "__panic" ELSE "sret"
  /\ UNCHANGED <<pmm, irq, clock, thread>>

Sret ==
  /\ trap = "sret"
  /\ sie' = spie /\ spie' = TRUE
  /\ trap' = "none"
  /\ UNCHANGED <<pmm, clock, thread>>

-----------------------------------------------------------------------------
(***************************************************************************)
(* __panic, called by the thread or by the trap handler. It disables       *)
(* interrupts only after it has printed its message, so the thread's call  *)
(* may be interrupted anywhere before, by a handler that may panic, too.   *)
(***************************************************************************)
CallPanic ==
  /\ Calling /\ ~stuck
  /\ kern' = "__panic"
  /\ UNCHANGED <<pmm, irq, clock, trap, api, call, intr_flag, caller_sie, held>>
  /\ UNCHANGED <<stuck, is_panic, message, DEBUG_GRADE>>

\* The code that runs now, the handler or else the thread, goes from one place
\* to another.
Goto(from, to) ==
  /\ \/ ~Running /\ trap = from /\ trap' = to /\ UNCHANGED kern
     \/ Running /\ kern = from /\ kern' = to /\ UNCHANGED trap
  /\ UNCHANGED <<pmm, spie, clock, api, call, intr_flag, caller_sie, held, stuck, DEBUG_GRADE>>

\* Mutant: the flag is set before it is tested.
TestPanicSetFirst ==
  /\ Goto("__panic", "panic_dead")
  /\ is_panic' = TRUE
  /\ UNCHANGED <<sie, message>>

TestPanic ==
  /\ Goto("__panic", IF is_panic THEN "panic_dead" ELSE "set_is_panic")
  /\ UNCHANGED <<sie, is_panic, message>>

SetPanic ==
  /\ Goto("set_is_panic", "print")
  /\ is_panic' = TRUE
  /\ UNCHANGED <<sie, message>>

PrintPanic ==
  \/ /\ Goto("print", "print_rest")
     /\ message' = "partial" /\ UNCHANGED <<sie, is_panic>>
  \/ /\ Goto("print_rest", "panic_dead")
     /\ message' = "whole" /\ UNCHANGED <<sie, is_panic>>

\* Mutant: the monitor runs with interrupts as they are.
PanicDeadEnabled ==
  /\ Goto("panic_dead", "kmonitor")
  /\ UNCHANGED <<sie, is_panic, message>>

PanicDead ==
  /\ Goto("panic_dead", "kmonitor")
  /\ intr_disable
  /\ UNCHANGED <<is_panic, message>>

\* The loop at the end of __panic.
InMonitor == IF Running THEN kern = "kmonitor" ELSE trap = "kmonitor"
StayInMonitor == InMonitor /\ UNCHANGED vars

-----------------------------------------------------------------------------
Boot    == CheckDone \/ SetStie \/ ArmTimer \/ ZeroTicks \/ IntrEnable
Callers ==
  \/ \E k \in CallSizes : CallApi("alloc_pages", 0, k)
  \/ \E b \in held : CallApi("free_pages", b[1], b[2])
  \/ CallApi("nr_free_pages", 0, 0)
  \/ CallPanic
ApiStep ==
  \/ IntrSave \/ IntrDisable \/ CallManager \/ ManagerStep \/ ManagerReturns
  \/ IntrRestore \/ ApiReturn
Handler   == SetNextEvent \/ CountTick \/ print_ticks \/ exception_handler \/ Sret
PanicStep == TestPanic \/ SetPanic \/ PrintPanic \/ PanicDead

Next ==
  \/ Boot \/ Callers \/ ApiStep
  \/ Expire \/ TakeInterrupt \/ TakeException \/ Handler \/ PanicStep \/ StayInMonitor

(***************************************************************************)
(* Code that can run does run, and an interrupted thread goes on between   *)
(* two interrupts; a thread that is stuck faults again; the hart looks for *)
(* a pending interrupt after every sret, so one that is enabled again and  *)
(* again is taken; a timer runs out.                                       *)
(***************************************************************************)
Spec ==
  /\ Init /\ [][Next]_vars
  /\ WF_vars(SetStie \/ ArmTimer \/ ZeroTicks \/ IntrEnable)
  /\ SF_vars(ApiStep \/ PanicStep)
  /\ WF_vars(Handler)
  /\ WF_vars(stuck /\ TakeException)
  /\ WF_vars(Expire)
  /\ SF_vars(TakeInterrupt)

-----------------------------------------------------------------------------
(***************************************************************************)
(* No trap is handled while the allocator is between two iterations of its *)
(* loops, nor anywhere between __intr_save and __intr_restore, although    *)
(* SIE is read and cleared in two steps. What the handler would find in    *)
(* pages[] is always consistent.                                           *)
(***************************************************************************)
CallsUninterrupted ==
  trap # "none" => pc = "idle" /\ api \in {"none", "intr_save", "intr_disable", "return"}

(***************************************************************************)
(* An API function returns with interrupts as its caller had them, also    *)
(* when a trap came between reading SIE and clearing it: off in the calls  *)
(* of default_check during boot, on afterwards.                            *)
(***************************************************************************)
IrqRestored ==
  api = "return" /\ trap = "none" => sie = caller_sie

(***************************************************************************)
(* Callers never own overlapping blocks, and between calls the allocated   *)
(* pages are exactly the pages that callers own: no page is handed out     *)
(* twice and none is lost.                                                 *)
(***************************************************************************)
BlockPages(b) == b[1] .. b[1] + b[2] - 1
HeldBlocks ==
  /\ \A b, c \in held : b # c => BlockPages(b) \cap BlockPages(c) = {}
  /\ api = "none" =>
       UNION {BlockPages(b) : b \in held} = {q \in Pages : PageAllocated(pages, q)}

(***************************************************************************)
(* A tick is never lost: ticks only ever grows by one (modulo its word),   *)
(* although clock_init sets it to zero after it has armed the timer.       *)
(***************************************************************************)
TicksOnlyGrow == [][ticks' \in {ticks, (ticks + 1) % TICKWORD}]_vars

(***************************************************************************)
(* Once the kernel runs, the clock never stops and "100 ticks" is printed  *)
(* again and again, unless it panics: every handler sets the next event,   *)
(* every path enables interrupts again, and the wrap of ticks only shifts  *)
(* the rhythm. A thread that faults for ever, because exception_handler    *)
(* leaves epc where it is, does not keep the timer out.                    *)
(***************************************************************************)
ClockNeverStops ==
  (kern = "running" /\ ~DEBUG_GRADE) ~> (trap = "print_ticks" \/ is_panic)

(***************************************************************************)
(* The grading build stops by itself, also when the thread faults for      *)
(* ever, and, unless the thread panics, exactly when TICK_NUM ticks have   *)
(* been counted ("100 ticks", then "End of Test.").                        *)
(***************************************************************************)
GradeEnds ==
  (kern = "running" /\ DEBUG_GRADE) ~>
    (InMonitor /\ (kern = "running" => ticks = TICK_NUM % TICKWORD))

(***************************************************************************)
(* A panic is final: whoever called it and whatever interrupts it, the     *)
(* kernel comes to the monitor, and no trap takes it out of it again.      *)
(***************************************************************************)
PanicIsFinal == is_panic ~> [](InMonitor /\ ~sie)

(***************************************************************************)
(* The monitor is entered with the whole message of a panic on the         *)
(* console, although is_panic makes a second __panic skip its own, except  *)
(* in the grading build when the handler's panic interrupts the thread's   *)
(* before it has printed everything.                                       *)
(***************************************************************************)
PanicMessage ==
  InMonitor => message = "whole" \/ (DEBUG_GRADE /\ ~Running /\ kern \in {"print", "print_rest"})
=============================================================================
