# TLA+ models of CertiCore

CertiCore is a small RISC-V kernel derived from uCore. Its physical page
allocator is verified in the repository itself with Serval: `verif/` states a
specification in Rosette and checks the LLVM code against it for five pages.
This directory holds TLA+ models of the kernel's own logic, TLC runs that check
them on small instances, and TLAPS proofs that hold for every size.

`PROJECT.json` lists the components, the runs, the source lines behind every
definition, the hazards and the theorems.

## Inventory

| Part | Source | State it keeps | Operations |
|------|--------|----------------|------------|
| Page allocator | `kern/mm/default_pmm.c` | `nr_free`, the flags in `pages[]` | `init`, `init_memmap`, `alloc_pages`, `free_pages`, `nr_free_pages`, `check` |
| Its specification | `verif/llvm-spec.rkt` | `nrfree`, `pagedb.flag`, `a0` | `spec-default_*`, `find-free-pages` |
| Non-interference | `verif/llvm-ni.rkt` | two specification states | `free_pages` in both |
| Memory set-up and API | `kern/mm/pmm.c`, `pmm.h`, `memlayout.h`, `mmu.h` | `npage`, `nbase`, `va_pa_offset`, the manager in use | `pmm_init`, `page_init`, `alloc_pages`, `free_pages`, `nr_free_pages` |
| Interrupt control | `kern/sync/sync.h`, `kern/driver/intr.c` | `sstatus.SIE` | `__intr_save`, `__intr_restore` |
| Clock | `kern/driver/clock.c` | `ticks`, the SBI timer, `sie.STIE` | `clock_init`, `clock_set_next_event` |
| Traps | `kern/trap/trapentry.S`, `trap.c` | the trap frame, `stvec`, `sscratch` | `SAVE_ALL`, `trap`, `interrupt_handler`, `exception_handler`, `RESTORE_ALL` |
| Boot | `kern/init/init.c`, `entry.S` | `satp`, the boot page table, the bss | `kern_entry`, `kern_init` |
| Panic and monitor | `kern/debug/panic.c`, `kmonitor.c`, `libs/readline.c` | `is_panic`, the line buffer, the nesting of monitors | `__panic`, `kmonitor`, `runcmd`, `parse`, `readline` |
| Bit operations | `libs/atomic.h` | an array of words | `set_bit`, `clear_bit`, `change_bit`, `test_bit`, `test_and_set_bit`, `test_and_clear_bit` |
| Lists | `libs/list.h` | links | `list_add`, `list_del` (unused by the allocator) |
| Strings | `libs/string.c` | memory | `memmove`, `strncpy`, `strcmp`, `strtol`, ... |
| Formatted output | `libs/printfmt.c`, `kern/libs/stdio.c` | the buffer of `vsnprintf` | `vprintfmt`, `printnum`, `vsnprintf`, `cprintf` |

### How the parts interact

`kern_entry` turns address translation on with a table of one entry and jumps to
`kern_init`, which clears the bss and calls `pmm_init`. That reserves every page descriptor, hands the
whole pages above the kernel image to the allocator and makes it check itself;
then `idt_init`, `clock_init` and `intr_enable`. From there on the kernel idles
and the only other actor is the trap handler: the timer interrupt may come
between any two instructions while `sstatus.SIE` is set, an exception at any
instruction that faults. The functions of `pmm.c` keep it out of
the allocator by saving and clearing `SIE`. A trap stores the registers with
`trapentry.S`, counts a tick and sets the next event. Whatever panics ends in
the monitor, which reads commands for ever. All of it runs on one hart with one
thread.

### What is hard here

* the interrupt between reading and clearing `SIE`, and in the allocator's loops;
* traps inside traps, which overwrite `sepc`, `scause` and `sscratch`;
* exceptions that are taken again for ever, because the handler leaves `epc`
  alone, and must not starve the timer;
* a panic that is interrupted while it prints, by a handler that panics, too;
* one address offset that four files write down, and a page table inside the
  image whose bss is cleared;
* bits of one word that thread and handler both change;
* a timer that fires once for each `sbi_set_timer`: one forgotten path and the
  clock stands still;
* words that wrap in `base + n` and `nr_free -= n`, first fit off by one, and a
  block that turns out unusable half way;
* the ends of memory: an image that ends inside the last page;
* the static line buffer and the in-place parser of the monitor;
* overlapping memory, strings cut by `n`, numbers at their limits, full buffers.

Nothing is persisted and nothing is sent, so crash recovery and unreliable
delivery do not arise.

### What makes each part correct

| Part | Properties |
|------|------------|
| Page allocator | it implements its specification (`ImplementsPagedb`), counts right (`NrFreeIsFree`, `NoUnderflow`), keeps its flags consistent, returns |
| Specification | `find-free-pages` answers the first fit (`AnswersFirstFit`); callers cannot observe or disturb pages that are not theirs (`WeakStepConsistency`, `LocalRespect`, `OutputConsistency`) |
| Set-up | every whole page above the image, and no other, is available after boot (`BootedLayout`), or boot panics for a known reason (`BootOutcome`); hart, loader and `PADDR` agree on every address (`MappingAgrees`) |
| API and clock | calls are never interrupted half way, interrupts are restored, blocks are handed out once, no tick is lost, the clock never stops, whatever faults |
| Panic | it always ends in the monitor for good (`PanicIsFinal`), its message is complete except in one named case (`PanicMessage`) |
| Traps | the interrupted context comes back, each handler sees its own frame, a dump shows every register under its own name |
| Monitor | it runs what was typed, prints one panic message, always prompts again |
| Bit operations | no change is lost, the bit returned is the bit replaced |
| Lists, strings, formats | each function does what its comment says, at every boundary |

## Modules

    PageDefs ── PagedbSpec ───────────── NonInterference
        │           └── PagedbCalls ←(refined by)─ DefaultPmm
        ├── FindFreePages             │ (instance)
        ├── PmmBoot ──────────────────┤ uses the abstract steps
        └── Kernel ───────────────────┘ uses the loops
    TrapEntry    Monitor    AtomicBits    ListSpec ←(refined by)─ Lists    Strings    PrintFmt ── MCPrintFmt

`XProofs` holds the theorems about module X: DefaultPmmProofs, KernelProofs (which
takes the theorems about the allocator from an instance of DefaultPmmProofs),
PmmBootProofs, TrapEntryProofs, MonitorProofs and StringsProofs.
PagedbProofs is about the specification in `verif/` and extends both NonInterference
and FindFreePages; LibsProofs is about Lists, AtomicBits and PrintFmt and extends all
three, which is why the initial predicates and next-state relations of FindFreePages,
AtomicBits and PrintFmt have names of their own.

* **PageDefs**: pages, flags, words modulo `WORD`, the bit operations on
  `page->flags`, and `first_free_block`, the first fit stated without a loop.
  Model constants replace `NPAGE` and 2^64.
* **PagedbSpec**: `verif/llvm-spec.rkt`. One step per `spec-default_*` function
  on `nrfree`, `flag` and `ret`.
* **PagedbCalls**: the allocator as an object, the target of the refinement. `op` is
  the call that is being made, with its arguments, and `phase` says whether it has
  taken effect. A call takes effect once, by the method of PagedbSpec with just those
  arguments: a request for three pages that is refused cannot pass for a request for
  none, which PagedbSpec always refuses.
* **DefaultPmm**: `default_pmm.c`. The methods are started by one action each
  (arguments are any words), and every loop iteration is a step: `CheckReserved`,
  `CheckAllocated`, `ClearReserved`; `ScanTaken`, `ScanUsable`, `ScanFailed`,
  `SetAllocated`; `ClearAllocated`; `*Done` are the statements after the loops.
  `pc` is the loop, the other variables are the C locals. Two variables are history:
  `op` holds the last call and its arguments, for the refinement; `disciplined` turns
  false for good when a caller frees pages that are not all allocated, and the
  properties of the counter are about behaviours in which it is still true.
* **FindFreePages**: the recursion of `find-free-pages` as a walk, one step per
  call of `find-free-accumulate`, from every database and request.
* **PmmBoot**: `kern_entry` (`satp` and the boot page table), the `memset` of
  `kern_init` over the bss, and `pmm_init` with `page_init`, `check_alloc_page`,
  `default_check` and `basic_check`, assertion by assertion. It starts from every
  possible end of the kernel image. Loader and hart are external: `LoadAddress`
  says where a byte of the image is, `Translate` is the Sv39 walk. The offset
  between virtual and physical addresses is a constant for each place that writes
  it down; `LayoutConstants` is the assumption that the linker script, `entry.S` and
  `memlayout.h` agree on it, as their values do; a file that disagreed would break the
  assumption and not `MappingAgrees`. Allocator calls are single steps with the effect
  that PagedbSpec gives them, which ImplementsPagedb justifies.
* **Kernel**: the rest of `kern_init`, the API with its guard, the clock, `__panic`
  and the traps, over the *loops* of DefaultPmm (an INSTANCE that shares the
  variables). `IntrSave` and `IntrDisable` are the two instructions of
  `__intr_save`. `TakeInterrupt` (external: the hart) may come between any two
  steps while `sie` holds. Callers are the environment: they free only what they
  hold, and between calls may hit an instruction that faults (`TakeException`;
  from then on the thread is `stuck` there) or panic. The steps of `__panic` are
  written once (`Goto`) and taken by the thread or by the handler. `DEBUG_GRADE`
  is the build option that makes `print_ticks` panic.
* **TrapEntry**: registers, CSRs and the stack as memory; the blocks of
  `SAVE_ALL` and `RESTORE_ALL` in order; exceptions may hit the handler itself,
  up to `MaxDepth`. Between them `trap_dispatch` and every case of the two
  handlers: silence, a line, or the dump of `print_trapframe`, whose names come
  from `struct pushregs` and whose values from the frame. The C code clobbers the
  caller-saved registers.
* **Monitor**: `__panic`, `kmonitor`, `readline` key by key (with backspace),
  `parse` character by character in the line buffer, `runcmd`. Commands are one
  letter long; `b`acktrace ends in `panic("Not Implemented!")` and nests.
* **ListSpec / Lists**: sequences, and the doubly linked rings of `list.h` that
  implement them; deleted entries keep their stale links, as in the code.
* **AtomicBits**: the operations of `atomic.h` on an array of words, called by the
  thread and by a handler that runs between any two of its instructions. The AMO
  instruction is one step, masking its result another. A word is the set of its bits
  that are 1, so that `or`, `and`, `xor` and `~` are operations on sets and a shift
  subtracts from every bit. `bits` is the set of bits of the whole array as the
  operations would leave it one by one.
* **Strings**: the copying, comparing and searching functions of `string.c`,
  loop iteration by loop iteration over one memory, arguments may overlap.
* **PrintFmt**: `vprintfmt` as the automaton it is, with `printnum`, the console
  and the buffer of `vsnprintf`; `strtol` as the function that reads numbers
  back. The format and the arguments are chosen as they are read.

Definitions under a comment `Mutant:` are broken variants of the definition that
follows. No specification uses them; they show that a property can fail.

## Runs

| Run | Instance | What it shows |
|-----|----------|---------------|
| `pmm` | 3 pages, words modulo 7, any caller | Each call does once what the specification says of that call and its arguments, for every pair of words, wrapped sums included (NULLPAGE only if no block of that size is free); calls return; no page is reserved and allocated. Until a caller frees what is not allocated, `nr_free` is exact and never wraps; the loop invariant of the proofs holds. |
| `find_free_pages` | 5 pages, every database, every request | The specification's recursion answers the first fit. |
| `boot` | 8 pages of 4 bytes, every end of the image | The table, the loader and `PADDR` agree on every kernel address, before and after the bss is cleared. Exactly the whole pages above the image are handed out; boot panics exactly when fewer than five are left (in `pa2page`, if the image ends inside the last page). |
| `kernel` | 6 pages, both builds | Interrupts between any two steps disturb no call; `SIE` comes back; blocks do not overlap; no tick is lost; `100 ticks` until a panic, even if the thread faults for ever; the grading build ends at `TICK_NUM`; every panic ends in the monitor with interrupts off, its message whole unless a panic of the handler cut it. |
| `trap_entry` | nesting to depth 3 | Contexts and frames survive traps inside traps, the mode (SPP) included; a dump shows the interrupted registers under their names. |
| `monitor` | lines of 5 characters, 2 arguments | What is typed is what runs, whatever the static buffer held; one message; the prompt returns. |
| `monitor_args` | the same (violation) | See findings. |
| `non_interference` | 3 pages, every pair of databases | The unwinding conditions of `llvm-ni.rkt`, also for `init_memmap`. |
| `atomic_bits` | 2 words of 2 bits, every start | No change of thread or handler is lost or hits another bit; each test returns the bit its operation found. |
| `lists` | 2 heads, 3 entries | The rings implement sequences and read the same in both directions. |
| `strings` | 5 bytes of 3 values, every call | Every function gives what its comment says, on every overlap. |
| `print_fmt` | formats of 5 characters, `int` of 4 and `long` of 6 bits | Where padding, text and digits of a field are, reading back, literal escapes, buffer limits. |

### Bounds and why they are enough

* Pages: three pages hold a taken page before, in and after a candidate block,
  so a restart of the scan, a fit at the very end and a request that fits in
  total but not in a row all happen. `WORD` exceeds the page count by enough that
  `base + n` wraps to every small value. What the bounds leave open is closed by
  the proofs, which have none.
* `kernel`: five or six free pages, requests of two and three pages and the
  refused request of none, so that a second request of three may or may not fit.
  `TICK_NUM = 2` and `TICKWORD = 3` make the wrap of `ticks` fall between two
  messages, as 2^64 does.
* `boot`: the table has four entries, so the last of them maps one quarter of the
  address space and an error of one index faults; every end of the image from the
  end of the table to one page past memory occurs, in and between pages.
* `atomic_bits`: the handler's operation hits the thread's bit, its neighbour in
  the word, and another word.
* `trap_entry`: at depth three there is a middle trap that has both an outer one
  to spare and an inner one to survive. The causes looked at have a silent case, a
  line, and no case, for interrupts and for exceptions.
* `monitor`: five characters hold three words, one more than `argv`, a full
  buffer, and an earlier line whose end a shorter line leaves behind.
* `lists`: three entries and two heads reach every list of lengths 0 to 3, an
  entry that moves from one to the other, and a stale entry between two others.
* `strings`: five bytes hold two overlapping blocks at every distance in both
  directions, and two strings of which one is a prefix of the other.
* `print_fmt`: five characters hold two flags, a width or precision and a
  conversion, or text after one; the words include the most negative `int` and
  `long`; buffers of size 0, 1 and 4 are full at once, at the start and later.

`CHECK_DEADLOCK FALSE` is set where a run is one call that ends (`boot`,
`find_free_pages`, `non_interference`, `strings`, `print_fmt`) and where an
overrun stack is followed no further (`monitor`).

### Fairness

* `DefaultPmm`: weak fairness of the loop steps. The code is sequential and waits
  for nothing.
* `Kernel`: weak fairness of boot, the handler and the timer, and of the fault of
  a thread that is stuck; strong fairness of `TakeInterrupt`, because the hart
  looks for pending interrupts after every `sret`, so one cannot be enabled again
  and again and never taken; strong fairness of the API's and of `__panic`'s
  steps, because the timer interval is much longer than the handler and the
  interrupted thread goes on between interrupts. Nothing makes callers call,
  fault or panic.
* `Monitor`: weak fairness of the code. Nobody has to type.

The safety runs need none.

## Findings

* **`parse` stores more words than `argv` holds** (`monitor_args`,
  `kern/debug/kmonitor.c:53`). It prints `Too many arguments (max %d).` and then
  stores the word all the same.

Two comments of `libs/printfmt.c` disagree with its code. `FieldsPadded`, which
`print_fmt` checks and `PaddingExact` proves, states what the code does, so each of
these comments is refuted by it:

* "flag to pad on the right" (line 124): for numbers, `printnum` takes `-` for the
  character to pad with and puts it before the digits (lines 46-47). `%-2d` of 3
  prints `-3`, which `strtol` reads as minus three.
* "Space or zero padding and a field width are supported for the numeric formats
  only" (lines 8-9): `%s` implements both (lines 192-207).

Observations that no run is about:

* `free_pages` trusts its callers completely: after a double free `nr_free`
  counts too many. No property is about that case: those of the counter speak of
  `disciplined` callers, and `CallersKeepContract` shows that Kernel's are.
* The comment of `__panic` says that it prints the message and then enters the
  monitor. In the grading build the timer's panic may cut the thread's message,
  or suppress it; `PanicMessage` names this as the only exception. Disabling
  interrupts first would close it.
* `exception_handler` does not advance `epc`: an `ebreak` is taken for ever.
* A negative number or pointer has its padding between the sign, or `0x`, and the
  digits, so `strtol` does not read it back if that is blanks; `strtol` accepts no
  `0X`.
* `test_bit` reads the first word whatever `nr`, unlike the operations that set
  and clear; all its callers pass a small `nr`.
* Unused macros of `mmu.h`: `SV39_PTE_ADDR` shifts by 3 although the page number
  of an entry starts at bit 10, and `SV39_PTSIZE` names an undefined symbol.
* `sbi_call` writes `x10`, `x11`, `x12` and `x17` without telling the compiler.
* After `csrw satp` the next instructions are at addresses that the boot table
  does not map, and the range `memset` clears includes the stack: both work only
  by properties of the hart and the compiler that no source line fixes.

## Proofs

Each theorem is for every value of the constants that satisfies the named
assumption of its module. `PageConstants` in PageDefs is the one about pages:
there is at least one, a word is more than twice the number of pages (so that
`base + n` of arguments within the bounds does not wrap, as with 2^64), the six
error statuses are words, and no page is `NULLPAGE`. TLC has checked the inductive
invariants on the instances of the runs as well, except `RingInv` of LibsProofs, whose
quantifier over sequences it cannot enumerate.

**DefaultPmmProofs.**
`TypeCorrect`: every loop stays inside `pages[]`. By itself `TypeOK` is inductive.
`Invariance`: `Inv == TypeOK /\ NoReservedAllocated /\ LoopInv` (its parts are
`FlagsExclusive` and `LoopsCorrect`). `LoopInv` says for
each loop what it has done up to `p` and what the loops before it established.
It is needed because the effect of a call is spread over many steps: without
"all pages of the block are reserved and none is allocated" in `ClearReserved`,
neither `NoReservedAllocated` nor the refinement would be inductive, and without
"no block of n pages starts before `first_usable`" in the scan the answer would
not be the *first* fit.
`Implementation`: `Spec => ImplementsPagedb`, the refinement of PagedbCalls. A call
takes effect when it enters its last loop; the refinement mapping (`MapFlag`,
`MapNrFree`, `MapRet`, `MapPhase`) shows the finished block from there on. There is one
lemma per kind of step (`Sim*`), which says which method with which arguments the step
is; `OpInv` says that the locals of a loop are the arguments of the call recorded in
`op`, and with it `CallStep` makes the method the effect of that call. `Simulation`
puts them together.
`CounterExact` and `CounterNeverWraps`: while `disciplined` holds, the *mapped* counter
equals the number of available mapped pages in every state (`CounterInv`), by
cardinality lemmas about adding and removing a block (`Grow`, `Shrink`). Stated
on the mapped state the invariant changes only at abstract steps; between calls
the mapped state is the concrete one. Once `disciplined` is false it stays so
(`OnceUndisciplined`), and nothing is left to show.

**PagedbProofs.** `StepConsistent`, `RespectsLocality`,
`ConsistentOutput`: the status of a call is a function of the flags of its own
block (`SameStatus`), so are the new flags (`SameChange`), and nothing else
changes (`OnlyTheBlock`). The repository checks `free_pages` for five pages; the
theorems are about `free_pages` and `init_memmap` and any number of pages.
`WalkCorrect` and from it `FirstFit`: `WalkInv`, which says that the pages
of the current run are available and that every block before it contains a page
that is not.

**KernelProofs** (`PageConstants`, `KernelConstants`: positive `TICK_NUM` and
`TICKWORD`, request sizes that are words). Three invariants, one on top of the other.
`ControlInv` (`ControlInvariant`) says for every point of boot, of an API call and of
a trap what `SIE`, `SPIE` and the saved flag are. From it follow
`CallsNotInterrupted`, `InterruptsRestored` and `NoTickLost`. `IrqRestored` by itself
says nothing between save and restore, and `TicksOnlyGrow` needs that no timer
interrupt is taken before boot has set `ticks` to zero.
`PanicInv` (`PanicInvariant`) follows `is_panic` and the message through the panics of
thread and handler; from it `MessageShown`, and `MonitorIsFinal`, which is the safety
half of `PanicIsFinal`.
`KernelInv` (`KernelInvariant`) joins the control state with the allocator's `Inv`,
taken from an instance of DefaultPmmProofs in which every caller is disciplined: what a
call is doing to its block, and that outside of it the allocated pages are those held.
From it `BlocksHeldOnce`, and the composition: every kernel step is a step of the
allocator with a disciplined caller or leaves it alone (`CallersKeepContract`), hence
a step of PagedbCalls or a stutter (`CallsAreAtomic`; the call and its phase are read off
the control state of the API, `ApiOp` and `ApiPhase`), hence `nr_free` never drifts
(`CounterExact`). `GradeStopsOnTime` is the safety half of `GradeEnds`, if
`TICK_NUM < TICKWORD` (100 and 2^64 in the code).

**TrapEntryProofs** (`TrapConstants`: the stack holds `MaxDepth` frames; causes and
program counters are in their ranges). `TrapInvariant` says for every point of
`__alltraps` and `__trapret` where each part of the interrupted context is: in a
register, in a CSR or in the frame, and that the frames of the suspended traps lie
above `sp`, whole (`FramesInv`). The frame of the innermost trap is complete only once
`store_csrs` is done, so `FramesIntact` alone is not inductive. Its results are
`ContextGivenBack`, `FramesKept` and `DumpsRight`, for any depth.

**PmmBootProofs** (`PageConstants`, `BootConstants`, `LayoutConstants`).
`BootInvariant` follows boot from step to step: at each call of `default_check` the
blocks held are the lowest pages above the image, so that the next answer of the first
fit is known. From it `BootLayout`, `BootEnds` (with the cardinality of the pages above
the image) and `MappingIsOne`, which needs the arithmetic of page numbers, table
indices and offsets for every page size.

**MonitorProofs** (`MonitorConstants`: positive sizes; neither `'\0'` nor the space is
a letter, since `readline` takes only characters from the space on). `PanicInv` gives
`FirstMessageOnly`. `MonitorInvariant` relates the line buffer to the line on the
screen, position by position: equal while it is read; with a `'\0'` for every space
that `parse` has passed, and one behind the line, while it is parsed. `argv` lists the
beginnings of words up to where `parse` has looked, in order. `RunsWhatWasTyped` speaks
only of the end of `parse`, so without these it is not inductive. From them `RunsTyped`
(the words counted with cardinalities, the strings by their first `'\0'`) and
`StaysInLine`: neither function leaves the buffer.

**StringsProofs** (`StringConstants`: bytes are numbers, one of them 0).
`StringsInvariant` gives every loop what it has done up to its pointers; for the
copies, also that what is still to be read has not been overwritten. From it
`CopiesAreRight`, `ComparisonsAreRight`, `SearchesAreRight`, and `AccessesInBounds`: no
loop touches a byte outside memory.

**LibsProofs, lists** (`ListConstants`: finitely many heads and entries, no head is an
entry). `ListsInvariant`: there are sequences whose rings the links are (`RingInv`).
`Mirror` cannot be inductive, because it follows the links from the heads only, and
an operation starts from any entry. `BothWaysAgree`, `FreshIsEmpty` and `RingsAreLists`,
the refinement of ListSpec with one lemma for each kind of change. That a walk along
the links recovers the sequence is an induction over its length.

**LibsProofs, bit operations** (`BitsConstants`: there are words, and they have bits).
`BitOperationsAtomic`: `OperationsAtomic` says what an operation returns only at its
return, so `BitsInv` adds `FoundInv`: the word in an actor's register still holds what its
operation found, although the handler may have changed memory since. `WordAndBit` and
`SameBit` say that a bit number is one word and one bit of it, `AmoBits` what each AMO
does to one bit and to no other.

**LibsProofs, formatted output** (`FormatConstants`: an int has an even number of values
that divides the number of values of a long, words are longs, no escape character is
`'\0'`). Two inductions over numbers carry the theorems.
`PrintnumPads`: `printnum` prints the padding that the width leaves and then the digits,
although its recursion hands a width smaller by one to each inner call; `NumDigitsIs`: the
digits are as many as the powers of the base say; `PrintnumShape`, `PrefixedShape` and
`StringOK`: what is where in the field. `DigitsRead`: `strtol`'s loop over these
digits, behind any number of zeros, computes the number again without leaving the word;
`BlanksRead`, `MinusRead` and `HexRead` add blanks, the sign and the prefix. A third one,
over the characters that `sprintputch` gets, shows that the buffer always holds what fits
of the output (`PutAll`).
The invariant `FormatInv` (`FormatStep`, one lemma for each kind of step) has four parts:
`FmtRead`, a `'\0'` is only at the end of what was read; `EscapeInv`, until the first
conversion the output is the format up to `fmt`, or up to the last `%` inside an escape
sequence, without which the rewind of an unknown sequence could not be followed; `BufInv`;
and `FieldInv`, what was printed since the last conversion began is the field it should be
until more is printed. From it `PrefixKept`, `UnknownLiteral`, `PaddingExact` and
`PrintedReadsBack`, and `FormatTypes`. `PrintedReadsBack` leaves out exactly the fields
that are not read back: those really padded with blanks after a sign or `0x`, and those
really padded with `-`. `PaddingExact` and `PrintedReadsBack` are for every word size, so for 2^32
and 2^64 too, where the run has four and six bits.

Library theorems about induction take the property as an operator and cannot be
instantiated here. The inductions of LibsProofs, StringsProofs and MonitorProofs go
by sets of natural numbers instead: `Least`, a set that is not empty has a least
element, and `Induct`. That a recursive function or a fold exists at all is proved the
same way, from functions up to n that agree (`DigitsExist`, `PowerExists`,
`StoredExists`, `ReadExists`).

**Only model-checked**: liveness, which the prover cannot handle: `CallsReturn`,
`ClockNeverStops`, `GradeEnds`, `PanicIsFinal` (the safety halves of the last two are
proved), `PromptComesBack`. Every other property that a passing run checks is proved.

## Not modelled

* The fetch of instructions while translation is being turned on, and the stack
  frames of compiled code (see the observations).
* `libs/riscv.h` beyond the bits and causes used: instruction encodings generated
  from the ISA. The console calls of `libs/sbi.c`: output and input of PrintFmt and
  Monitor.
* Three places are narrower than the code, without effect on what is stated: `PADDR`'s
  panic for addresses below `KERNBASE`, which its two calls cannot pass; the overflow of
  an `int` by the digits of a field width; `strncpy` and `strncmp` on strings that do not
  end.
* Time: `get_cycles` and `timebase` become a timer that runs out.
* Exceptions inside the allocator and the monitor: they would be bugs of code that
  is modelled without them; exceptions in callers' code are in Kernel, in handlers
  in TrapEntry.
* `print_kerninfo`, `__warn`, `cputs`: they only print. The course's exercises
  (`lab1_*`, `grade_backtrace`) are never called.
* `racket/` (Serval, vendored), `tools/`, `reports/`, the symbolic-execution
  drivers of `verif/` (their question is `ImplementsPagedb`).

## Plan

1. Done: the allocator, its specification and their refinement, with proofs; the
   boot path with translation; interrupts, exceptions, panics and the clock; trap
   entry and dispatch; the monitor; non-interference; bit operations, lists,
   strings, formatted output.
2. Done in the proofs: every safety property that a passing run checks, of all modules,
   with both refinements.
3. Next in the models: PmmBoot over the loops instead of the abstract steps.
