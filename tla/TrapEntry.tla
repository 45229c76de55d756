----------------------------- MODULE TrapEntry -----------------------------
(***************************************************************************)
(* __alltraps and __trapret of kern/trap/trapentry.S, with the handler     *)
(* trap() of trap.c between them. A trap saves the 32 registers and four   *)
(* CSRs in a trap frame on the kernel stack and must give all of them back *)
(* to the code it interrupted. Interrupts are off from the trap to sret,   *)
(* but the handler may itself raise an exception, which nests. What the    *)
(* handler prints is part of the model; the timer's own work is in Kernel. *)
(*                                                                         *)
(* Register values are numbers that stand for themselves; sp holds an      *)
(* address of the stack. A block of instructions that no trap can split    *)
(* and whose order does not matter is one step.                            *)
(***************************************************************************)
EXTENDS Integers, Sequences, SequencesExt

CONSTANTS
  MaxDepth,     \* bound: traps inside one another
  StackTop,     \* address of bootstacktop
  SIGN,         \* the top bit of scause, set for interrupts (2^63)
  HALF,         \* an unsigned int is a word modulo HALF (2^32)
  Exceptions,   \* causes of exceptions that are looked at
  Irqs,         \* interrupts that are looked at
  Code          \* program counters of the interrupted code

FRAME == 36
ASSUME TrapConstants ==
  /\ MaxDepth \in Nat \ {0}
  /\ StackTop \in Nat /\ StackTop >= MaxDepth * FRAME
  /\ SIGN \in Nat \ {0} /\ HALF \in Nat \ {0}
  /\ Exceptions \subseteq 0 .. SIGN - 1 /\ Irqs \subseteq 0 .. SIGN - 1
  /\ Code \subseteq 0 .. 499

X    == 0 .. 31                \* x0 .. x31
ra   == 1
sp   == 2
s0   == 8
s1   == 9
a0   == 10
s2   == 18
s3   == 19
s4   == 20
\* The registers' names in the calling convention.
Abi == [zero |-> 0, ra |-> 1, sp |-> 2, gp |-> 3, tp |-> 4, t0 |-> 5, t1 |-> 6, t2 |-> 7,
        s0 |-> 8, s1 |-> 9, a0 |-> 10, a1 |-> 11, a2 |-> 12, a3 |-> 13, a4 |-> 14,
        a5 |-> 15, a6 |-> 16, a7 |-> 17, s2 |-> 18, s3 |-> 19, s4 |-> 20, s5 |-> 21,
        s6 |-> 22, s7 |-> 23, s8 |-> 24, s9 |-> 25, s10 |-> 26, s11 |-> 27,
        t3 |-> 28, t4 |-> 29, t5 |-> 30, t6 |-> 31]
\* Registers a C function may leave changed: ra, t0-t6, a0-a7.
CallerSaved == {1} \cup 5 .. 7 \cup 10 .. 17 \cup 28 .. 31

VARIABLES
  x,              \* the registers
  mem,            \* the kernel stack
  sie, spie, spp, \* sstatus.SIE, sstatus.SPIE and sstatus.SPP
  sepc, scause, sscratch,
  at,             \* where __alltraps is; "c" while C code runs
  pc,             \* the pc of that C code
  out,            \* what this trap has printed, until it returns
  ctx             \* history: the contexts that were interrupted, innermost last

sstatus == <<sie, spie, spp>>
csrs    == <<sepc, scause, sscratch>>
vars    == <<x, mem, sstatus, csrs, at, pc, out, ctx>>

Junk == 999                    \* what a C function leaves in a register
\* Three places in trap(): before the dispatch and in either handler.
TRAP              == 500
INTERRUPT_HANDLER == 501
EXCEPTION_HANDLER == 502

Interrupts == {SIGN + i : i \in Irqs}
Nothing    == <<"nothing">>

Init ==
  /\ x = [r \in X |-> IF r = 0 THEN 0 ELSE IF r = sp THEN StackTop ELSE 100 + r]
  /\ mem = [a \in 0 .. StackTop - 1 |-> 0]
  /\ sie \in BOOLEAN /\ spie = FALSE /\ spp = FALSE
  /\ out = Nothing
  /\ sepc = 0 /\ scause = 0 /\ sscratch = 0
  /\ at = "c" /\ pc \in Code
  /\ ctx = <<>>

-----------------------------------------------------------------------------
(***************************************************************************)
(* The hart takes a trap: an interrupt when SIE is set, an exception in    *)
(* the interrupted code or in the handler. SPP says that it came from      *)
(* supervisor mode.                                                        *)
(***************************************************************************)
TakeTrap(cause) ==
  /\ at = "c"
  /\ Len(ctx) < MaxDepth
  /\ cause \in Interrupts => sie
  /\ ctx' = Append(ctx, [x |-> x, pc |-> pc, sie |-> sie, cause |-> cause])
  /\ spie' = sie /\ sie' = FALSE /\ spp' = TRUE
  /\ sepc' = pc /\ scause' = cause
  /\ at' = "save_sp"
  /\ UNCHANGED <<x, mem, sscratch, pc, out>>

\* csrw sscratch, sp; addi sp, sp, -36 * REGBYTES
SaveSp ==
  /\ at = "save_sp"
  /\ sscratch' = x[sp]
  /\ x' = [x EXCEPT ![sp] = @ - FRAME]
  /\ at' = "store"
  /\ UNCHANGED <<mem, sstatus, sepc, scause, pc, out, ctx>>

Slot(i) == x[sp] + i

\* Mutant: the slot of x2 gets the sp of the frame instead of the old one.
StoreCsrsFrameSp ==
  /\ at = "store_csrs"
  /\ mem' = [mem EXCEPT ![Slot(2)] = x[sp], ![Slot(32)] = x[s1],
                        ![Slot(33)] = x[s2], ![Slot(34)] = x[s3], ![Slot(35)] = x[s4]]
  /\ x' = [x EXCEPT ![a0] = x[sp]]
  /\ at' = "c" /\ pc' = TRAP
  /\ UNCHANGED <<sstatus, csrs, out, ctx>>

\* STORE x0, x1, x3 .. x31
StoreRegs ==
  /\ at = "store"
  /\ mem' = [a \in DOMAIN mem |->
               IF a - x[sp] \in X \ {sp} THEN x[a - x[sp]] ELSE mem[a]]
  /\ at' = "read_csrs"
  /\ UNCHANGED <<x, sstatus, csrs, pc, out, ctx>>

\* sstatus as one value.
SSTATUS_SIE  == 2
SSTATUS_SPIE == 32
SSTATUS_SPP  == 256
HasBit(status, bit) == (status \div bit) % 2 = 1
Bit(set, bit)       == IF set THEN bit ELSE 0
Status(ie, pie, pp) == Bit(ie, SSTATUS_SIE) + Bit(pie, SSTATUS_SPIE) + Bit(pp, SSTATUS_SPP)

\* csrrw s0, sscratch, x0; csrr s1 .. s4
ReadCsrs ==
  /\ at = "read_csrs"
  /\ x' = [x EXCEPT ![s0] = sscratch, ![s1] = Status(sie, spie, spp), ![s2] = sepc,
                    ![s3] = Junk, ![s4] = scause]     \* sbadaddr is not looked at
  /\ sscratch' = 0
  /\ at' = "store_csrs"
  /\ UNCHANGED <<mem, sstatus, sepc, scause, pc, out, ctx>>

\* STORE s0 .. s4 in slots 2, 32 .. 35; move a0, sp; jal trap
StoreCsrs ==
  /\ at = "store_csrs"
  /\ mem' = [mem EXCEPT ![Slot(2)] = x[s0], ![Slot(32)] = x[s1],
                        ![Slot(33)] = x[s2], ![Slot(34)] = x[s3], ![Slot(35)] = x[s4]]
  /\ x' = [x EXCEPT ![a0] = x[sp]]
  /\ at' = "c" /\ pc' = TRAP
  /\ UNCHANGED <<sstatus, csrs, out, ctx>>

-----------------------------------------------------------------------------
(***************************************************************************)
(* trap(), with a0 = tf.                                                   *)
(***************************************************************************)
TfStatus(tf)   == mem[tf + 32]
TfEpc(tf)      == mem[tf + 33]
TfBadvaddr(tf) == mem[tf + 34]
TfCause(tf)    == mem[tf + 35]

\* The fields of struct pushregs, in their order.
Base  == <<"zero", "ra", "sp", "gp", "tp", "t0", "t1", "t2", "s0", "s1">>
Args  == <<"a0", "a1", "a2", "a3", "a4", "a5", "a6", "a7">>
Saved == <<"s2", "s3", "s4", "s5", "s6", "s7", "s8", "s9", "s10", "s11">>
Temps == <<"t3", "t4", "t5", "t6">>
\* Mutant: the saved registers kept together.
pushregsSavedFirst == Base \o Saved \o Args \o Temps
pushregs == Base \o Args \o Saved \o Temps

\* "0x%08x" takes an unsigned int from the argument.
Low(v) == v % HALF

print_regs(gpr) ==
  {<<pushregs[i], Low(mem[gpr + i - 1])>> : i \in 1 .. Len(pushregs)}
print_trapframe(tf) ==
  <<"trapframe", tf,
    print_regs(tf) \cup {<<"status", Low(TfStatus(tf))>>, <<"epc", Low(TfEpc(tf))>>,
                         <<"badvaddr", Low(TfBadvaddr(tf))>>, <<"cause", Low(TfCause(tf))>>}>>

trap_in_kernel(tf) == HasBit(TfStatus(tf), SSTATUS_SPP)

trap_dispatch ==
  /\ at = "c" /\ pc = TRAP
  /\ pc' = IF TfCause(x[a0]) >= SIGN THEN INTERRUPT_HANDLER ELSE EXCEPTION_HANDLER
  /\ UNCHANGED <<x, mem, sstatus, csrs, at, out, ctx>>

\* trap() returns; sp and the registers a function must keep are as before.
Returns ==
  /\ x' = [r \in X |-> IF r \in CallerSaved THEN Junk ELSE x[r]]
  /\ at' = "load_csrs"
  /\ UNCHANGED <<mem, sstatus, csrs, pc, ctx>>

IRQ_S_TIMER == 5
IRQ_M_EXT   == 11

\* (cause << 1) >> 1 removes the sign. The timer is silent; eleven others have a
\* line of their own.
interrupt_handler ==
  /\ at = "c" /\ pc = INTERRUPT_HANDLER
  /\ LET cause == TfCause(x[a0]) % SIGN
     IN  out' = IF cause = IRQ_S_TIMER THEN Nothing
                ELSE IF cause <= IRQ_M_EXT THEN <<"line", cause>>
                ELSE print_trapframe(x[a0])
  /\ Returns

CAUSE_MACHINE_ECALL == 11

\* The causes with a case of their own do nothing; page faults have none.
exception_handler ==
  /\ at = "c" /\ pc = EXCEPTION_HANDLER
  /\ out' = IF TfCause(x[a0]) <= CAUSE_MACHINE_ECALL THEN Nothing
            ELSE print_trapframe(x[a0])
  /\ Returns

-----------------------------------------------------------------------------
\* csrw sstatus, with what was saved.
LoadStatus ==
  /\ sie' = HasBit(mem[Slot(32)], SSTATUS_SIE)
  /\ spie' = HasBit(mem[Slot(32)], SSTATUS_SPIE)
  /\ spp' = HasBit(mem[Slot(32)], SSTATUS_SPP)

\* Mutant: sepc is taken to be still what the trap left in it.
LoadStatusOnly ==
  /\ at = "load_csrs"
  /\ LoadStatus
  /\ x' = [x EXCEPT ![s1] = mem[Slot(32)], ![s2] = mem[Slot(33)]]
  /\ at' = "load"
  /\ UNCHANGED <<mem, sepc, scause, sscratch, pc, out, ctx>>

\* LOAD s1, s2 from slots 32, 33; csrw sstatus, s1; csrw sepc, s2
LoadCsrs ==
  /\ at = "load_csrs"
  /\ LoadStatus
  /\ x' = [x EXCEPT ![s1] = mem[Slot(32)], ![s2] = mem[Slot(33)]]
  /\ sepc' = mem[Slot(33)]
  /\ at' = "load"
  /\ UNCHANGED <<mem, scause, sscratch, pc, out, ctx>>

\* LOAD x1, x3 .. x31
LoadRegs ==
  /\ at = "load"
  /\ x' = [r \in X |-> IF r \in {0, sp} THEN x[r] ELSE mem[Slot(r)]]
  /\ at' = "load_sp"
  /\ UNCHANGED <<mem, sstatus, csrs, pc, out, ctx>>

LoadSp ==
  /\ at = "load_sp"
  /\ x' = [x EXCEPT ![sp] = mem[Slot(2)]]
  /\ at' = "sret"
  /\ UNCHANGED <<mem, sstatus, csrs, pc, out, ctx>>

Sret ==
  /\ at = "sret"
  /\ pc' = sepc
  /\ sie' = spie /\ spie' = TRUE /\ spp' = FALSE
  /\ out' = Nothing
  /\ at' = "c"
  /\ ctx' = Front(ctx)
  /\ UNCHANGED <<x, mem, csrs>>

Next ==
  \/ \E c \in Exceptions \cup Interrupts : TakeTrap(c)
  \/ SaveSp \/ StoreRegs \/ ReadCsrs \/ StoreCsrs
  \/ trap_dispatch \/ interrupt_handler \/ exception_handler
  \/ LoadCsrs \/ LoadRegs \/ LoadSp \/ Sret

Spec == Init /\ [][Next]_vars

-----------------------------------------------------------------------------
(***************************************************************************)
(* sret gives back exactly the context of the trap it belongs to: the 31   *)
(* registers with sp, the program counter and the interrupt enable, and    *)
(* stays in supervisor mode (SPP), even when exceptions inside the handler *)
(* have overwritten sepc and sstatus and their sret has cleared SPP.       *)
(***************************************************************************)
ContextRestored ==
  at = "sret" =>
    /\ x = Last(ctx).x
    /\ sepc = Last(ctx).pc
    /\ spie = Last(ctx).sie /\ ~sie /\ spp

(***************************************************************************)
(* trap() gets in tf the context of its own trap, in the layout of struct  *)
(* trapframe (the registers by number, status, epc and cause), dispatches  *)
(* on its own cause, and finds sscratch zero as the entry code promises.   *)
(* A nested trap does not touch the frames outside it.                     *)
(***************************************************************************)
FrameOf(c) == c.x[sp] - FRAME
FrameHolds(c) ==
  /\ \A r \in X : mem[FrameOf(c) + r] = c.x[r]
  /\ TfStatus(FrameOf(c)) = Status(FALSE, c.sie, TRUE)
  /\ TfEpc(FrameOf(c)) = c.pc
  /\ TfCause(FrameOf(c)) = c.cause
  /\ trap_in_kernel(FrameOf(c))
FramesIntact ==
  at = "c" /\ pc \in {TRAP, INTERRUPT_HANDLER, EXCEPTION_HANDLER} =>
    /\ x[sp] = FrameOf(Last(ctx)) /\ sscratch = 0
    /\ \A i \in 1 .. Len(ctx) : FrameHolds(ctx[i])
    /\ pc = INTERRUPT_HANDLER => Last(ctx).cause \in Interrupts
    /\ pc = EXCEPTION_HANDLER => Last(ctx).cause \in Exceptions

(***************************************************************************)
(* What print_trapframe shows is the trap it was called for: under the     *)
(* name of each register the (low word of the) value that register had in  *)
(* the interrupted code, although the names come from struct pushregs and  *)
(* the values from the numbered slots of the entry code, and although      *)
(* traps inside the handler have dumped frames of their own. It is shown   *)
(* for exactly the causes that have no case.                               *)
(***************************************************************************)
DumpShowsContext ==
  at = "load_csrs" =>
    LET c == Last(ctx)
        known == IF c.cause >= SIGN THEN c.cause - SIGN <= IRQ_M_EXT
                                   ELSE c.cause <= CAUSE_MACHINE_ECALL
    IN  /\ known <=> out[1] # "trapframe"
        /\ ~known =>
             /\ out[2] = FrameOf(c)
             /\ \A r \in DOMAIN Abi :
                  {v \in 0 .. HALF - 1 : <<r, v>> \in out[3]} = {Low(c.x[Abi[r]])}
             /\ {<<"epc", Low(c.pc)>>, <<"cause", Low(c.cause)>>} \subseteq out[3]
=============================================================================
