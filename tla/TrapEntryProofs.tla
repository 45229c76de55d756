-------------------------- MODULE TrapEntryProofs --------------------------
(***************************************************************************)
(* Theorems about TrapEntry, for every depth of nesting, stack size, set   *)
(* of causes and set of program counters. The inductive invariant says,    *)
(* for every point of __alltraps and __trapret, where each part of the     *)
(* interrupted context is: still in a register, in a CSR, or in the frame. *)
(***************************************************************************)
EXTENDS TrapEntry, SequenceTheorems, TLAPS

\* The places of C code inside trap().
InHandler == {TRAP, INTERRUPT_HANDLER, EXCEPTION_HANDLER}
Causes    == Exceptions \cup Interrupts
Context   == [x : [X -> Int], pc : Int, sie : BOOLEAN, cause : Causes]
\* sp with d frames on the stack.
SpAt(d)   == StackTop - d * FRAME
\* A handler runs for the causes it is meant for.
Dispatched(l, cause) ==
  /\ l = INTERRUPT_HANDLER => cause \in Interrupts
  /\ l = EXCEPTION_HANDLER => cause \in Exceptions

TypeInv ==
  /\ x \in [X -> Int] /\ x[0] = 0
  /\ mem \in [0 .. StackTop - 1 -> Int]
  /\ sie \in BOOLEAN /\ spie \in BOOLEAN /\ spp \in BOOLEAN
  /\ sepc \in Int /\ scause \in Int /\ sscratch \in Int /\ pc \in Int
  /\ at \in {"c", "save_sp", "store", "read_csrs", "store_csrs", "load_csrs", "load",
             "load_sp", "sret"}
  /\ ctx \in Seq(Context) /\ Len(ctx) <= MaxDepth

\* The sstatus that a trap leaves to the entry code.
SavedStatus(c) == Status(FALSE, c.sie, TRUE)

(***************************************************************************)
(* The d-th piece of code that a trap interrupts, or will interrupt: the   *)
(* first is the kernel's, the others are handlers, with interrupts off, a0 *)
(* on their frame, and d - 1 frames on the stack.                          *)
(***************************************************************************)
Nested(d, regs, l, ie) ==
  /\ regs[sp] = SpAt(d - 1) /\ regs[0] = 0
  /\ d = 1 => l \in Code
  /\ d > 1 => /\ l \in InHandler /\ ~ie
              /\ regs[a0] = regs[sp]
              /\ Dispatched(l, ctx[d - 1].cause)

CtxInv == \A i \in 1 .. Len(ctx) : Nested(i, ctx[i].x, ctx[i].pc, ctx[i].sie)

\* The context of the trap that is being entered or left.
Cur == ctx[Len(ctx)]
Trapped  == /\ ~sie /\ spie = Cur.sie /\ spp /\ sepc = Cur.pc /\ scause = Cur.cause
Lowered  == x = [Cur.x EXCEPT ![sp] = SpAt(Len(ctx))]
RegsSaved == \A r \in X \ {sp} : mem[SpAt(Len(ctx)) + r] = Cur.x[r]

(***************************************************************************)
(* Where the context is at every point of the entry code. While a trap is  *)
(* entered, the CSRs hold what the hart put there, since interrupts are    *)
(* off and the entry code raises no exception; once trap() runs a nested   *)
(* trap may overwrite them, so on the way out everything comes from the    *)
(* frame.                                                                  *)
(***************************************************************************)
PhaseInv ==
  /\ at # "c" => Len(ctx) > 0
  /\ at = "c" => Nested(Len(ctx) + 1, x, pc, sie) /\ sscratch = 0
  /\ at = "save_sp" => Trapped /\ x = Cur.x
  /\ at = "store" => Trapped /\ Lowered /\ sscratch = Cur.x[sp]
  /\ at = "read_csrs" => Trapped /\ Lowered /\ sscratch = Cur.x[sp] /\ RegsSaved
  /\ at = "store_csrs" =>
       /\ ~sie /\ sscratch = 0 /\ x[sp] = SpAt(Len(ctx)) /\ RegsSaved
       /\ x[s0] = Cur.x[sp] /\ x[s1] = SavedStatus(Cur)
       /\ x[s2] = Cur.pc /\ x[s4] = Cur.cause
  /\ at = "load_csrs" => ~sie /\ sscratch = 0 /\ x[sp] = SpAt(Len(ctx))
  /\ at \in {"load", "load_sp", "sret"} =>
       ~sie /\ spie = Cur.sie /\ spp /\ sepc = Cur.pc /\ sscratch = 0
  /\ at = "load" => x[sp] = SpAt(Len(ctx))
  /\ at = "load_sp" => Lowered
  /\ at = "sret" => x = Cur.x

\* The frame at address a holds context c, in the layout of struct trapframe.
FrameAt(m, a, c) ==
  /\ \A r \in X : m[a + r] = c.x[r]
  /\ m[a + 32] = SavedStatus(c)
  /\ m[a + 33] = c.pc
  /\ m[a + 35] = c.cause

FrameDone == {"c", "load_csrs", "load", "load_sp", "sret"}
(***************************************************************************)
(* Every frame on the stack but the one that is being built holds its      *)
(* context. Frames lie below one another, so a nested trap writes below    *)
(* all of them.                                                            *)
(***************************************************************************)
FramesInv ==
  \A i \in 1 .. Len(ctx) :
    i < Len(ctx) \/ at \in FrameDone => FrameAt(mem, SpAt(i), ctx[i])

Inv == TypeInv /\ CtxInv /\ PhaseInv /\ FramesInv

-----------------------------------------------------------------------------
\* csrw sstatus with the saved word gives back SIE, SPIE and SPP.
LEMMA StatusBits ==
  ASSUME NEW c, c.sie \in BOOLEAN
  PROVE  /\ SavedStatus(c) \in Int
         /\ ~HasBit(SavedStatus(c), SSTATUS_SIE)
         /\ HasBit(SavedStatus(c), SSTATUS_SPIE) <=> c.sie
         /\ HasBit(SavedStatus(c), SSTATUS_SPP)
<1>1. CASE c.sie
  <2>1. SavedStatus(c) = 288
    BY <1>1 DEF SavedStatus, Status, Bit, SSTATUS_SPIE, SSTATUS_SPP
  <2>2. ~HasBit(288, SSTATUS_SIE) /\ HasBit(288, SSTATUS_SPIE) /\ HasBit(288, SSTATUS_SPP)
    BY DEF HasBit, SSTATUS_SIE, SSTATUS_SPIE, SSTATUS_SPP
  <2> QED
    BY <1>1, <2>1, <2>2
<1>2. CASE ~c.sie
  <2>1. SavedStatus(c) = 256
    BY <1>2 DEF SavedStatus, Status, Bit, SSTATUS_SPIE, SSTATUS_SPP
  <2>2. ~HasBit(256, SSTATUS_SIE) /\ ~HasBit(256, SSTATUS_SPIE) /\ HasBit(256, SSTATUS_SPP)
    BY DEF HasBit, SSTATUS_SIE, SSTATUS_SPIE, SSTATUS_SPP
  <2> QED
    BY <1>2, <2>1, <2>2
<1> QED
  BY <1>1, <1>2

LEMMA Push ==
  ASSUME NEW s \in Seq(Context), NEW e \in Context
  PROVE  /\ Append(s, e) \in Seq(Context) /\ Len(Append(s, e)) = Len(s) + 1
         /\ \A i \in 1 .. Len(s) : Append(s, e)[i] = s[i]
         /\ Append(s, e)[Len(s) + 1] = e
  BY AppendProperties

LEMMA Pop ==
  ASSUME NEW s \in Seq(Context), Len(s) > 0
  PROVE  /\ Front(s) \in Seq(Context) /\ Len(Front(s)) = Len(s) - 1
         /\ \A i \in 1 .. Len(s) - 1 : Front(s)[i] = s[i]
  BY SubSeqProperties DEF Front

LEMMA CauseInt == Causes \subseteq Int /\ Exceptions \cap Interrupts = {}
<1>1. \A c \in Exceptions : c \in Int /\ c < SIGN
  BY TrapConstants
<1>2. \A c \in Interrupts : c \in Int /\ c >= SIGN
  BY TrapConstants DEF Interrupts
<1>3. SIGN \in Int
  BY TrapConstants
<1> QED
  BY <1>1, <1>2, <1>3 DEF Causes

\* The stack has room for the frames, which lie side by side.
LEMMA SpRange ==
  ASSUME NEW d \in 1 .. MaxDepth
  PROVE  SpAt(d) \in Int /\ SpAt(d) >= 0 /\ SpAt(d) + FRAME = SpAt(d - 1) /\ SpAt(d) + 35 < StackTop
  BY TrapConstants DEF SpAt, FRAME

LEMMA SpBelow ==
  ASSUME NEW d \in 1 .. MaxDepth, NEW i \in 1 .. d - 1
  PROVE  SpAt(i) \in Int /\ SpAt(i) >= SpAt(d) + FRAME /\ SpAt(i) + 35 < StackTop
  BY TrapConstants DEF SpAt, FRAME

LEMMA InvInit == Init => Inv
<1> SUFFICES ASSUME Init PROVE Inv
  OBVIOUS
<1>1. ctx \in Seq(Context) /\ Len(ctx) = 0
  BY DEF Init
<1>2. x \in [X -> Int] /\ x[0] = 0 /\ x[sp] = StackTop
  BY TrapConstants DEF Init, X, sp
<1>3. TypeInv
  <2>1. mem \in [0 .. StackTop - 1 -> Int]
    BY DEF Init
  <2>2. pc \in Int
    BY TrapConstants DEF Init
  <2>3. sie \in BOOLEAN /\ spie \in BOOLEAN /\ spp \in BOOLEAN /\ at = "c"
    BY DEF Init
  <2>4. sepc \in Int /\ scause \in Int /\ sscratch \in Int /\ Len(ctx) <= MaxDepth
    BY <1>1, TrapConstants DEF Init
  <2> QED
    BY <1>1, <1>2, <2>1, <2>2, <2>3, <2>4 DEF TypeInv
<1>4. SpAt(0) = StackTop
  BY TrapConstants DEF SpAt, FRAME
<1> QED
  BY <1>1, <1>2, <1>3, <1>4 DEF Init, Inv, CtxInv, PhaseInv, FramesInv, Nested

-----------------------------------------------------------------------------
\* What the invariant says of the current context.
LEMMA CurFacts ==
  ASSUME Inv, Len(ctx) > 0
  PROVE  /\ Len(ctx) \in 1 .. MaxDepth /\ Len(ctx) \in 1 .. Len(ctx)
         /\ Cur \in Context /\ Cur.x \in [X -> Int] /\ Cur.pc \in Int
         /\ Cur.sie \in BOOLEAN /\ Cur.cause \in Causes
         /\ Cur.x[sp] = SpAt(Len(ctx) - 1) /\ Cur.x[0] = 0
<1>1. Len(ctx) \in Nat /\ MaxDepth \in Nat
  BY TrapConstants DEF Inv, TypeInv
<1>2. Len(ctx) \in 1 .. MaxDepth /\ Len(ctx) \in 1 .. Len(ctx)
  BY <1>1 DEF Inv, TypeInv
<1>3. Cur \in Context
  BY <1>2 DEF Inv, TypeInv, Cur
<1>4. Cur.x[sp] = SpAt(Len(ctx) - 1) /\ Cur.x[0] = 0
  BY <1>2 DEF Inv, CtxInv, Nested, Cur
<1> QED
  BY <1>2, <1>3, <1>4 DEF Context

LEMMA SameCtx ==
  ASSUME CtxInv, UNCHANGED ctx
  PROVE  CtxInv' /\ Cur' = Cur
  BY DEF CtxInv, Nested, Dispatched, Cur, SpAt

LEMMA SameFrames ==
  ASSUME FramesInv, UNCHANGED <<ctx, mem>>, at' \in FrameDone => at \in FrameDone
  PROVE  FramesInv'
  BY DEF FramesInv, FrameAt, SavedStatus

\* A frame none of whose slots changes is kept.
LEMMA FrameKept ==
  ASSUME NEW m, NEW l, NEW a, NEW c, FrameAt(m, a, c), \A k \in 0 .. 35 : l[a + k] = m[a + k]
  PROVE  FrameAt(l, a, c)
<1>1. \A r \in X : r \in 0 .. 35
  BY DEF X
<1> QED
  BY <1>1 DEF FrameAt

\* One lemma for each step: it preserves the invariant.
LEMMA StepTakeTrap ==
  ASSUME Inv, NEW c \in Causes, TakeTrap(c)
  PROVE  Inv'
<1> DEFINE e == [x |-> x, pc |-> pc, sie |-> sie, cause |-> c]
<1>1. /\ at = "c" /\ at' = "save_sp" /\ ctx' = Append(ctx, e) /\ Len(ctx) < MaxDepth
      /\ spie' = sie /\ sie' = FALSE /\ spp' = TRUE /\ sepc' = pc /\ scause' = c
      /\ UNCHANGED <<x, mem, sscratch, pc>>
  BY DEF TakeTrap
<1>2. ctx \in Seq(Context) /\ e \in Context /\ Len(ctx) \in Nat /\ MaxDepth \in Nat
  BY TrapConstants DEF Inv, TypeInv, Context
<1>3. /\ ctx' \in Seq(Context) /\ Len(ctx') = Len(ctx) + 1
      /\ \A i \in 1 .. Len(ctx) : ctx'[i] = ctx[i]
      /\ ctx'[Len(ctx) + 1] = e
  BY <1>1, <1>2, Push
<1> HIDE DEF e
<1>4. e.x = x /\ e.pc = pc /\ e.sie = sie /\ e.cause = c
  BY DEF e
<1>5. Cur' = e
  BY <1>3 DEF Cur
<1>6. c \in Int
  BY CauseInt
<1>7. TypeInv'
  <2>1. sie' \in BOOLEAN /\ spie' \in BOOLEAN /\ spp' \in BOOLEAN
    BY <1>1 DEF Inv, TypeInv
  <2>2. x' \in [X -> Int] /\ x'[0] = 0 /\ mem' \in [0 .. StackTop - 1 -> Int]
    BY <1>1 DEF Inv, TypeInv
  <2>3. sepc' \in Int /\ scause' \in Int /\ sscratch' \in Int /\ pc' \in Int
    BY <1>1, <1>6 DEF Inv, TypeInv
  <2>4. Len(ctx') <= MaxDepth
    BY <1>1, <1>2, <1>3
  <2> QED
    BY <1>1, <1>3, <2>1, <2>2, <2>3, <2>4 DEF TypeInv
<1>8. CtxInv'
  <2> SUFFICES ASSUME NEW i \in 1 .. Len(ctx) + 1
               PROVE  Nested(i, ctx[i].x, ctx[i].pc, ctx[i].sie)'
    BY <1>2, <1>3 DEF CtxInv
  <2>1. CASE i \in 1 .. Len(ctx)
    BY <1>2, <1>3, <2>1 DEF Inv, CtxInv, Nested, Dispatched, SpAt
  <2>2. CASE i = Len(ctx) + 1
    BY <1>1, <1>2, <1>3, <1>4, <2>2 DEF Inv, PhaseInv, Nested, Dispatched, SpAt
  <2> QED
    BY <1>2, <2>1, <2>2
<1>9. PhaseInv'
  BY <1>1, <1>2, <1>3, <1>4, <1>5 DEF PhaseInv, Trapped
<1>10. FramesInv'
  <2>1. \A i \in 1 .. Len(ctx) : FrameAt(mem, SpAt(i), ctx[i])
    BY <1>1 DEF Inv, FramesInv, FrameDone
  <2>2. \A i \in 1 .. Len(ctx) : FrameAt(mem', SpAt(i), ctx'[i])
    BY <1>1, <1>3, <2>1
  <2>3. \A i \in 1 .. Len(ctx') : i < Len(ctx') => i \in 1 .. Len(ctx)
    BY <1>2, <1>3
  <2> QED
    BY <1>1, <2>2, <2>3 DEF FramesInv, FrameDone
<1> QED
  BY <1>7, <1>8, <1>9, <1>10 DEF Inv

LEMMA StepSaveSp ==
  ASSUME Inv, SaveSp
  PROVE  Inv'
<1>1. /\ at = "save_sp" /\ at' = "store" /\ sscratch' = x[sp] /\ x' = [x EXCEPT ![sp] = @ - FRAME]
      /\ UNCHANGED <<mem, sstatus, sepc, scause, pc, ctx>>
  BY DEF SaveSp
<1>2. Len(ctx) > 0 /\ Trapped /\ x = Cur.x
  BY <1>1 DEF Inv, PhaseInv
<1>3. x[sp] \in Int /\ x[sp] - FRAME = SpAt(Len(ctx)) /\ SpAt(Len(ctx)) \in Int
  BY <1>2, CurFacts, SpRange DEF FRAME, SpAt
<1>4. x' = [Cur.x EXCEPT ![sp] = SpAt(Len(ctx))] /\ x' \in [X -> Int] /\ x'[0] = 0
  <2>1. Cur.x \in [X -> Int] /\ Cur.x[0] = 0 /\ sp \in X /\ sp # 0 /\ 0 \in X
    BY <1>2, CurFacts DEF X, sp
  <2> QED
    BY <1>1, <1>2, <1>3, <2>1
<1>5. TypeInv'
  BY <1>1, <1>3, <1>4 DEF Inv, TypeInv, sstatus
<1>6. CtxInv' /\ Cur' = Cur /\ FramesInv'
  BY <1>1, SameCtx, SameFrames DEF Inv, FrameDone
<1>7. PhaseInv'
  BY <1>1, <1>2, <1>4, <1>6 DEF PhaseInv, Trapped, Lowered, sstatus, SpAt
<1> QED
  BY <1>5, <1>6, <1>7 DEF Inv

LEMMA InFrame ==
  ASSUME NEW b \in Int, b >= 0, b + 35 < StackTop, NEW k \in 0 .. 35
  PROVE  b + k \in 0 .. StackTop - 1 /\ (b + k) - b = k
<1>1. StackTop \in Int
  BY TrapConstants
<1> QED
  BY <1>1

\* Stores in a frame miss the frames above it.
LEMMA AboveFrame ==
  ASSUME NEW b \in Int, b >= 0, NEW c \in Int, c >= b + 36, c + 35 < StackTop, NEW k \in 0 .. 35
  PROVE  /\ c + k \in 0 .. StackTop - 1 /\ (c + k) - b \notin X
         /\ c + k \notin {b + 2, b + 32, b + 33, b + 34, b + 35}
<1>1. StackTop \in Int
  BY TrapConstants
<1> QED
  BY <1>1 DEF X

LEMMA StepStoreRegs ==
  ASSUME Inv, StoreRegs
  PROVE  Inv'
<1> DEFINE b == SpAt(Len(ctx))
<1>1. /\ at = "store" /\ at' = "read_csrs" /\ UNCHANGED <<x, sstatus, csrs, pc, ctx>>
      /\ mem' = [a \in DOMAIN mem |->
                   IF a - x[sp] \in X \ {sp} THEN x[a - x[sp]] ELSE mem[a]]
  BY DEF StoreRegs
<1>2. Len(ctx) > 0 /\ Trapped /\ Lowered /\ sscratch = Cur.x[sp]
  BY <1>1 DEF Inv, PhaseInv
<1>3. /\ sp \in X /\ Cur.x \in [X -> Int] /\ x[sp] = b
      /\ \A r \in X \ {sp} : x[r] = Cur.x[r]
  <2>1. Cur.x \in [X -> Int] /\ sp \in X
    BY <1>2, CurFacts DEF X, sp
  <2> QED
    BY <1>2, <2>1 DEF Lowered
<1>4. b \in Int /\ b >= 0 /\ b + 35 < StackTop
  BY <1>2, CurFacts, SpRange
<1>5. mem \in [0 .. StackTop - 1 -> Int] /\ x \in [X -> Int] /\ StackTop \in Nat
  BY TrapConstants DEF Inv, TypeInv
<1>6. /\ mem' \in [0 .. StackTop - 1 -> Int]
      /\ \A a \in 0 .. StackTop - 1 :
           mem'[a] = IF a - b \in X \ {sp} THEN x[a - b] ELSE mem[a]
  BY <1>1, <1>3, <1>5
<1> HIDE DEF b
<1>7. \A r \in X \ {sp} : mem'[b + r] = Cur.x[r]
  <2> SUFFICES ASSUME NEW r \in X \ {sp} PROVE mem'[b + r] = Cur.x[r]
    OBVIOUS
  <2>1. b + r \in 0 .. StackTop - 1 /\ (b + r) - b = r
    <3>1. r \in 0 .. 35
      BY DEF X
    <3> QED
      BY <1>4, <3>1, InFrame
  <2> QED
    BY <1>3, <1>6, <2>1
<1>8. TypeInv'
  <2>1. sie' \in BOOLEAN /\ spie' \in BOOLEAN /\ spp' \in BOOLEAN
    BY <1>1 DEF Inv, TypeInv, sstatus
  <2> QED
    BY <1>1, <1>6, <2>1 DEF Inv, TypeInv, csrs
<1>9. CtxInv' /\ Cur' = Cur
  BY <1>1, SameCtx DEF Inv
<1>10. PhaseInv'
  <2>1. RegsSaved'
    BY <1>1, <1>7, <1>9 DEF RegsSaved, b, SpAt
  <2> QED
    BY <1>1, <1>2, <1>9, <2>1 DEF PhaseInv, Trapped, Lowered, sstatus, csrs, SpAt
<1>11. FramesInv'
  <2> SUFFICES ASSUME NEW i \in 1 .. Len(ctx), i < Len(ctx) PROVE FrameAt(mem', SpAt(i), ctx[i])
    BY <1>1 DEF FramesInv, FrameDone
  <2>1. FrameAt(mem, SpAt(i), ctx[i])
    BY DEF Inv, FramesInv
  <2>2. SpAt(i) \in Int /\ SpAt(i) >= b + 36 /\ SpAt(i) + 35 < StackTop
    BY <1>2, CurFacts, SpBelow DEF FRAME, b
  <2>3. ASSUME NEW k \in 0 .. 35 PROVE mem'[SpAt(i) + k] = mem[SpAt(i) + k]
    <3>1. SpAt(i) + k \in 0 .. StackTop - 1 /\ (SpAt(i) + k) - b \notin X
      BY <1>4, <2>2, AboveFrame
    <3> QED
      BY <1>6, <3>1
  <2> QED
    BY <2>1, <2>3, FrameKept
<1> QED
  BY <1>8, <1>9, <1>10, <1>11 DEF Inv

LEMMA StepReadCsrs ==
  ASSUME Inv, ReadCsrs
  PROVE  Inv'
<1>1. /\ at = "read_csrs" /\ at' = "store_csrs" /\ sscratch' = 0
      /\ x' = [x EXCEPT ![s0] = sscratch, ![s1] = Status(sie, spie, spp), ![s2] = sepc,
                        ![s3] = Junk, ![s4] = scause]
      /\ UNCHANGED <<mem, sstatus, sepc, scause, pc, ctx>>
  BY DEF ReadCsrs
<1>2. Len(ctx) > 0 /\ Trapped /\ Lowered /\ sscratch = Cur.x[sp] /\ RegsSaved
  BY <1>1 DEF Inv, PhaseInv
<1>3. Status(sie, spie, spp) = SavedStatus(Cur) /\ SavedStatus(Cur) \in Int
  <2>1. SavedStatus(Cur) \in Int
    BY <1>2, CurFacts, StatusBits
  <2> QED
    BY <1>2, <2>1 DEF Trapped, SavedStatus, Status, Bit
<1>4. /\ x'[sp] = SpAt(Len(ctx)) /\ x'[0] = 0 /\ x'[s0] = Cur.x[sp]
      /\ x'[s1] = SavedStatus(Cur) /\ x'[s2] = Cur.pc /\ x'[s4] = Cur.cause
      /\ x' \in [X -> Int]
  <2>1. Cur.x \in [X -> Int] /\ sp \in X
    BY <1>2, CurFacts DEF X, sp
  <2>2. x[sp] = SpAt(Len(ctx))
    BY <1>2, <2>1 DEF Lowered
  <2>3. x \in [X -> Int] /\ x[0] = 0 /\ sscratch \in Int /\ sepc \in Int /\ scause \in Int
    BY DEF Inv, TypeInv
  <2>4. sepc = Cur.pc /\ scause = Cur.cause
    BY <1>2 DEF Trapped
  <2>5. x' = [x EXCEPT ![s0] = sscratch, ![s1] = SavedStatus(Cur), ![s2] = sepc,
                       ![s3] = Junk, ![s4] = scause]
    BY <1>1, <1>3
  <2>6. /\ x' \in [X -> Int] /\ x'[0] = x[0] /\ x'[sp] = x[sp] /\ x'[s0] = sscratch
        /\ x'[s1] = SavedStatus(Cur) /\ x'[s2] = sepc /\ x'[s4] = scause
    BY <1>3, <2>3, <2>5 DEF X, sp, s0, s1, s2, s3, s4, Junk
  <2> QED
    BY <1>2, <2>2, <2>3, <2>4, <2>6
<1>5. TypeInv'
  <2>1. sie' \in BOOLEAN /\ spie' \in BOOLEAN /\ spp' \in BOOLEAN
    BY <1>1 DEF Inv, TypeInv, sstatus
  <2>2. /\ sepc' \in Int /\ scause' \in Int /\ sscratch' \in Int /\ pc' \in Int
        /\ mem' \in [0 .. StackTop - 1 -> Int] /\ ctx' \in Seq(Context) /\ Len(ctx') <= MaxDepth
    BY <1>1 DEF Inv, TypeInv
  <2> QED
    BY <1>1, <1>4, <2>1, <2>2 DEF TypeInv
<1>6. CtxInv' /\ Cur' = Cur /\ FramesInv'
  BY <1>1, SameCtx, SameFrames DEF Inv, FrameDone
<1>7. PhaseInv'
  BY <1>1, <1>2, <1>4, <1>6 DEF PhaseInv, Trapped, RegsSaved, sstatus, SpAt
<1> QED
  BY <1>5, <1>6, <1>7 DEF Inv

LEMMA StepStoreCsrs ==
  ASSUME Inv, StoreCsrs
  PROVE  Inv'
<1> DEFINE b == SpAt(Len(ctx))
<1>1. /\ at = "store_csrs" /\ at' = "c" /\ pc' = TRAP
      /\ mem' = [mem EXCEPT ![Slot(2)] = x[s0], ![Slot(32)] = x[s1],
                            ![Slot(33)] = x[s2], ![Slot(34)] = x[s3], ![Slot(35)] = x[s4]]
      /\ x' = [x EXCEPT ![a0] = x[sp]]
      /\ UNCHANGED <<sstatus, csrs, ctx>>
  BY DEF StoreCsrs
<1>2. /\ Len(ctx) > 0 /\ ~sie /\ sscratch = 0 /\ x[sp] = b /\ RegsSaved
      /\ x[s0] = Cur.x[sp] /\ x[s1] = SavedStatus(Cur)
      /\ x[s2] = Cur.pc /\ x[s4] = Cur.cause
  BY <1>1 DEF Inv, PhaseInv
<1>3. b \in Int /\ b >= 0 /\ b + 35 < StackTop
  BY <1>2, CurFacts, SpRange
<1>4. mem \in [0 .. StackTop - 1 -> Int] /\ x \in [X -> Int] /\ StackTop \in Nat /\ x[0] = 0
  BY TrapConstants DEF Inv, TypeInv
<1>5. x[s0] \in Int /\ x[s1] \in Int /\ x[s2] \in Int /\ x[s3] \in Int /\ x[s4] \in Int
  BY <1>4 DEF X, s0, s1, s2, s3, s4
<1>6. \A r \in X \ {sp} : mem[b + r] = Cur.x[r]
  BY <1>2 DEF RegsSaved
<1> HIDE DEF b
<1>7. mem' = [mem EXCEPT ![b + 2] = x[s0], ![b + 32] = x[s1],
                         ![b + 33] = x[s2], ![b + 34] = x[s3], ![b + 35] = x[s4]]
  BY <1>1, <1>2 DEF Slot
<1>8. mem' \in [0 .. StackTop - 1 -> Int]
  BY <1>4, <1>5, <1>7
<1>9. /\ mem'[b + 2] = x[s0] /\ mem'[b + 32] = x[s1] /\ mem'[b + 33] = x[s2]
      /\ mem'[b + 35] = x[s4]
      /\ \A a \in 0 .. StackTop - 1 :
           a \notin {b + 2, b + 32, b + 33, b + 34, b + 35} => mem'[a] = mem[a]
  <2>1. /\ b + 2 \in 0 .. StackTop - 1 /\ b + 32 \in 0 .. StackTop - 1
        /\ b + 33 \in 0 .. StackTop - 1 /\ b + 34 \in 0 .. StackTop - 1
        /\ b + 35 \in 0 .. StackTop - 1
    BY <1>3, <1>4
  <2> QED
    BY <1>3, <1>4, <1>7, <2>1
<1>10. x' \in [X -> Int] /\ x'[0] = 0 /\ x'[sp] = b /\ x'[a0] = b
  <2>1. a0 \in X /\ sp \in X /\ 0 \in X /\ a0 # 0 /\ a0 # sp
    BY DEF X, a0, sp
  <2> QED
    BY <1>1, <1>2, <1>3, <1>4, <2>1
<1>11. FrameAt(mem', b, Cur)
  <2>1. ASSUME NEW r \in X PROVE mem'[b + r] = Cur.x[r]
    <3>1. CASE r = sp
      BY <1>2, <1>9, <3>1 DEF sp
    <3>2. CASE r # sp
      <4>1. b + r \in 0 .. StackTop - 1 /\ b + r \notin {b + 2, b + 32, b + 33, b + 34, b + 35}
        <5>1. r \in 0 .. 35 /\ r \notin {2, 32, 33, 34, 35}
          BY <3>2 DEF X, sp
        <5>2. b + r \in 0 .. StackTop - 1
          BY <1>3, <5>1, InFrame
        <5>3. b + r \notin {b + 2, b + 32, b + 33, b + 34, b + 35}
          BY <1>3, <5>1
        <5> QED
          BY <5>2, <5>3
      <4> QED
        BY <1>6, <1>9, <3>2, <4>1
    <3> QED
      BY <3>1, <3>2
  <2> QED
    BY <1>2, <1>9, <2>1 DEF FrameAt
<1>12. TypeInv'
  <2>1. sie' \in BOOLEAN /\ spie' \in BOOLEAN /\ spp' \in BOOLEAN
    BY <1>1 DEF Inv, TypeInv, sstatus
  <2>2. pc' \in Int
    BY <1>1 DEF TRAP
  <2> QED
    BY <1>1, <1>8, <1>10, <2>1, <2>2 DEF Inv, TypeInv, csrs
<1>13. CtxInv' /\ Cur' = Cur
  BY <1>1, SameCtx DEF Inv
<1>14. PhaseInv'
  <2>1. Len(ctx) \in Nat /\ Len(ctx) + 1 - 1 = Len(ctx) /\ Len(ctx) + 1 > 1 /\ Len(ctx) + 1 # 1
    BY <1>2, CurFacts
  <2>2. TRAP \in InHandler /\ TRAP # INTERRUPT_HANDLER /\ TRAP # EXCEPTION_HANDLER
    BY DEF InHandler, TRAP, INTERRUPT_HANDLER, EXCEPTION_HANDLER
  <2>3. SpAt(Len(ctx) + 1 - 1)' = b
    BY <1>1, <2>1 DEF SpAt, b
  <2>4. Nested(Len(ctx) + 1, x, pc, sie)'
    BY <1>1, <1>2, <1>10, <2>1, <2>2, <2>3 DEF Nested, Dispatched, sstatus
  <2> QED
    BY <1>1, <1>2, <2>4 DEF PhaseInv, csrs
<1>15. FramesInv'
  <2> SUFFICES ASSUME NEW i \in 1 .. Len(ctx) PROVE FrameAt(mem', SpAt(i), ctx[i])
    BY <1>1 DEF FramesInv
  <2>1. CASE i < Len(ctx)
    <3>1. FrameAt(mem, SpAt(i), ctx[i])
      BY <2>1 DEF Inv, FramesInv
    <3>2. SpAt(i) \in Int /\ SpAt(i) >= b + 36 /\ SpAt(i) + 35 < StackTop
      BY <1>2, <2>1, CurFacts, SpBelow DEF FRAME, b
    <3>3. ASSUME NEW k \in 0 .. 35 PROVE mem'[SpAt(i) + k] = mem[SpAt(i) + k]
      <4>1. /\ SpAt(i) + k \in 0 .. StackTop - 1
            /\ SpAt(i) + k \notin {b + 2, b + 32, b + 33, b + 34, b + 35}
        BY <1>3, <3>2, AboveFrame
      <4> QED
        BY <1>9, <4>1
    <3> QED
      BY <3>1, <3>3, FrameKept
  <2>2. CASE i = Len(ctx)
    BY <1>11, <2>2 DEF Cur, b
  <2> QED
    BY <1>2, <2>1, <2>2, CurFacts
<1> QED
  BY <1>12, <1>13, <1>14, <1>15 DEF Inv

-----------------------------------------------------------------------------
\* What trap() finds: its own frame, under a0 and sp.
LEMMA Inside ==
  ASSUME Inv, at = "c", pc \in InHandler
  PROVE  /\ Len(ctx) > 0 /\ x[sp] = SpAt(Len(ctx)) /\ x[a0] = x[sp] /\ ~sie /\ sscratch = 0
         /\ Dispatched(pc, Cur.cause) /\ FrameAt(mem, SpAt(Len(ctx)), Cur)
<1>1. Len(ctx) \in Nat /\ Nested(Len(ctx) + 1, x, pc, sie) /\ sscratch = 0
  BY DEF Inv, TypeInv, PhaseInv
<1>2. pc \notin Code
  <2>1. pc >= 500
    BY DEF InHandler, TRAP, INTERRUPT_HANDLER, EXCEPTION_HANDLER
  <2>2. \A c \in Code : c \in Int /\ c <= 499
    BY TrapConstants
  <2> QED
    BY <2>1, <2>2
<1>3. Len(ctx) # 0
  BY <1>1, <1>2 DEF Nested
<1>4. /\ Len(ctx) > 0 /\ Len(ctx) + 1 - 1 = Len(ctx) /\ Len(ctx) + 1 > 1
      /\ Len(ctx) \in 1 .. Len(ctx)
  BY <1>1, <1>3
<1>5. FrameAt(mem, SpAt(Len(ctx)), Cur)
  BY <1>4 DEF Inv, FramesInv, FrameDone, Cur
<1> QED
  BY <1>1, <1>4, <1>5 DEF Nested, Cur

LEMMA StepDispatch ==
  ASSUME Inv, trap_dispatch
  PROVE  Inv'
<1>1. /\ at = "c" /\ pc = TRAP /\ UNCHANGED <<x, mem, sstatus, csrs, at, ctx>>
      /\ pc' = IF TfCause(x[a0]) >= SIGN THEN INTERRUPT_HANDLER ELSE EXCEPTION_HANDLER
  BY DEF trap_dispatch
<1>2. /\ Len(ctx) > 0 /\ x[sp] = SpAt(Len(ctx)) /\ x[a0] = x[sp] /\ ~sie /\ sscratch = 0
      /\ FrameAt(mem, SpAt(Len(ctx)), Cur)
  BY <1>1, Inside DEF InHandler
<1>3. pc' = IF Cur.cause >= SIGN THEN INTERRUPT_HANDLER ELSE EXCEPTION_HANDLER
  BY <1>1, <1>2 DEF TfCause, FrameAt
<1>4. Dispatched(pc', Cur.cause)
  <2>1. Cur.cause \in Exceptions \cup Interrupts
    BY <1>2, CurFacts DEF Causes
  <2>2. \A c \in Exceptions : ~(c >= SIGN)
    BY TrapConstants
  <2>3. \A c \in Interrupts : c >= SIGN
    BY TrapConstants DEF Interrupts
  <2>4. INTERRUPT_HANDLER # EXCEPTION_HANDLER
    BY DEF INTERRUPT_HANDLER, EXCEPTION_HANDLER
  <2> QED
    BY <1>3, <2>1, <2>2, <2>3, <2>4 DEF Dispatched
<1>5. pc' \in InHandler /\ pc' \in Int
  BY <1>3 DEF InHandler, INTERRUPT_HANDLER, EXCEPTION_HANDLER
<1>6. TypeInv'
  <2>1. sie' \in BOOLEAN /\ spie' \in BOOLEAN /\ spp' \in BOOLEAN
    BY <1>1 DEF Inv, TypeInv, sstatus
  <2>2. /\ sepc' \in Int /\ scause' \in Int /\ sscratch' \in Int
        /\ mem' \in [0 .. StackTop - 1 -> Int] /\ ctx' \in Seq(Context) /\ Len(ctx') <= MaxDepth
    BY <1>1 DEF Inv, TypeInv, csrs
  <2> QED
    BY <1>1, <1>5, <2>1, <2>2 DEF Inv, TypeInv
<1>7. CtxInv' /\ Cur' = Cur /\ FramesInv'
  BY <1>1, SameCtx, SameFrames DEF Inv
<1>8. PhaseInv'
  <2>1. Len(ctx) \in Nat /\ Len(ctx) + 1 - 1 = Len(ctx) /\ Len(ctx) + 1 > 1 /\ Len(ctx) + 1 # 1
    BY <1>2, CurFacts
  <2>2. x[0] = 0
    BY DEF Inv, TypeInv
  <2>3. Dispatched(pc', ctx'[Len(ctx') + 1 - 1].cause) /\ SpAt(Len(ctx') + 1 - 1) = SpAt(Len(ctx))
    BY <1>1, <1>4, <2>1 DEF Cur
  <2>4. Nested(Len(ctx) + 1, x, pc, sie)'
    BY <1>1, <1>2, <1>5, <2>1, <2>2, <2>3 DEF Nested, sstatus
  <2> QED
    BY <1>1, <1>2, <2>4 DEF PhaseInv, csrs
<1> QED
  BY <1>6, <1>7, <1>8 DEF Inv

LEMMA StepReturns ==
  ASSUME Inv, at = "c", pc \in InHandler, Returns
  PROVE  Inv'
<1>1. /\ x' = [r \in X |-> IF r \in CallerSaved THEN Junk ELSE x[r]] /\ at' = "load_csrs"
      /\ UNCHANGED <<mem, sstatus, csrs, pc, ctx>>
  BY DEF Returns
<1>2. Len(ctx) > 0 /\ x[sp] = SpAt(Len(ctx)) /\ ~sie /\ sscratch = 0
  BY Inside
<1>3. x' \in [X -> Int] /\ x'[0] = 0 /\ x'[sp] = x[sp]
  <2>1. x \in [X -> Int] /\ x[0] = 0
    BY DEF Inv, TypeInv
  <2>2. 0 \in X /\ sp \in X /\ 0 \notin CallerSaved /\ sp \notin CallerSaved
    BY DEF X, sp, CallerSaved
  <2>3. Junk \in Int
    BY DEF Junk
  <2> QED
    BY <1>1, <2>1, <2>2, <2>3
<1>4. TypeInv'
  <2>1. sie' \in BOOLEAN /\ spie' \in BOOLEAN /\ spp' \in BOOLEAN
    BY <1>1 DEF Inv, TypeInv, sstatus
  <2>2. /\ sepc' \in Int /\ scause' \in Int /\ sscratch' \in Int /\ pc' \in Int
        /\ mem' \in [0 .. StackTop - 1 -> Int] /\ ctx' \in Seq(Context) /\ Len(ctx') <= MaxDepth
    BY <1>1 DEF Inv, TypeInv, csrs
  <2> QED
    BY <1>1, <1>3, <2>1, <2>2 DEF TypeInv
<1>5. CtxInv' /\ Cur' = Cur /\ FramesInv'
  BY <1>1, SameCtx, SameFrames DEF Inv, FrameDone
<1>6. PhaseInv'
  BY <1>1, <1>2, <1>3 DEF PhaseInv, csrs, sstatus, SpAt
<1> QED
  BY <1>4, <1>5, <1>6 DEF Inv

LEMMA StepLoadCsrs ==
  ASSUME Inv, LoadCsrs
  PROVE  Inv'
<1> DEFINE b == SpAt(Len(ctx))
<1>1. /\ at = "load_csrs" /\ at' = "load" /\ LoadStatus
      /\ x' = [x EXCEPT ![s1] = mem[Slot(32)], ![s2] = mem[Slot(33)]]
      /\ sepc' = mem[Slot(33)] /\ UNCHANGED <<mem, scause, sscratch, pc, ctx>>
  BY DEF LoadCsrs
<1>2. Len(ctx) > 0 /\ ~sie /\ sscratch = 0 /\ x[sp] = b
  BY <1>1 DEF Inv, PhaseInv
<1>3. mem[Slot(32)] = SavedStatus(Cur) /\ mem[Slot(33)] = Cur.pc
  <2>1. FrameAt(mem, b, Cur)
    BY <1>1, <1>2, CurFacts DEF Inv, FramesInv, FrameDone, Cur
  <2> QED
    BY <1>2, <2>1 DEF Slot, FrameAt
<1>4. Cur.sie \in BOOLEAN /\ Cur.pc \in Int
  BY <1>2, CurFacts
<1>5. SavedStatus(Cur) \in Int /\ ~sie' /\ spie' = Cur.sie /\ spp'
  <2>1. /\ SavedStatus(Cur) \in Int /\ ~HasBit(SavedStatus(Cur), SSTATUS_SIE)
        /\ HasBit(SavedStatus(Cur), SSTATUS_SPIE) <=> Cur.sie
        /\ HasBit(SavedStatus(Cur), SSTATUS_SPP)
    BY <1>4, StatusBits
  <2>2. /\ sie' = HasBit(SavedStatus(Cur), SSTATUS_SIE)
        /\ spie' = HasBit(SavedStatus(Cur), SSTATUS_SPIE)
        /\ spp' = HasBit(SavedStatus(Cur), SSTATUS_SPP)
    BY <1>1, <1>3 DEF LoadStatus
  <2>3. HasBit(SavedStatus(Cur), SSTATUS_SPIE) \in BOOLEAN
    BY DEF HasBit
  <2> QED
    BY <1>4, <2>1, <2>2, <2>3
<1>6. sie' \in BOOLEAN /\ spp' \in BOOLEAN
  BY <1>1 DEF LoadStatus, HasBit
<1>7. x' \in [X -> Int] /\ x'[0] = 0 /\ x'[sp] = b
  <2>1. x \in [X -> Int] /\ x[0] = 0
    BY DEF Inv, TypeInv
  <2>2. 0 \in X /\ sp \in X /\ s1 \in X /\ s2 \in X /\ s1 \notin {0, sp} /\ s2 \notin {0, sp}
    BY DEF X, sp, s1, s2
  <2> QED
    BY <1>1, <1>2, <1>3, <1>4, <1>5, <2>1, <2>2
<1>8. TypeInv'
  <2>1. /\ sepc' \in Int /\ scause' \in Int /\ sscratch' \in Int /\ pc' \in Int
        /\ mem' \in [0 .. StackTop - 1 -> Int] /\ ctx' \in Seq(Context) /\ Len(ctx') <= MaxDepth
    BY <1>1, <1>3, <1>4 DEF Inv, TypeInv
  <2>2. spie' \in BOOLEAN
    BY <1>4, <1>5
  <2> QED
    BY <1>1, <1>6, <1>7, <2>1, <2>2 DEF TypeInv
<1>9. CtxInv' /\ Cur' = Cur /\ FramesInv'
  BY <1>1, SameCtx, SameFrames DEF Inv, FrameDone
<1>10. PhaseInv'
  BY <1>1, <1>2, <1>3, <1>5, <1>7, <1>9 DEF PhaseInv, SpAt
<1> QED
  BY <1>8, <1>9, <1>10 DEF Inv

LEMMA StepLoadRegs ==
  ASSUME Inv, LoadRegs
  PROVE  Inv'
<1> DEFINE b == SpAt(Len(ctx))
<1>1. /\ at = "load" /\ at' = "load_sp" /\ UNCHANGED <<mem, sstatus, csrs, pc, ctx>>
      /\ x' = [r \in X |-> IF r \in {0, sp} THEN x[r] ELSE mem[Slot(r)]]
  BY DEF LoadRegs
<1>2. /\ Len(ctx) > 0 /\ ~sie /\ spie = Cur.sie /\ spp /\ sepc = Cur.pc /\ sscratch = 0
      /\ x[sp] = b
  BY <1>1 DEF Inv, PhaseInv
<1>3. \A r \in X : mem[Slot(r)] = Cur.x[r]
  <2>1. FrameAt(mem, b, Cur)
    BY <1>1, <1>2, CurFacts DEF Inv, FramesInv, FrameDone, Cur
  <2> QED
    BY <1>2, <2>1 DEF Slot, FrameAt
<1>4. x[0] = 0 /\ Cur.x \in [X -> Int] /\ Cur.x[0] = 0
  BY <1>2, CurFacts DEF Inv, TypeInv
<1>5. b \in Int
  BY <1>2, CurFacts, SpRange
<1>6. 0 \in X /\ sp \in X /\ sp # 0
  BY DEF X, sp
<1> HIDE DEF b
<1>7. x' = [Cur.x EXCEPT ![sp] = b]
  BY <1>1, <1>2, <1>3, <1>4, <1>6
<1>8. x' \in [X -> Int] /\ x'[0] = 0
  BY <1>4, <1>5, <1>6, <1>7
<1>9. TypeInv'
  <2>1. sie' \in BOOLEAN /\ spie' \in BOOLEAN /\ spp' \in BOOLEAN
    BY <1>1 DEF Inv, TypeInv, sstatus
  <2>2. /\ sepc' \in Int /\ scause' \in Int /\ sscratch' \in Int /\ pc' \in Int
        /\ mem' \in [0 .. StackTop - 1 -> Int] /\ ctx' \in Seq(Context) /\ Len(ctx') <= MaxDepth
    BY <1>1 DEF Inv, TypeInv, csrs
  <2> QED
    BY <1>1, <1>8, <2>1, <2>2 DEF TypeInv
<1>10. CtxInv' /\ Cur' = Cur /\ FramesInv'
  BY <1>1, SameCtx, SameFrames DEF Inv, FrameDone
<1>11. PhaseInv'
  BY <1>1, <1>2, <1>7, <1>10 DEF PhaseInv, Lowered, sstatus, csrs, b, SpAt
<1> QED
  BY <1>9, <1>10, <1>11 DEF Inv

LEMMA StepLoadSp ==
  ASSUME Inv, LoadSp
  PROVE  Inv'
<1> DEFINE b == SpAt(Len(ctx))
<1>1. /\ at = "load_sp" /\ at' = "sret" /\ UNCHANGED <<mem, sstatus, csrs, pc, ctx>>
      /\ x' = [x EXCEPT ![sp] = mem[Slot(2)]]
  BY DEF LoadSp
<1>2. /\ Len(ctx) > 0 /\ ~sie /\ spie = Cur.sie /\ spp /\ sepc = Cur.pc /\ sscratch = 0
      /\ x = [Cur.x EXCEPT ![sp] = b]
  BY <1>1 DEF Inv, PhaseInv, Lowered
<1>3. Cur.x \in [X -> Int] /\ Cur.x[0] = 0 /\ sp \in X
  BY <1>2, CurFacts DEF X, sp
<1>4. mem[Slot(2)] = Cur.x[sp]
  <2>1. FrameAt(mem, b, Cur)
    BY <1>1, <1>2, CurFacts DEF Inv, FramesInv, FrameDone, Cur
  <2>2. x[sp] = b
    BY <1>2, <1>3
  <2>3. mem[b + sp] = Cur.x[sp]
    BY <1>3, <2>1 DEF FrameAt
  <2> QED
    BY <2>2, <2>3 DEF Slot, sp
<1> HIDE DEF b
<1>5. x' = Cur.x
  BY <1>1, <1>2, <1>3, <1>4
<1>6. TypeInv'
  <2>1. sie' \in BOOLEAN /\ spie' \in BOOLEAN /\ spp' \in BOOLEAN
    BY <1>1 DEF Inv, TypeInv, sstatus
  <2>2. /\ sepc' \in Int /\ scause' \in Int /\ sscratch' \in Int /\ pc' \in Int
        /\ mem' \in [0 .. StackTop - 1 -> Int] /\ ctx' \in Seq(Context) /\ Len(ctx') <= MaxDepth
    BY <1>1 DEF Inv, TypeInv, csrs
  <2> QED
    BY <1>1, <1>3, <1>5, <2>1, <2>2 DEF TypeInv
<1>7. CtxInv' /\ Cur' = Cur /\ FramesInv'
  BY <1>1, SameCtx, SameFrames DEF Inv, FrameDone
<1>8. PhaseInv'
  BY <1>1, <1>2, <1>5, <1>7 DEF PhaseInv, sstatus, csrs
<1> QED
  BY <1>6, <1>7, <1>8 DEF Inv

LEMMA StepSret ==
  ASSUME Inv, Sret
  PROVE  Inv'
<1>1. /\ at = "sret" /\ at' = "c" /\ pc' = sepc /\ sie' = spie /\ spie' = TRUE /\ spp' = FALSE
      /\ ctx' = Front(ctx) /\ UNCHANGED <<x, mem, csrs>>
  BY DEF Sret
<1>2. Len(ctx) > 0 /\ spie = Cur.sie /\ sepc = Cur.pc /\ sscratch = 0 /\ x = Cur.x
  BY <1>1 DEF Inv, PhaseInv
<1>3. /\ ctx \in Seq(Context) /\ Len(ctx) \in Nat /\ Len(ctx) <= MaxDepth /\ MaxDepth \in Nat
  BY TrapConstants DEF Inv, TypeInv
<1>4. /\ ctx' \in Seq(Context) /\ Len(ctx') = Len(ctx) - 1
      /\ \A i \in 1 .. Len(ctx) - 1 : ctx'[i] = ctx[i]
  BY <1>1, <1>2, <1>3, Pop
<1>5. TypeInv'
  <2>1. sie' \in BOOLEAN /\ spie' \in BOOLEAN /\ spp' \in BOOLEAN
    BY <1>1 DEF Inv, TypeInv
  <2>2. /\ sepc' \in Int /\ scause' \in Int /\ sscratch' \in Int /\ pc' \in Int
        /\ mem' \in [0 .. StackTop - 1 -> Int] /\ x' \in [X -> Int] /\ x'[0] = 0
    BY <1>1 DEF Inv, TypeInv, csrs
  <2>3. Len(ctx') <= MaxDepth
    BY <1>2, <1>3, <1>4
  <2> QED
    BY <1>1, <1>4, <2>1, <2>2, <2>3 DEF TypeInv
<1>6. CtxInv'
  <2> SUFFICES ASSUME NEW i \in 1 .. Len(ctx) - 1
               PROVE  Nested(i, ctx[i].x, ctx[i].pc, ctx[i].sie)'
    BY <1>4 DEF CtxInv
  <2>1. Nested(i, ctx[i].x, ctx[i].pc, ctx[i].sie) /\ ctx'[i] = ctx[i]
    BY <1>3, <1>4 DEF Inv, CtxInv
  <2>2. i > 1 => i - 1 \in 1 .. Len(ctx) - 1
    BY <1>3
  <2> QED
    BY <1>4, <2>1, <2>2 DEF Nested, Dispatched, SpAt
<1>7. PhaseInv'
  <2>1. Nested(Len(ctx), Cur.x, Cur.pc, Cur.sie)
    BY <1>2, CurFacts DEF Inv, CtxInv, Cur
  <2>2. Len(ctx') + 1 = Len(ctx) /\ (Len(ctx) > 1 => Len(ctx) - 1 \in 1 .. Len(ctx) - 1)
    BY <1>2, <1>3, <1>4
  <2>3. Nested(Len(ctx) + 1, x, pc, sie)'
    BY <1>1, <1>2, <1>4, <2>1, <2>2 DEF Nested, Dispatched, SpAt
  <2> QED
    BY <1>1, <1>2, <2>3 DEF PhaseInv, csrs
<1>8. FramesInv'
  <2> SUFFICES ASSUME NEW i \in 1 .. Len(ctx) - 1 PROVE FrameAt(mem', SpAt(i), ctx'[i])
    BY <1>4 DEF FramesInv
  <2>1. i \in 1 .. Len(ctx) /\ i < Len(ctx)
    BY <1>3
  <2> QED
    BY <1>1, <1>4, <2>1 DEF Inv, FramesInv
<1> QED
  BY <1>5, <1>6, <1>7, <1>8 DEF Inv

-----------------------------------------------------------------------------
LEMMA InvNext ==
  ASSUME Inv, [Next]_vars
  PROVE  Inv'
<1>1. ASSUME NEW c \in Exceptions \cup Interrupts, TakeTrap(c) PROVE Inv'
  BY <1>1, StepTakeTrap DEF Causes
<1>2. CASE interrupt_handler
  BY <1>2, StepReturns DEF interrupt_handler, InHandler
<1>3. CASE exception_handler
  BY <1>3, StepReturns DEF exception_handler, InHandler
<1>4. CASE UNCHANGED vars
  <2>1. UNCHANGED <<x, mem, at, pc, ctx, sie, spie, spp, sepc, scause, sscratch>>
    BY <1>4 DEF vars, sstatus, csrs
  <2>2. TypeInv'
    BY <2>1 DEF Inv, TypeInv
  <2>3. CtxInv' /\ FramesInv' /\ Cur' = Cur
    BY <2>1, SameCtx, SameFrames DEF Inv
  <2>4. PhaseInv'
    BY <2>1, <2>3 DEF Inv, PhaseInv, Nested, Dispatched, Trapped, Lowered, RegsSaved, SpAt
  <2> QED
    BY <2>2, <2>3, <2>4 DEF Inv
<1> QED
  BY <1>1, <1>2, <1>3, <1>4, StepSaveSp, StepStoreRegs, StepReadCsrs, StepStoreCsrs,
     StepDispatch, StepLoadCsrs, StepLoadRegs, StepLoadSp, StepSret DEF Next

\* Inv holds in every reachable state of __alltraps, trap() and __trapret,
\* whatever nests inside the handler.
THEOREM TrapInvariant == Spec => []Inv
  BY InvInit, InvNext, PTL DEF Spec

LEMMA LastIsCur ==
  ASSUME Inv, Len(ctx) > 0
  PROVE  Last(ctx) = Cur
  BY DEF Last, Cur

\* sret gives back the registers, pc and interrupt enable of the code that
\* its trap interrupted: see ContextRestored in TrapEntry.
THEOREM ContextGivenBack == Spec => []ContextRestored
<1>1. Inv => ContextRestored
  <2> SUFFICES ASSUME Inv, at = "sret" PROVE ContextRestored
    BY DEF ContextRestored
  <2>1. /\ Len(ctx) > 0 /\ ~sie /\ spie = Cur.sie /\ spp /\ sepc = Cur.pc /\ x = Cur.x
    BY DEF Inv, PhaseInv
  <2> QED
    BY <2>1, LastIsCur DEF ContextRestored
<1> QED
  BY <1>1, TrapInvariant, PTL

\* trap() finds its own context in the frame and no nested trap touches an
\* outer one: see FramesIntact in TrapEntry.
THEOREM FramesKept == Spec => []FramesIntact
<1>1. Inv => FramesIntact
  <2> SUFFICES ASSUME Inv, at = "c", pc \in InHandler
               PROVE  /\ x[sp] = FrameOf(Last(ctx)) /\ sscratch = 0
                      /\ \A i \in 1 .. Len(ctx) : FrameHolds(ctx[i])
                      /\ pc = INTERRUPT_HANDLER => Last(ctx).cause \in Interrupts
                      /\ pc = EXCEPTION_HANDLER => Last(ctx).cause \in Exceptions
    BY DEF FramesIntact, InHandler
  <2>1. /\ Len(ctx) > 0 /\ x[sp] = SpAt(Len(ctx)) /\ sscratch = 0 /\ Dispatched(pc, Cur.cause)
    BY Inside
  <2>2. ASSUME NEW i \in 1 .. Len(ctx)
        PROVE  FrameOf(ctx[i]) = SpAt(i) /\ FrameHolds(ctx[i])
    <3>1. ctx[i] \in Context /\ i \in 1 .. MaxDepth /\ ctx[i].x[sp] = SpAt(i - 1)
      <4>1. ctx \in Seq(Context) /\ Len(ctx) \in Nat /\ Len(ctx) <= MaxDepth /\ MaxDepth \in Nat
        BY TrapConstants DEF Inv, TypeInv
      <4>2. ctx[i].x[sp] = SpAt(i - 1)
        BY DEF Inv, CtxInv, Nested
      <4> QED
        BY <4>1, <4>2
    <3>2. FrameOf(ctx[i]) = SpAt(i)
      <4>1. SpAt(i) \in Int /\ SpAt(i) + FRAME = SpAt(i - 1)
        BY <3>1, SpRange
      <4> QED
        BY <3>1, <4>1 DEF FrameOf, FRAME
    <3>3. FrameAt(mem, SpAt(i), ctx[i])
      BY DEF Inv, FramesInv, FrameDone
    <3>4. HasBit(SavedStatus(ctx[i]), SSTATUS_SPP)
      BY <3>1, StatusBits DEF Context
    <3> QED
      BY <3>2, <3>3, <3>4 DEF FrameAt, FrameHolds, TfStatus, TfEpc, TfCause, trap_in_kernel,
         SavedStatus
  <2>3. Len(ctx) \in 1 .. Len(ctx) /\ Last(ctx) = Cur
    BY <2>1, CurFacts, LastIsCur
  <2> QED
    BY <2>1, <2>2, <2>3 DEF Cur, Dispatched
<1> QED
  BY <1>1, TrapInvariant, PTL

-----------------------------------------------------------------------------
\* struct pushregs names the registers in the order of their numbers.
LEMMA NamesInOrder ==
  /\ Len(pushregs) = 32
  /\ \A i \in 1 .. 32 : pushregs[i] \in DOMAIN Abi /\ Abi[pushregs[i]] = i - 1
<1>0. Len(pushregs) = 32
  BY DEF pushregs, Base, Args, Saved, Temps
<1> SUFFICES ASSUME NEW i \in 1 .. 32 PROVE pushregs[i] \in DOMAIN Abi /\ Abi[pushregs[i]] = i - 1
  BY <1>0
<1>1. CASE i \in 1 .. 10
  BY <1>1 DEF pushregs, Base, Args, Saved, Temps, Abi
<1>2. CASE i \in 11 .. 18
  BY <1>2 DEF pushregs, Base, Args, Saved, Temps, Abi
<1>3. CASE i \in 19 .. 28
  BY <1>3 DEF pushregs, Base, Args, Saved, Temps, Abi
<1>4. CASE i \in 29 .. 32
  BY <1>4 DEF pushregs, Base, Args, Saved, Temps, Abi
<1> QED
  BY <1>1, <1>2, <1>3, <1>4

LEMMA ByName == \A r \in DOMAIN Abi : Abi[r] \in X /\ pushregs[Abi[r] + 1] = r
<1>1. \A r, q \in DOMAIN Abi : Abi[r] = Abi[q] => r = q
  BY DEF Abi
<1>2. \A r \in DOMAIN Abi : Abi[r] \in 0 .. 31
  BY DEF Abi
<1> SUFFICES ASSUME NEW r \in DOMAIN Abi PROVE Abi[r] \in X /\ pushregs[Abi[r] + 1] = r
  OBVIOUS
<1>3. Abi[r] + 1 \in 1 .. 32 /\ (Abi[r] + 1) - 1 = Abi[r]
  BY <1>2
<1> QED
  BY <1>1, <1>2, <1>3, NamesInOrder DEF X

LEMMA Labels == DOMAIN Abi \cap {"status", "epc", "badvaddr", "cause"} = {}
  BY DEF Abi

LEMMA LowWord == ASSUME NEW v \in Int PROVE Low(v) \in 0 .. HALF - 1
  BY TrapConstants DEF Low

LEMMA SignRemoved ==
  ASSUME NEW n \in Nat \ {0}, NEW i \in 0 .. n - 1
  PROVE  (n + i) % n = i
  OBVIOUS

\* The output of print_trapframe shows the context c.
Shows(o, c) ==
  /\ o[1] = "trapframe" /\ o[2] = FrameOf(c)
  /\ \A r \in DOMAIN Abi : {v \in 0 .. HALF - 1 : <<r, v>> \in o[3]} = {Low(c.x[Abi[r]])}
  /\ {<<"epc", Low(c.pc)>>, <<"cause", Low(c.cause)>>} \subseteq o[3]

\* print_trapframe shows the context that its frame holds, each name once.
LEMMA FrameShown ==
  ASSUME NEW tf \in Int, NEW c \in Context, FrameAt(mem, tf, c), tf = FrameOf(c)
  PROVE  Shows(print_trapframe(tf), c)
<1>1. c.x \in [X -> Int]
  BY DEF Context
<1>2. ASSUME NEW i \in 1 .. 32 PROVE mem[tf + i - 1] = c.x[i - 1]
  <2>1. i - 1 \in X /\ tf + i - 1 = tf + (i - 1)
    BY DEF X
  <2> QED
    BY <2>1 DEF FrameAt
<1>3. print_regs(tf) = {<<pushregs[i], Low(c.x[i - 1])>> : i \in 1 .. 32}
  BY <1>2, NamesInOrder DEF print_regs
<1>4. ASSUME NEW r \in DOMAIN Abi, NEW v
      PROVE  <<r, v>> \in print_regs(tf) <=> v = Low(c.x[Abi[r]])
  <2>1. Abi[r] + 1 \in 1 .. 32 /\ (Abi[r] + 1) - 1 = Abi[r] /\ pushregs[Abi[r] + 1] = r
    BY ByName DEF X
  <2>2. <<r, Low(c.x[Abi[r]])>> \in print_regs(tf)
    BY <1>3, <2>1
  <2>3. ASSUME <<r, v>> \in print_regs(tf) PROVE v = Low(c.x[Abi[r]])
    <3>1. PICK i \in 1 .. 32 : <<r, v>> = <<pushregs[i], Low(c.x[i - 1])>>
      BY <1>3, <2>3
    <3>2. r = pushregs[i] /\ v = Low(c.x[i - 1])
      BY <3>1
    <3> QED
      BY <3>2, NamesInOrder
  <2> QED
    BY <2>2, <2>3
<1>5. ASSUME NEW r \in DOMAIN Abi, NEW v
      PROVE  <<r, v>> \in print_trapframe(tf)[3] <=> v = Low(c.x[Abi[r]])
  <2>1. r \notin {"status", "epc", "badvaddr", "cause"}
    BY Labels
  <2> QED
    BY <1>4, <2>1 DEF print_trapframe
<1>6. ASSUME NEW r \in DOMAIN Abi
      PROVE  {v \in 0 .. HALF - 1 : <<r, v>> \in print_trapframe(tf)[3]} = {Low(c.x[Abi[r]])}
  <2>1. Low(c.x[Abi[r]]) \in 0 .. HALF - 1
    BY <1>1, ByName, LowWord
  <2> QED
    BY <1>5, <2>1
<1>7. TfEpc(tf) = c.pc /\ TfCause(tf) = c.cause
  BY DEF FrameAt, TfEpc, TfCause
<1> QED
  BY <1>6, <1>7 DEF Shows, print_trapframe

\* The handlers call print_trapframe for exactly the causes without a case.
LEMMA StepDump ==
  ASSUME Inv, interrupt_handler \/ exception_handler
  PROVE  DumpShowsContext'
<1> DEFINE known == IF Cur.cause >= SIGN THEN Cur.cause - SIGN <= IRQ_M_EXT
                                        ELSE Cur.cause <= CAUSE_MACHINE_ECALL
<1>1. at = "c" /\ pc \in InHandler /\ Returns
  BY DEF interrupt_handler, exception_handler, InHandler
<1>2. /\ Len(ctx) > 0 /\ x[sp] = SpAt(Len(ctx)) /\ x[a0] = x[sp]
      /\ Dispatched(pc, Cur.cause) /\ FrameAt(mem, SpAt(Len(ctx)), Cur)
  BY <1>1, Inside
<1>3. Cur \in Context /\ FrameOf(Cur) = SpAt(Len(ctx)) /\ SpAt(Len(ctx)) \in Int
  <2>1. Cur \in Context /\ Cur.x[sp] = SpAt(Len(ctx) - 1) /\ Len(ctx) \in 1 .. MaxDepth
    BY <1>2, CurFacts
  <2>2. SpAt(Len(ctx)) \in Int /\ SpAt(Len(ctx)) + FRAME = SpAt(Len(ctx) - 1)
    BY <2>1, SpRange
  <2> QED
    BY <2>1, <2>2 DEF FrameOf, FRAME
<1>4. Shows(print_trapframe(x[a0]), Cur)
  BY <1>2, <1>3, FrameShown
<1>5. TfCause(x[a0]) = Cur.cause
  BY <1>2 DEF FrameAt, TfCause
<1>6. /\ known => out' = Nothing \/ out' = <<"line", TfCause(x[a0]) % SIGN>>
      /\ ~known => out' = print_trapframe(x[a0])
  <2>1. CASE interrupt_handler
    <3>1. Cur.cause \in Interrupts
      BY <1>2, <2>1 DEF interrupt_handler, Dispatched
    <3>2. PICK i \in 0 .. SIGN - 1 : Cur.cause = SIGN + i
      BY <3>1, TrapConstants DEF Interrupts
    <3>3. SIGN \in Nat \ {0}
      BY TrapConstants
    <3>4. Cur.cause >= SIGN /\ Cur.cause - SIGN = i /\ Cur.cause % SIGN = i
      BY <3>2, <3>3, SignRemoved
    <3>5. out' = IF i = IRQ_S_TIMER THEN Nothing
                 ELSE IF i <= IRQ_M_EXT THEN <<"line", i>> ELSE print_trapframe(x[a0])
      BY <1>5, <2>1, <3>4 DEF interrupt_handler
    <3>6. i = IRQ_S_TIMER => i <= IRQ_M_EXT
      BY DEF IRQ_S_TIMER, IRQ_M_EXT
    <3> QED
      BY <1>5, <3>4, <3>5, <3>6
  <2>2. CASE exception_handler
    <3>1. Cur.cause \in Exceptions
      BY <1>2, <2>2 DEF exception_handler, Dispatched
    <3>2. \A c \in Exceptions : ~(c >= SIGN)
      BY TrapConstants
    <3> QED
      BY <1>5, <2>2, <3>1, <3>2 DEF exception_handler
  <2> QED
    BY <2>1, <2>2
<1>7. known => out'[1] # "trapframe"
  BY <1>6 DEF Nothing
<1>8. ~known => Shows(out', Cur)
  BY <1>4, <1>6
<1>9. Last(ctx)' = Cur
  BY <1>1, <1>2, LastIsCur DEF Returns
<1> HIDE DEF known
<1>10. known <=> out'[1] # "trapframe"
  BY <1>7, <1>8 DEF Shows
<1> QED
  BY <1>8, <1>9, <1>10 DEF DumpShowsContext, Shows, known

\* What the handlers print about a trap is the context of that trap: see
\* DumpShowsContext in TrapEntry.
THEOREM DumpsRight == Spec => []DumpShowsContext
<1>1. Init => DumpShowsContext
  BY DEF Init, DumpShowsContext
<1>2. ASSUME Inv, DumpShowsContext, [Next]_vars PROVE DumpShowsContext'
  <2>1. CASE interrupt_handler \/ exception_handler
    BY <1>2, <2>1, StepDump
  <2>2. CASE UNCHANGED vars
    BY <1>2, <2>2 DEF vars, DumpShowsContext
  <2>3. ASSUME NEW c \in Exceptions \cup Interrupts, TakeTrap(c) PROVE DumpShowsContext'
    BY <2>3 DEF TakeTrap, DumpShowsContext
  <2>4. CASE \/ SaveSp \/ StoreRegs \/ ReadCsrs \/ StoreCsrs \/ trap_dispatch
             \/ LoadCsrs \/ LoadRegs \/ LoadSp \/ Sret
    <3>1. at' # "load_csrs"
      BY <2>4 DEF SaveSp, StoreRegs, ReadCsrs, StoreCsrs, trap_dispatch, LoadCsrs, LoadRegs,
         LoadSp, Sret
    <3> QED
      BY <3>1 DEF DumpShowsContext
  <2> QED
    BY <1>2, <2>1, <2>2, <2>3, <2>4 DEF Next
<1> QED
  BY <1>1, <1>2, TrapInvariant, PTL DEF Spec
=============================================================================
