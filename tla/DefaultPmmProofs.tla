-------------------------- MODULE DefaultPmmProofs --------------------------
(***************************************************************************)
(* Theorems about DefaultPmm, for every number of pages and every word     *)
(* size that PageConstants allows.                                         *)
(***************************************************************************)
EXTENDS DefaultPmm, FiniteSetTheorems, TLAPS

\* What Next says of all variables but op, which no step looks at: the steps of
\* the code and of callers whose calls nobody writes down.
code_vars == <<nr_free, pages, pc, base, n, p, page, first_usable, ret, disciplined>>
Moves ==
  \/ \E b, k \in Word : default_init_memmap(b, k) /\ UNCHANGED disciplined
  \/ \E k \in Word : default_alloc_pages(k) /\ UNCHANGED disciplined
  \/ \E b, k \in Word : CallFree(b, k)
  \/ default_nr_free_pages /\ UNCHANGED disciplined
  \/ Step /\ UNCHANGED disciplined

LEMMA NextMoves == [Next]_vars => [Moves]_code_vars
  BY DEF Next, Moves, vars, code_vars

LEMMA TypeInit == Init => TypeOK
  BY PageConstants DEF Init, TypeOK, Loops, Pages, Word, Flags, PG_reserved, PG_allocated

(***************************************************************************)
(* The type invariant is not inductive alone: first_usable and page need   *)
(* no more, but base + n must stay in the array.                           *)
(***************************************************************************)
LEMMA TypeStep == TypeOK /\ [Moves]_code_vars => TypeOK'
<1> SUFFICES ASSUME TypeOK, [Moves]_code_vars PROVE TypeOK'
  OBVIOUS
<1> USE PageConstants DEF TypeOK, Loops, Pages, Word, Flags
<1>1. ASSUME NEW b \in Word, NEW k \in Word, default_init_memmap(b, k), UNCHANGED disciplined
      PROVE  TypeOK'
  BY <1>1 DEF default_init_memmap, init_memmap_args, Reject, Enter
<1>2. ASSUME NEW k \in Word, default_alloc_pages(k), UNCHANGED disciplined PROVE TypeOK'
  BY <1>2 DEF default_alloc_pages, Reject, Enter
<1>3. ASSUME NEW b \in Word, NEW k \in Word, CallFree(b, k) PROVE TypeOK'
  BY <1>3 DEF CallFree, default_free_pages, Reject, Enter
<1>4. CASE default_nr_free_pages /\ UNCHANGED disciplined
  BY <1>4 DEF default_nr_free_pages, Reject
<1>5. CASE CheckReserved /\ UNCHANGED disciplined
  BY <1>5 DEF CheckReserved, Return, Iterate, NextLoop
<1>6. CASE CheckAllocated /\ UNCHANGED disciplined
  BY <1>6 DEF CheckAllocated, Return, Iterate, NextLoop
<1>7. CASE ClearReserved /\ UNCHANGED disciplined
  BY <1>7 DEF ClearReserved, Iterate, clear_bit
<1>8. CASE InitMemmapDone /\ UNCHANGED disciplined
  BY <1>8 DEF InitMemmapDone, Return, WordAdd
<1>9. CASE ScanTaken /\ UNCHANGED disciplined
  BY <1>9 DEF ScanTaken, Iterate
<1>10. CASE ScanUsable /\ UNCHANGED disciplined
  BY <1>10 DEF ScanUsable, Iterate
<1>11. CASE ScanFailed /\ UNCHANGED disciplined
  BY <1>11 DEF ScanFailed, Return
<1>12. CASE SetAllocated /\ UNCHANGED disciplined
  BY <1>12 DEF SetAllocated, Iterate, set_bit, PG_allocated
<1>13. CASE AllocDone /\ UNCHANGED disciplined
  BY <1>13 DEF AllocDone, Return, WordSub
<1>14. CASE ClearAllocated /\ UNCHANGED disciplined
  BY <1>14 DEF ClearAllocated, Iterate, clear_bit
<1>15. CASE FreeDone /\ UNCHANGED disciplined
  BY <1>15 DEF FreeDone, Return, WordAdd
<1>16. CASE UNCHANGED code_vars
  BY <1>16 DEF code_vars
<1> QED
  BY <1>1, <1>2, <1>3, <1>4, <1>5, <1>6, <1>7, <1>8, <1>9, <1>10, <1>11,
     <1>12, <1>13, <1>14, <1>15, <1>16 DEF Moves, Step

\* TypeOK holds in every reachable state: see DefaultPmm.
THEOREM TypeCorrect == Spec => []TypeOK
  BY TypeInit, NextMoves, TypeStep, PTL DEF Spec

-----------------------------------------------------------------------------
(***************************************************************************)
(* The loop invariant. Together with the type invariant and                *)
(* NoReservedAllocated it is inductive, whatever the callers pass.         *)
(***************************************************************************)
Inv == TypeOK /\ NoReservedAllocated /\ LoopInv

LEMMA LoopInit == Init => NoReservedAllocated /\ LoopInv
  BY PageConstants DEF Init, NoReservedAllocated, LoopInv, InitMemmapLoops, ScanLoop,
     SetAllocatedLoop, ClearAllocatedLoop, PageReserved, PageAllocated, PG_reserved,
     PG_allocated, Pages

\* The flags do not change: NoReservedAllocated needs nothing else.
LEMMA SameFlags ==
  ASSUME NoReservedAllocated, UNCHANGED pages
  PROVE  NoReservedAllocated'
  BY DEF NoReservedAllocated, PageReserved, PageAllocated

LEMMA LoopStep == Inv /\ [Moves]_code_vars => NoReservedAllocated' /\ LoopInv'
<1> SUFFICES ASSUME Inv, [Moves]_code_vars PROVE NoReservedAllocated' /\ LoopInv'
  OBVIOUS
<1> USE PageConstants
<1> USE DEF Inv, TypeOK, Pages, Word, LoopInv, InitMemmapLoops, ScanLoop,
            SetAllocatedLoop, ClearAllocatedLoop, InBlock, WordAdd
<1>1. ASSUME NEW b \in Word, NEW k \in Word, default_init_memmap(b, k), UNCHANGED disciplined
      PROVE  NoReservedAllocated' /\ LoopInv'
  BY <1>1, SameFlags DEF default_init_memmap, init_memmap_args, Reject, Enter
<1>2. ASSUME NEW k \in Word, default_alloc_pages(k), UNCHANGED disciplined
      PROVE  NoReservedAllocated' /\ LoopInv'
  BY <1>2, SameFlags DEF default_alloc_pages, Reject, Enter
<1>3. ASSUME NEW b \in Word, NEW k \in Word, CallFree(b, k)
      PROVE  NoReservedAllocated' /\ LoopInv'
  <2>1. UNCHANGED pages /\ pc = "idle"
    BY <1>3 DEF CallFree, default_free_pages
  <2>2. CASE ~free_pages_args(b, k) /\ Reject(Void)
    BY <1>3, <2>1, <2>2, SameFlags DEF Reject
  <2>3. CASE free_pages_args(b, k) /\ Enter("clear_allocated", b, k)
    <3>1. disciplined' => \A q \in Pages : InBlock(q, b, k) => PageAllocated(pages, q)
      BY <1>3, <2>3 DEF CallFree, KeepsContract
    <3>2. \A q \in Pages : b <= q /\ q < b + k /\ disciplined' => PageAllocated(pages', q)
      BY <2>1, <2>3, <3>1 DEF free_pages_args, PageAllocated
    <3>3. ClearAllocatedLoop'
      BY <2>1, <2>3, <3>2 DEF Enter, free_pages_args
    <3> QED
      BY <2>1, <2>3, <3>3, SameFlags DEF Enter
  <2> QED
    BY <1>3, <2>2, <2>3 DEF CallFree, default_free_pages
<1>4. CASE default_nr_free_pages /\ UNCHANGED disciplined
  BY <1>4, SameFlags DEF default_nr_free_pages, Reject
<1>5. CASE CheckReserved /\ UNCHANGED disciplined
  BY <1>5, SameFlags DEF CheckReserved, Return, Iterate, NextLoop, PageReserved, PageAllocated
<1>6. CASE CheckAllocated /\ UNCHANGED disciplined
  BY <1>6, SameFlags DEF CheckAllocated, Return, Iterate, NextLoop, PageReserved, PageAllocated
<1>7. CASE ClearReserved /\ UNCHANGED disciplined
  BY <1>7 DEF ClearReserved, Iterate, clear_bit, NoReservedAllocated, PageReserved, PageAllocated, PG_reserved, PG_allocated
<1>8. CASE InitMemmapDone /\ UNCHANGED disciplined
  BY <1>8, SameFlags DEF InitMemmapDone, Return
<1>9. CASE ScanTaken /\ UNCHANGED disciplined
  <2> USE <1>9 DEF ScanTaken, Iterate
  <2>1. p \notin Available(pages)
    BY DEF Available, Taken
  <2>2. ASSUME NEW c \in 0 .. p
        PROVE  \E q \in c .. c + n - 1 : q \notin Available(pages)
    <3>1. CASE c < first_usable
      <4>1. \A d \in 0 .. first_usable - 1 :
              \E q \in d .. d + n - 1 : q \notin Available(pages)
        OBVIOUS
      <4>2. c \in 0 .. first_usable - 1
        BY <3>1
      <4> QED
        BY ONLY <4>1, <4>2
    <3>2. CASE c >= first_usable
      BY <2>1, <3>2
    <3> QED
      BY <3>1, <3>2
  <2>3. \A c \in 0 .. first_usable' - 1 :
          \E q \in c .. c + n - 1 : q \notin Available(pages)
    <3>1. first_usable' - 1 = p
      OBVIOUS
    <3> QED
      BY ONLY <2>2, <3>1
  <2>4. Available(pages') = Available(pages)
    OBVIOUS
  <2>5. ScanLoop'
    BY <2>3, <2>4
  <2> QED
    BY <2>5, SameFlags
<1>10. CASE ScanUsable /\ UNCHANGED disciplined
  <2> USE <1>10 DEF ScanUsable
  <2>1. p \in Available(pages)
    BY DEF Available, Taken
  <2>2. \A q \in first_usable .. p : q \in Available(pages)
    BY <2>1
  <2>3. CASE p - first_usable + 1 = n
    <3>1. \A q \in Pages : first_usable <= q /\ q < first_usable + n =>
                           ~PageReserved(pages, q) /\ ~PageAllocated(pages, q)
      BY <2>2, <2>3 DEF Available
    <3> QED
      BY <2>3, <3>1, SameFlags
  <2>4. CASE p - first_usable + 1 # n
    <3>1. ScanLoop'
      BY <2>2, <2>4 DEF Iterate
    <3> QED
      BY <2>4, <3>1, SameFlags DEF Iterate
  <2> QED
    BY <2>3, <2>4
<1>11. CASE ScanFailed /\ UNCHANGED disciplined
  BY <1>11, SameFlags DEF ScanFailed, Return
<1>12. CASE SetAllocated /\ UNCHANGED disciplined
  BY <1>12 DEF SetAllocated, Iterate, set_bit, NoReservedAllocated, PageReserved, PageAllocated, PG_reserved, PG_allocated
<1>13. CASE AllocDone /\ UNCHANGED disciplined
  BY <1>13, SameFlags DEF AllocDone, Return
<1>14. CASE ClearAllocated /\ UNCHANGED disciplined
  BY <1>14 DEF ClearAllocated, Iterate, clear_bit, NoReservedAllocated, PageReserved, PageAllocated, PG_reserved, PG_allocated
<1>15. CASE FreeDone /\ UNCHANGED disciplined
  BY <1>15, SameFlags DEF FreeDone, Return
<1>16. CASE UNCHANGED code_vars
  BY <1>16, SameFlags DEF code_vars, Taken, PageReserved, PageAllocated
<1> QED
  BY <1>1, <1>2, <1>3, <1>4, <1>5, <1>6, <1>7, <1>8, <1>9, <1>10, <1>11,
     <1>12, <1>13, <1>14, <1>15, <1>16 DEF Moves, Step

\* The three parts hold in every reachable state.
THEOREM Invariance == Spec => []Inv
<1>1. Init => Inv
  BY TypeInit, LoopInit DEF Inv
<1>2. Inv /\ [Next]_vars => Inv'
  BY NextMoves, TypeStep, LoopStep DEF Inv
<1> QED
  BY <1>1, <1>2, PTL DEF Spec

(***************************************************************************)
(* No page is ever reserved and allocated at once, whatever callers pass:  *)
(* see NoReservedAllocated.                                                *)
(***************************************************************************)
THEOREM FlagsExclusive == Spec => []NoReservedAllocated
<1>1. Inv => NoReservedAllocated
  BY DEF Inv
<1> QED
  BY <1>1, Invariance, PTL

(***************************************************************************)
(* Every loop of default_pmm.c has at each iteration established what the  *)
(* loops after it rely on: see LoopInv.                                    *)
(***************************************************************************)
THEOREM LoopsCorrect == Spec => []LoopInv
<1>1. Inv => LoopInv
  BY DEF Inv
<1> QED
  BY <1>1, Invariance, PTL

-----------------------------------------------------------------------------
(***************************************************************************)
(* Refinement: each step of DefaultPmm is one step of PagedbSpec under the *)
(* mapping, or leaves the mapped state alone.                              *)
(***************************************************************************)
MapVars == <<MapNrFree, MapFlag, MapRet>>

\* After a free that keeps the callers disciplined: what KeepsContract says, of
\* the abstract state.
FreeAllowed(b, k) ==
  disciplined' /\ free_pages_args(b, k) =>
    \A q \in Pages : InBlock(q, b, k) => PageAllocated(MapFlag, q)

AbstractStep ==
  \/ \E b, k \in Word : Pagedb!spec_default_init_memmap(b, k)
  \/ \E k \in Word : Pagedb!spec_default_alloc_pages(k)
  \/ \E b, k \in Word : FreeAllowed(b, k) /\ Pagedb!spec_default_free_pages(b, k)
  \/ Pagedb!spec_default_nr_free_pages

\* Outside the last loops the mapping is the identity.
LEMMA MapIdentity ==
  ASSUME TypeOK, pc \notin {"clear_reserved", "set_allocated", "clear_allocated"}
  PROVE  MapFlag = pages /\ MapNrFree = nr_free /\ MapRet = ret
  BY DEF TypeOK, MapFlag, MapNrFree, MapRet

LEMMA MapIdentityNext ==
  ASSUME TypeOK', pc' \notin {"clear_reserved", "set_allocated", "clear_allocated"}
  PROVE  MapFlag' = pages' /\ MapNrFree' = nr_free' /\ MapRet' = ret'
  BY DEF TypeOK, MapFlag, MapNrFree, MapRet

USE DEF Pagedb!Pages, Pagedb!Word, Pagedb!WordAdd, Pagedb!WordSub, Pagedb!InBlock,
        Pagedb!PageReserved, Pagedb!PageAllocated, Pagedb!Available,
        Pagedb!PG_reserved, Pagedb!PG_allocated

LEMMA SimInitMemmap ==
  ASSUME Inv, TypeOK', NEW b \in Word, NEW k \in Word, default_init_memmap(b, k)
  PROVE  \/ Pagedb!spec_default_init_memmap(b, k) /\ pc' = "idle"
         \/ UNCHANGED MapVars /\ pc' = "check_reserved"
<1> USE DEF Inv, MapVars
<1>1. CASE init_memmap_args(b, k) # 0 /\ Reject(init_memmap_args(b, k))
  <2>1. Pagedb!init_memmap_status(b, k) = init_memmap_args(b, k)
    BY <1>1 DEF init_memmap_args, Pagedb!init_memmap_status, WordAdd
  <2> QED
    BY <1>1, <2>1, MapIdentity, MapIdentityNext
    DEF default_init_memmap, Reject, Pagedb!spec_default_init_memmap
<1>2. CASE Enter("check_reserved", b, k)
  BY <1>2, MapIdentity, MapIdentityNext DEF default_init_memmap, Enter
<1> QED
  BY <1>1, <1>2 DEF default_init_memmap

LEMMA SimCheckReserved ==
  ASSUME Inv, TypeOK', CheckReserved
  PROVE  \/ Pagedb!spec_default_init_memmap(base, n) /\ pc' = "idle"
         \/ UNCHANGED MapVars /\ pc' \in {"check_reserved", "check_allocated"}
<1> USE DEF Inv, MapVars, CheckReserved
<1>1. CASE Return(5)
  <2>1. MapFlag = pages /\ MapNrFree = nr_free /\ MapFlag' = pages' /\ MapNrFree' = nr_free' /\ MapRet' = 5
    BY <1>1, MapIdentity, MapIdentityNext DEF Return
  <2>2. CASE p < NPAGE /\ InBlock(p, base, n) /\ ~PageReserved(pages, p)
    <3>1. Pagedb!init_memmap_status(base, n) = 5
      BY <2>1, <2>2, PageConstants
      DEF Pagedb!init_memmap_status, LoopInv, InitMemmapLoops, TypeOK, Pages, Word, WordAdd,
          InBlock, PageReserved, PG_reserved
    <3> QED
      BY <1>1, <2>1, <3>1 DEF Pagedb!spec_default_init_memmap, Return
  <2> QED
    BY <1>1, <2>2 DEF Return, Iterate, NextLoop
<1>2. CASE Iterate \/ NextLoop("check_allocated")
  BY <1>2, MapIdentity, MapIdentityNext DEF Iterate, NextLoop
<1> QED
  BY <1>1, <1>2

\* The checks are over: the call will succeed, and takes effect here.
LEMMA SimCheckAllocated ==
  ASSUME Inv, TypeOK', CheckAllocated
  PROVE  \/ Pagedb!spec_default_init_memmap(base, n) /\ pc' = "clear_reserved"
         \/ UNCHANGED MapVars /\ pc' = "check_allocated"
<1> USE DEF Inv, MapVars, CheckAllocated
<1>1. MapFlag = pages /\ MapNrFree = nr_free /\ MapRet = ret
  BY MapIdentity
<1>2. CASE Iterate
  BY <1>2, MapIdentity, MapIdentityNext DEF Iterate
<1>3. CASE NextLoop("clear_reserved")
  <2>1. Pagedb!init_memmap_status(base, n) = 0
    BY <1>1, <1>3, PageConstants
    DEF Pagedb!init_memmap_status, NextLoop, LoopInv, InitMemmapLoops, TypeOK, Pages,
        Word, WordAdd, PageReserved, PageAllocated, PG_reserved, PG_allocated
  <2>2. MapFlag' = Pagedb!page_clear_flag(base, n, PG_reserved)
    BY <1>1, <1>3 DEF NextLoop, MapFlag, Pagedb!page_clear_flag, InBlock, WordAdd, Pages
  <2>3. MapNrFree' = WordAdd(nr_free, n) /\ MapRet' = 0
    BY <1>3 DEF NextLoop, MapNrFree, MapRet, WordAdd
  <2> QED
    BY <1>1, <1>3, <2>1, <2>2, <2>3
    DEF NextLoop, Pagedb!spec_default_init_memmap, WordAdd, PG_reserved
<1>4. ~(InBlock(p, base, n) /\ PageAllocated(pages, p) /\ p < NPAGE)
  BY PageConstants DEF LoopInv, InitMemmapLoops, NoReservedAllocated, TypeOK, Pages,
     Word, InBlock, WordAdd
<1> QED
  BY <1>2, <1>3, <1>4

\* The last loop of a call: the mapped state already shows what it does.
LEMMA SimLastLoop ==
  ASSUME Inv, TypeOK', ClearReserved \/ SetAllocated \/ ClearAllocated
  PROVE  UNCHANGED MapVars /\ pc' = pc
<1> USE DEF Inv, MapVars, Iterate
<1>1. CASE ClearReserved
  BY <1>1 DEF ClearReserved, MapFlag, MapNrFree, MapRet, clear_bit, TypeOK, InBlock, WordAdd
<1>2. CASE SetAllocated
  BY <1>2 DEF SetAllocated, MapFlag, MapNrFree, MapRet, set_bit, TypeOK, InBlock, WordAdd,
     WordSub
<1>3. CASE ClearAllocated
  BY <1>3 DEF ClearAllocated, MapFlag, MapNrFree, MapRet, clear_bit, TypeOK, InBlock, WordAdd
<1> QED
  BY <1>1, <1>2, <1>3

LEMMA SimDone ==
  ASSUME Inv, TypeOK', InitMemmapDone \/ AllocDone \/ FreeDone
  PROVE  UNCHANGED MapVars /\ pc' = "idle"
<1> USE PageConstants DEF Inv, MapVars, Return, TypeOK, Pages, Word, LoopInv
<1>1. CASE InitMemmapDone
  <2>1. MapFlag = pages
    BY <1>1 DEF InitMemmapDone, MapFlag, InitMemmapLoops, InBlock, WordAdd, PageReserved
  <2> QED
    BY <1>1, <2>1, MapIdentityNext DEF InitMemmapDone, MapNrFree, MapRet
<1>2. CASE AllocDone
  <2>1. MapFlag = pages
    BY <1>2 DEF AllocDone, MapFlag, SetAllocatedLoop, InBlock, WordAdd, PageAllocated
  <2> QED
    BY <1>2, <2>1, MapIdentityNext DEF AllocDone, MapNrFree, MapRet
<1>3. CASE FreeDone
  <2>1. MapFlag = pages
    BY <1>3 DEF FreeDone, MapFlag, ClearAllocatedLoop, InBlock, WordAdd, PageAllocated
  <2> QED
    BY <1>3, <2>1, MapIdentityNext DEF FreeDone, MapNrFree, MapRet
<1> QED
  BY <1>1, <1>2, <1>3

LEMMA SimAlloc ==
  ASSUME Inv, TypeOK', NEW k \in Word, default_alloc_pages(k)
  PROVE  \/ Pagedb!spec_default_alloc_pages(k) /\ pc' = "idle"
         \/ UNCHANGED MapVars /\ pc' = "scan"
<1> USE DEF Inv, MapVars, default_alloc_pages
<1>1. CASE ~(k > 0 /\ k <= NPAGE) /\ Reject(NULLPAGE)
  BY <1>1, MapIdentity, MapIdentityNext DEF Reject, Pagedb!spec_default_alloc_pages
<1>2. CASE Enter("scan", 0, k)
  BY <1>2, MapIdentity, MapIdentityNext DEF Enter
<1> QED
  BY <1>1, <1>2

\* No block of n available pages starts before first_usable.
LEMMA NoneBefore ==
  ASSUME Inv, pc = "scan", NEW c \in 0 .. first_usable - 1
  PROVE  ~Pagedb!free_block(pages, c, n)
<1>1. \A d \in 0 .. first_usable - 1 : \E q \in d .. d + n - 1 : q \notin Available(pages)
  BY DEF Inv, LoopInv, ScanLoop
<1>2. PICK q \in c .. c + n - 1 : q \notin Available(pages)
  BY ONLY <1>1
<1> QED
  BY <1>2 DEF Pagedb!free_block, Available, Pages, PageReserved, PageAllocated, PG_reserved,
     PG_allocated

\* The scan stops on the first block of n available pages.
LEMMA SimScanUsable ==
  ASSUME Inv, TypeOK', ScanUsable
  PROVE  \/ Pagedb!spec_default_alloc_pages(n) /\ pc' = "set_allocated"
         \/ UNCHANGED MapVars /\ pc' = "scan"
<1> USE DEF Inv, MapVars, ScanUsable
<1>1. MapFlag = pages /\ MapNrFree = nr_free /\ MapRet = ret
  BY MapIdentity
<1>2. CASE p - first_usable + 1 = n
  <2>1. first_usable \in Pages /\ n > 0 /\ n <= NPAGE /\ first_usable + n <= NPAGE
    BY <1>2, PageConstants DEF LoopInv, ScanLoop, TypeOK, Pages
  <2>2. Pagedb!free_block(pages, first_usable, n)
    <3>1. \A q \in first_usable .. p - 1 : q \in Available(pages)
      BY DEF LoopInv, ScanLoop
    <3>2. p \in Available(pages)
      BY PageConstants DEF Available, Taken, TypeOK, Pages
    <3>3. \A q \in first_usable .. first_usable + n - 1 : q \in Available(pages)
      BY <1>2, <3>1, <3>2 DEF TypeOK, Word
    <3> QED
      BY <2>1, <3>3 DEF Pagedb!free_block, Available, Pages, PageReserved, PageAllocated,
         PG_reserved, PG_allocated
  <2>3. Pagedb!first_free_block(pages, first_usable, n)
    BY <2>2, NoneBefore DEF Pagedb!first_free_block
  <2>4. MapFlag' = Pagedb!page_set_flag(first_usable, n, PG_allocated)
    BY <1>1, <1>2 DEF MapFlag, Pagedb!page_set_flag, InBlock, WordAdd, Pages
  <2>5. MapNrFree' = WordSub(nr_free, n) /\ MapRet' = first_usable
    BY <1>2 DEF MapNrFree, MapRet, WordSub
  <2> QED
    BY <1>1, <1>2, <2>1, <2>3, <2>4, <2>5
    DEF Pagedb!spec_default_alloc_pages, WordSub, PG_allocated, Pages
<1>3. CASE Iterate
  BY <1>3, MapIdentity, MapIdentityNext DEF Iterate
<1> QED
  BY <1>2, <1>3

LEMMA SimScanFailed ==
  ASSUME Inv, TypeOK', ScanFailed
  PROVE  Pagedb!spec_default_alloc_pages(n) /\ pc' = "idle"
<1> USE DEF Inv, ScanFailed
<1>1. MapFlag = pages /\ MapNrFree = nr_free /\ MapFlag' = pages' /\ MapNrFree' = nr_free' /\ MapRet' = NULLPAGE
  BY MapIdentity, MapIdentityNext DEF Return
<1>2. ASSUME NEW b \in Pages PROVE ~Pagedb!free_block(pages, b, n)
  <2>1. CASE b < first_usable
    BY <2>1, NoneBefore DEF Pages, TypeOK
  <2>2. CASE b >= first_usable
    BY <2>2 DEF Pages, TypeOK, Word, LoopInv, ScanLoop, Pagedb!free_block
  <2> QED
    BY <2>1, <2>2 DEF Pages, TypeOK
<1> QED
  BY <1>1, <1>2 DEF Pagedb!spec_default_alloc_pages, Pages, Return

LEMMA SimFree ==
  ASSUME Inv, TypeOK', NEW b \in Word, NEW k \in Word, CallFree(b, k)
  PROVE  /\ FreeAllowed(b, k) /\ Pagedb!spec_default_free_pages(b, k)
         /\ pc' \in {"idle", "clear_allocated"}
<1> USE DEF Inv, CallFree, default_free_pages
<1>1. MapFlag = pages /\ MapNrFree = nr_free /\ MapRet = ret
  BY MapIdentity
<1>2. FreeAllowed(b, k)
  BY <1>1 DEF KeepsContract, FreeAllowed
<1>3. CASE ~free_pages_args(b, k) /\ Reject(Void)
  BY <1>1, <1>2, <1>3, MapIdentityNext
  DEF Reject, free_pages_args, WordAdd, Pagedb!spec_default_free_pages
<1>4. CASE free_pages_args(b, k) /\ Enter("clear_allocated", b, k)
  <2>1. MapFlag' = Pagedb!page_clear_flag(b, k, PG_allocated)
    BY <1>1, <1>4 DEF Enter, MapFlag, Pagedb!page_clear_flag, InBlock, WordAdd, Pages
  <2>2. MapNrFree' = WordAdd(nr_free, k) /\ MapRet' = Void
    BY <1>4 DEF Enter, MapNrFree, MapRet, WordAdd
  <2> QED
    BY <1>1, <1>2, <1>4, <2>1, <2>2
    DEF Enter, free_pages_args, WordAdd, PG_allocated, Pagedb!spec_default_free_pages
<1> QED
  BY <1>3, <1>4

\* Every step of DefaultPmm is an abstract step or leaves the mapped state alone.
LEMMA Simulation == Inv /\ TypeOK' /\ [Moves]_code_vars => AbstractStep \/ UNCHANGED MapVars
<1> SUFFICES ASSUME Inv, TypeOK', [Moves]_code_vars PROVE AbstractStep \/ UNCHANGED MapVars
  OBVIOUS
<1> USE DEF AbstractStep
<1>0. base \in Word /\ n \in Word
  BY DEF Inv, TypeOK
<1>1. ASSUME NEW b \in Word, NEW k \in Word, default_init_memmap(b, k)
      PROVE  AbstractStep \/ UNCHANGED MapVars
  BY <1>1, SimInitMemmap
<1>2. ASSUME NEW k \in Word, default_alloc_pages(k) PROVE AbstractStep \/ UNCHANGED MapVars
  BY <1>2, SimAlloc
<1>3. ASSUME NEW b \in Word, NEW k \in Word, CallFree(b, k)
      PROVE  AbstractStep \/ UNCHANGED MapVars
  BY <1>3, SimFree
<1>4. CASE default_nr_free_pages
  BY <1>4, MapIdentity, MapIdentityNext
  DEF Inv, default_nr_free_pages, Reject, Pagedb!spec_default_nr_free_pages
<1>5. CASE CheckReserved
  BY <1>0, <1>5, SimCheckReserved
<1>6. CASE CheckAllocated
  BY <1>0, <1>6, SimCheckAllocated
<1>7. CASE ClearReserved \/ SetAllocated \/ ClearAllocated
  BY <1>7, SimLastLoop
<1>8. CASE InitMemmapDone \/ AllocDone \/ FreeDone
  BY <1>8, SimDone
<1>9. CASE ScanTaken
  BY <1>9, MapIdentity, MapIdentityNext DEF Inv, ScanTaken, Iterate, MapVars
<1>10. CASE ScanUsable
  BY <1>0, <1>10, SimScanUsable
<1>11. CASE ScanFailed
  BY <1>0, <1>11, SimScanFailed
<1>12. CASE UNCHANGED code_vars
  BY <1>12 DEF code_vars, MapVars, MapFlag, MapNrFree, MapRet, InBlock, WordAdd, WordSub
<1> QED
  BY <1>1, <1>2, <1>3, <1>4, <1>5, <1>6, <1>7, <1>8, <1>9, <1>10, <1>11, <1>12
  DEF Moves, Step

\* While a call is under way, its arguments are the ones it was given.
OpInv ==
  /\ pc \in {"check_reserved", "check_allocated", "clear_reserved"} =>
       op = <<"init_memmap", base, n>>
  /\ pc \in {"scan", "set_allocated"} => op = <<"alloc_pages", n>>
  /\ pc = "clear_allocated" => op = <<"free_pages", base, n>>

LEMMA OpStep == OpInv /\ [Next]_vars => OpInv'
<1> SUFFICES ASSUME OpInv, [Next]_vars PROVE OpInv'
  OBVIOUS
<1> USE DEF OpInv
<1>1. ASSUME NEW b \in Word, NEW k \in Word, default_init_memmap(b, k), op' = <<"init_memmap", b, k>>
      PROVE  OpInv'
  BY <1>1 DEF default_init_memmap, Reject, Enter
<1>2. ASSUME NEW k \in Word, default_alloc_pages(k), op' = <<"alloc_pages", k>> PROVE OpInv'
  BY <1>2 DEF default_alloc_pages, Reject, Enter
<1>3. ASSUME NEW b \in Word, NEW k \in Word, CallFree(b, k), op' = <<"free_pages", b, k>>
      PROVE  OpInv'
  BY <1>3 DEF CallFree, default_free_pages, Reject, Enter
<1>4. CASE default_nr_free_pages
  BY <1>4 DEF default_nr_free_pages, Reject
<1>5. CASE (CheckReserved \/ CheckAllocated) /\ UNCHANGED op
  BY <1>5 DEF CheckReserved, CheckAllocated, Return, Iterate, NextLoop
<1>6. CASE (ClearReserved \/ SetAllocated \/ ClearAllocated) /\ UNCHANGED op
  BY <1>6 DEF ClearReserved, SetAllocated, ClearAllocated, Iterate
<1>7. CASE InitMemmapDone \/ AllocDone \/ FreeDone \/ ScanFailed
  BY <1>7 DEF InitMemmapDone, AllocDone, FreeDone, ScanFailed, Return
<1>8. CASE (ScanTaken \/ ScanUsable) /\ UNCHANGED op
  BY <1>8 DEF ScanTaken, ScanUsable, Iterate
<1>9. CASE UNCHANGED vars
  BY <1>9 DEF vars
<1> QED
  BY <1>1, <1>2, <1>3, <1>4, <1>5, <1>6, <1>7, <1>8, <1>9 DEF Next, Step

\* The abstract calls.
LEMMA CallsAre ==
  /\ \A b, k \in Word : <<"init_memmap", b, k>> \in Pagedb!Calls /\ <<"free_pages", b, k>> \in Pagedb!Calls
  /\ \A k \in Word : <<"alloc_pages", k>> \in Pagedb!Calls
  /\ <<"nr_free_pages">> \in Pagedb!Calls
  BY DEF Pagedb!Calls, Word

\* A call is made and has no effect yet.
LEMMA AsCall ==
  ASSUME op' \in Pagedb!Calls, pc = "idle", UNCHANGED MapVars,
         pc' \in {"check_reserved", "check_allocated", "scan"}
  PROVE  Pagedb!Next
  BY DEF Pagedb!Next, Pagedb!Call, MapPhase, MapVars

\* A call takes effect, and returns at once or enters its last loop.
LEMMA AsEffect ==
  ASSUME op' \in Pagedb!Calls, Pagedb!Effect(op'),
         \/ pc = "idle"
         \/ pc \in {"check_reserved", "check_allocated", "scan"} /\ op' = op,
         pc' \in {"idle", "clear_reserved", "set_allocated", "clear_allocated"}
  PROVE  Pagedb!Next
<1>1. Pagedb!TakeEffect(op')
  BY DEF Pagedb!TakeEffect, MapPhase
<1> QED
  BY <1>1 DEF Pagedb!Next

\* Every step, with the call it belongs to.
LEMMA CallStep ==
  Inv /\ TypeOK' /\ OpInv /\ [Next]_vars => [Pagedb!Next]_(Pagedb!call_vars)
<1> SUFFICES ASSUME Inv, TypeOK', OpInv, [Next]_vars
             PROVE  Pagedb!Next \/ UNCHANGED Pagedb!call_vars
  OBVIOUS
<1> USE DEF OpInv
<1>0. base \in Word /\ n \in Word
  BY DEF Inv, TypeOK
<1>1. ASSUME NEW b \in Word, NEW k \in Word, default_init_memmap(b, k), op' = <<"init_memmap", b, k>>
      PROVE  Pagedb!Next
  <2>1. CASE Pagedb!spec_default_init_memmap(b, k) /\ pc' = "idle"
    BY <1>1, <2>1, CallsAre, AsEffect DEF default_init_memmap, Pagedb!Effect
  <2>2. CASE UNCHANGED MapVars /\ pc' = "check_reserved"
    BY <1>1, <2>2, CallsAre, AsCall DEF default_init_memmap
  <2> QED
    BY <1>1, <2>1, <2>2, SimInitMemmap
<1>2. ASSUME NEW k \in Word, default_alloc_pages(k), op' = <<"alloc_pages", k>> PROVE Pagedb!Next
  <2>1. CASE Pagedb!spec_default_alloc_pages(k) /\ pc' = "idle"
    BY <1>2, <2>1, CallsAre, AsEffect DEF default_alloc_pages, Pagedb!Effect
  <2>2. CASE UNCHANGED MapVars /\ pc' = "scan"
    BY <1>2, <2>2, CallsAre, AsCall DEF default_alloc_pages
  <2> QED
    BY <1>2, <2>1, <2>2, SimAlloc
<1>3. ASSUME NEW b \in Word, NEW k \in Word, CallFree(b, k), op' = <<"free_pages", b, k>>
      PROVE  Pagedb!Next
  <2>1. Pagedb!spec_default_free_pages(b, k) /\ pc' \in {"idle", "clear_allocated"}
    BY <1>3, SimFree
  <2> QED
    BY <1>3, <2>1, CallsAre, AsEffect DEF CallFree, default_free_pages, Pagedb!Effect
<1>4. ASSUME default_nr_free_pages, op' = <<"nr_free_pages">> PROVE Pagedb!Next
  <2>1. Pagedb!spec_default_nr_free_pages /\ pc' = "idle"
    BY <1>4, MapIdentity, MapIdentityNext
    DEF Inv, default_nr_free_pages, Reject, Pagedb!spec_default_nr_free_pages
  <2> QED
    BY <1>4, <2>1, CallsAre, AsEffect DEF default_nr_free_pages, Pagedb!Effect
<1> USE DEF Pagedb!call_vars
<1>5. ASSUME CheckReserved, UNCHANGED op PROVE Pagedb!Next \/ UNCHANGED Pagedb!call_vars
  <2>1. pc = "check_reserved" /\ op' = <<"init_memmap", base, n>>
    BY <1>5 DEF CheckReserved
  <2>2. CASE Pagedb!spec_default_init_memmap(base, n) /\ pc' = "idle"
    <3>1. op' \in Pagedb!Calls
      BY <1>0, <2>1, CallsAre
    <3>2. Pagedb!Effect(op')
      BY <2>1, <2>2 DEF Pagedb!Effect
    <3> QED
      BY <1>5, <2>1, <2>2, <3>1, <3>2, AsEffect
  <2>3. CASE UNCHANGED MapVars /\ pc' \in {"check_reserved", "check_allocated"}
    BY <1>5, <2>1, <2>3 DEF MapVars, MapPhase
  <2> QED
    BY <1>5, <2>2, <2>3, SimCheckReserved
<1>6. ASSUME CheckAllocated, UNCHANGED op PROVE Pagedb!Next \/ UNCHANGED Pagedb!call_vars
  <2>1. pc = "check_allocated" /\ op' = <<"init_memmap", base, n>>
    BY <1>6 DEF CheckAllocated
  <2>2. CASE Pagedb!spec_default_init_memmap(base, n) /\ pc' = "clear_reserved"
    <3>1. op' \in Pagedb!Calls
      BY <1>0, <2>1, CallsAre
    <3>2. Pagedb!Effect(op')
      BY <2>1, <2>2 DEF Pagedb!Effect
    <3> QED
      BY <1>6, <2>1, <2>2, <3>1, <3>2, AsEffect
  <2>3. CASE UNCHANGED MapVars /\ pc' = "check_allocated"
    BY <1>6, <2>1, <2>3 DEF MapVars, MapPhase
  <2> QED
    BY <1>6, <2>2, <2>3, SimCheckAllocated
<1>7. ASSUME ClearReserved \/ SetAllocated \/ ClearAllocated, UNCHANGED op
      PROVE  UNCHANGED Pagedb!call_vars
  BY <1>7, SimLastLoop DEF MapVars, MapPhase
<1>8. ASSUME InitMemmapDone \/ AllocDone \/ FreeDone, UNCHANGED op PROVE Pagedb!Next
  <2>1. UNCHANGED MapVars /\ pc' = "idle"
    BY <1>8, SimDone
  <2>2. pc \in {"clear_reserved", "set_allocated", "clear_allocated"}
    BY <1>8 DEF InitMemmapDone, AllocDone, FreeDone
  <2>3. Pagedb!Return
    BY <1>8, <2>1, <2>2 DEF Pagedb!Return, MapVars, MapPhase
  <2> QED
    BY <2>3 DEF Pagedb!Next
<1>9. ASSUME ScanTaken, UNCHANGED op PROVE UNCHANGED Pagedb!call_vars
  BY <1>9, MapIdentity, MapIdentityNext DEF Inv, ScanTaken, Iterate, MapPhase
<1>10. ASSUME ScanUsable, UNCHANGED op PROVE Pagedb!Next \/ UNCHANGED Pagedb!call_vars
  <2>1. pc = "scan" /\ op' = <<"alloc_pages", n>>
    BY <1>10 DEF ScanUsable
  <2>2. CASE Pagedb!spec_default_alloc_pages(n) /\ pc' = "set_allocated"
    BY <1>0, <1>10, <2>1, <2>2, CallsAre, AsEffect DEF Pagedb!Effect
  <2>3. CASE UNCHANGED MapVars /\ pc' = "scan"
    BY <1>10, <2>1, <2>3 DEF MapVars, MapPhase
  <2> QED
    BY <1>10, <2>2, <2>3, SimScanUsable
<1>11. ASSUME ScanFailed, UNCHANGED op PROVE Pagedb!Next
  <2>1. pc = "scan" /\ op' = <<"alloc_pages", n>>
    BY <1>11 DEF ScanFailed
  <2>2. Pagedb!spec_default_alloc_pages(n) /\ pc' = "idle"
    BY <1>11, SimScanFailed
  <2> QED
    BY <1>0, <1>11, <2>1, <2>2, CallsAre, AsEffect DEF Pagedb!Effect
<1>12. CASE UNCHANGED vars
  BY <1>12 DEF vars, MapFlag, MapNrFree, MapRet, MapPhase, InBlock, WordAdd, WordSub
<1> QED
  BY <1>1, <1>2, <1>3, <1>4, <1>5, <1>6, <1>7, <1>8, <1>9, <1>10, <1>11, <1>12 DEF Next, Step

(***************************************************************************)
(* The allocator implements verif/llvm-spec.rkt, call by call: see         *)
(* ImplementsPagedb.                                                       *)
(***************************************************************************)
THEOREM Implementation == Spec => ImplementsPagedb
<1>1. Init => Pagedb!Init
  BY DEF Init, Pagedb!Init, Pagedb!NoCall, MapFlag, MapNrFree, MapRet, MapPhase, Pages, PG_reserved
<1>2. Init => OpInv
  BY DEF Init, OpInv
<1>3. Inv => TypeOK
  BY DEF Inv
<1> QED
  BY <1>1, <1>2, <1>3, OpStep, CallStep, Invariance, PTL DEF Spec, ImplementsPagedb, Pagedb!Spec

-----------------------------------------------------------------------------
(***************************************************************************)
(* The counter. When callers free only what is allocated, each abstract    *)
(* step keeps it equal to the number of available pages.                   *)
(***************************************************************************)
CounterInv == disciplined => MapNrFree = Cardinality(Available(MapFlag))

Block(b, k) == b .. b + k - 1

LEMMA BlockCard ==
  ASSUME NEW b \in Nat, NEW k \in Nat, k > 0
  PROVE  IsFiniteSet(Block(b, k)) /\ Cardinality(Block(b, k)) = k
<1>1. b \in Int /\ b + k - 1 \in Int /\ b <= b + k - 1
  OBVIOUS
<1> QED
  BY <1>1, FS_Interval DEF Block

LEMMA AvailableCard ==
  ASSUME NEW f
  PROVE  IsFiniteSet(Available(f)) /\ Cardinality(Available(f)) \in 0 .. NPAGE
<1>1. IsFiniteSet(Pages) /\ Cardinality(Pages) = NPAGE
  BY PageConstants, BlockCard DEF Pages, Block
<1>2. Available(f) \subseteq Pages
  BY DEF Available
<1>3. IsFiniteSet(Available(f)) /\ Cardinality(Available(f)) <= Cardinality(Pages)
  BY <1>1, <1>2, FS_Subset
<1> QED
  BY <1>1, <1>3, FS_CardinalityType, PageConstants

\* k pages that were not available become so.
LEMMA Grow ==
  ASSUME NEW f, NEW g, NEW b \in Nat, NEW k \in Nat, k > 0,
         Available(f) \cap Block(b, k) = {},
         Available(g) = Available(f) \cup Block(b, k)
  PROVE  WordAdd(Cardinality(Available(f)), k) = Cardinality(Available(g))
<1>1. Cardinality(Available(g))
        = Cardinality(Available(f)) + Cardinality(Block(b, k))
          - Cardinality(Available(f) \cap Block(b, k))
  BY AvailableCard, BlockCard, FS_Union
<1>2. Cardinality(Available(f) \cap Block(b, k)) = 0
  BY FS_EmptySet
<1>3. Cardinality(Block(b, k)) = k
  BY BlockCard
<1>4. Cardinality(Available(f)) \in 0 .. NPAGE /\ Cardinality(Available(g)) \in 0 .. NPAGE
  BY AvailableCard
<1>5. Cardinality(Available(g)) = Cardinality(Available(f)) + k
  BY ONLY <1>1, <1>2, <1>3, <1>4, PageConstants, k \in Nat
<1> QED
  BY ONLY <1>4, <1>5, PageConstants DEF WordAdd

\* k available pages are taken.
LEMMA Shrink ==
  ASSUME NEW f, NEW g, NEW b \in Nat, NEW k \in Nat, k > 0,
         Block(b, k) \subseteq Available(f),
         Available(g) = Available(f) \ Block(b, k)
  PROVE  WordSub(Cardinality(Available(f)), k) = Cardinality(Available(g))
<1>1. Cardinality(Available(g))
        = Cardinality(Available(f)) - Cardinality(Available(f) \cap Block(b, k))
  BY AvailableCard, FS_Difference
<1>2. Available(f) \cap Block(b, k) = Block(b, k)
  OBVIOUS
<1>3. Cardinality(Available(g)) = Cardinality(Available(f)) - k
  BY <1>1, <1>2, BlockCard
<1> QED
  BY <1>3, AvailableCard, PageConstants DEF WordSub

LEMMA MapType ==
  Inv => /\ MapFlag \in [Pages -> Flags]
         /\ \A q \in Pages : ~(PageReserved(MapFlag, q) /\ PageAllocated(MapFlag, q))
  BY PageConstants DEF Inv, TypeOK, NoReservedAllocated, LoopInv, SetAllocatedLoop, MapFlag, Flags,
     PageReserved, PageAllocated, PG_reserved, PG_allocated, InBlock, WordAdd, Pages, Word

\* A caller that has broken the contract is not forgiven.
LEMMA OnceUndisciplined == [Moves]_code_vars /\ disciplined' => disciplined
  BY DEF Moves, CallFree, code_vars

LEMMA CounterStep ==
  Inv /\ TypeOK' /\ CounterInv /\ [Moves]_code_vars => CounterInv'
<1> SUFFICES ASSUME Inv, CounterInv, disciplined, disciplined', AbstractStep
             PROVE  MapNrFree' = Cardinality(Available(MapFlag'))
  BY Simulation, OnceUndisciplined
  DEF CounterInv, MapVars, Available, PageReserved, PageAllocated
<1>0. MapNrFree = Cardinality(Available(MapFlag))
  BY DEF CounterInv
<1> USE PageConstants DEF Pages, Word
<1>1. ASSUME NEW b \in Word, NEW k \in Word, Pagedb!spec_default_init_memmap(b, k)
      PROVE  MapNrFree' = Cardinality(Available(MapFlag'))
  <2>1. CASE Pagedb!init_memmap_status(b, k) = 0
    <3>1. /\ k > 0 /\ b + k <= NPAGE
          /\ \A q \in Pages : b <= q /\ q < b + k =>
               PageReserved(MapFlag, q) /\ ~PageAllocated(MapFlag, q)
      BY <2>1 DEF Pagedb!init_memmap_status, PageReserved, PageAllocated, PG_reserved, PG_allocated
    <3>2. MapFlag' = [q \in Pages |-> IF b <= q /\ q < b + k THEN MapFlag[q] \ {PG_reserved}
                                                            ELSE MapFlag[q]]
      BY <1>1, <2>1, <3>1
      DEF Pagedb!spec_default_init_memmap, Pagedb!page_clear_flag, PG_reserved
    <3>3. Available(MapFlag) \cap Block(b, k) = {}
      BY <3>1 DEF Available, Block
    <3>4. Available(MapFlag') = Available(MapFlag) \cup Block(b, k)
      BY <3>1, <3>2 DEF Available, Block, PageReserved, PageAllocated, PG_reserved, PG_allocated
    <3>5. WordAdd(Cardinality(Available(MapFlag)), k) = Cardinality(Available(MapFlag'))
      <4>1. b \in Nat /\ k \in Nat /\ k > 0
        BY <3>1
      <4> QED
        BY ONLY <4>1, <3>3, <3>4, Grow, Zenon
    <3> QED
      BY <1>0, <1>1, <2>1, <3>5 DEF Pagedb!spec_default_init_memmap, WordAdd
  <2>2. CASE Pagedb!init_memmap_status(b, k) # 0
    BY <1>0, <1>1, <2>2 DEF Pagedb!spec_default_init_memmap
  <2> QED
    BY <2>1, <2>2
<1>2. ASSUME NEW k \in Word, Pagedb!spec_default_alloc_pages(k)
      PROVE  MapNrFree' = Cardinality(Available(MapFlag'))
  <2>1. CASE MapFlag' = MapFlag /\ MapNrFree' = MapNrFree
    BY <1>0, <2>1
  <2>2. ASSUME NEW b \in Pages, k > 0,
               Pagedb!first_free_block(MapFlag, b, k),
               MapFlag' = Pagedb!page_set_flag(b, k, PG_allocated),
               MapNrFree' = WordSub(MapNrFree, k)
        PROVE  MapNrFree' = Cardinality(Available(MapFlag'))
    <3>1. b + k <= NPAGE /\ \A q \in b .. b + k - 1 : q \in Available(MapFlag)
      BY <2>2 DEF Pagedb!first_free_block, Pagedb!free_block, Available, PageReserved,
         PageAllocated, PG_reserved, PG_allocated
    <3>2. MapFlag' = [q \in Pages |-> IF b <= q /\ q < b + k THEN MapFlag[q] \cup {PG_allocated}
                                                            ELSE MapFlag[q]]
      BY <2>2, <3>1 DEF Pagedb!page_set_flag
    <3>3. Block(b, k) \subseteq Available(MapFlag)
      BY <3>1 DEF Block
    <3>4. Available(MapFlag') = Available(MapFlag) \ Block(b, k)
      BY <3>1, <3>2 DEF Available, Block, PageReserved, PageAllocated, PG_reserved, PG_allocated
    <3>5. WordSub(Cardinality(Available(MapFlag)), k) = Cardinality(Available(MapFlag'))
      <4>1. b \in Nat /\ k \in Nat /\ k > 0
        BY <2>2
      <4> QED
        BY ONLY <4>1, <3>3, <3>4, Shrink, Zenon
    <3> QED
      BY <1>0, <2>2, <3>5
  <2> QED
    BY <1>2, <2>1, <2>2 DEF Pagedb!spec_default_alloc_pages, PG_allocated, WordSub
<1>3. ASSUME NEW b \in Word, NEW k \in Word, FreeAllowed(b, k),
             Pagedb!spec_default_free_pages(b, k)
      PROVE  MapNrFree' = Cardinality(Available(MapFlag'))
  <2>1. CASE free_pages_args(b, k)
    <3>1. /\ k > 0 /\ b + k <= NPAGE
          /\ \A q \in Pages : b <= q /\ q < b + k =>
               PageAllocated(MapFlag, q) /\ ~PageReserved(MapFlag, q)
      BY <1>3, <2>1, MapType DEF free_pages_args, FreeAllowed, InBlock, WordAdd
    <3>2. MapFlag' = [q \in Pages |-> IF b <= q /\ q < b + k THEN MapFlag[q] \ {PG_allocated}
                                                            ELSE MapFlag[q]]
      BY <1>3, <2>1, <3>1
      DEF Pagedb!spec_default_free_pages, Pagedb!page_clear_flag, PG_allocated, free_pages_args,
          WordAdd
    <3>3. Available(MapFlag) \cap Block(b, k) = {}
      BY <3>1 DEF Available, Block
    <3>4. Available(MapFlag') = Available(MapFlag) \cup Block(b, k)
      BY <3>1, <3>2 DEF Available, Block, PageReserved, PageAllocated, PG_reserved, PG_allocated
    <3>5. WordAdd(Cardinality(Available(MapFlag)), k) = Cardinality(Available(MapFlag'))
      <4>1. b \in Nat /\ k \in Nat /\ k > 0
        BY <3>1
      <4> QED
        BY ONLY <4>1, <3>3, <3>4, Grow, Zenon
    <3> QED
      BY <1>0, <1>3, <2>1, <3>5
      DEF Pagedb!spec_default_free_pages, free_pages_args, WordAdd
  <2>2. CASE ~free_pages_args(b, k)
    BY <1>0, <1>3, <2>2 DEF Pagedb!spec_default_free_pages, free_pages_args, WordAdd
  <2> QED
    BY <2>1, <2>2
<1>4. CASE Pagedb!spec_default_nr_free_pages
  BY <1>0, <1>4 DEF Pagedb!spec_default_nr_free_pages
<1> QED
  BY <1>1, <1>2, <1>3, <1>4 DEF AbstractStep

LEMMA CounterInit == Init => CounterInv
<1> SUFFICES ASSUME Init PROVE MapNrFree = Cardinality(Available(MapFlag))
  BY DEF CounterInv
<1>1. MapNrFree = 0 /\ MapFlag = [q \in Pages |-> {PG_reserved}]
  BY DEF Init, MapNrFree, MapFlag
<1>2. Available(MapFlag) = {}
  BY <1>1 DEF Available, PageReserved
<1> QED
  BY <1>1, <1>2, FS_EmptySet

(***************************************************************************)
(* Between calls the counter is the number of available pages, if callers  *)
(* free only what is allocated: see NrFreeIsFree.                          *)
(***************************************************************************)
THEOREM CounterExact == Spec => []NrFreeIsFree
<1>1. Inv /\ CounterInv => NrFreeIsFree
  BY MapIdentity DEF Inv, CounterInv, NrFreeIsFree
<1>2. Inv => TypeOK
  BY DEF Inv
<1> QED
  BY <1>1, <1>2, CounterInit, NextMoves, CounterStep, Invariance, PTL DEF Spec

(***************************************************************************)
(* Under the same contract the subtraction in alloc_pages never wraps: see *)
(* NoUnderflow.                                                            *)
(***************************************************************************)
THEOREM CounterNeverWraps == Spec => []NoUnderflow
<1>1. Inv /\ CounterInv => NoUnderflow
  <2> SUFFICES ASSUME Inv, CounterInv, disciplined, pc = "set_allocated"
               PROVE  n <= nr_free
    BY DEF NoUnderflow
  <2>1. WordSub(nr_free, n) \in 0 .. NPAGE
    BY AvailableCard DEF CounterInv, MapNrFree
  <2>2. nr_free \in Word /\ n \in Word /\ n <= NPAGE
    BY PageConstants DEF Inv, TypeOK, LoopInv, SetAllocatedLoop, Word
  <2> QED
    BY <2>1, <2>2, PageConstants DEF WordSub, Word
<1>2. Inv => TypeOK
  BY DEF Inv
<1> QED
  BY <1>1, <1>2, CounterInit, NextMoves, CounterStep, Invariance, PTL DEF Spec
=============================================================================
