---------------------------- MODULE PagedbProofs ----------------------------
(***************************************************************************)
(* Theorems about the verified specification of the allocator, for every   *)
(* number of pages and every word size: the conditions that                *)
(* verif/llvm-ni.rkt checks, for default_init_memmap as well, and the walk *)
(* of find-free-pages in verif/llvm-spec.rkt.                              *)
(***************************************************************************)
EXTENDS NonInterference, FindFreePages, TLAPS

\* The copies use the same pages and the same test as this module.
LEMMA SameNames ==
  /\ S!Pages = Pages /\ T!Pages = Pages
  /\ S!PG_reserved = T!PG_reserved /\ S!PG_allocated = T!PG_allocated
  /\ \A a, b : S!WordAdd(a, b) = WordAdd(a, b) /\ T!WordAdd(a, b) = WordAdd(a, b)
  /\ \A q, b, k : S!InBlock(q, b, k) = InBlock(q, b, k) /\ T!InBlock(q, b, k) = InBlock(q, b, k)
  /\ \A f, q : S!PageReserved(f, q) = PageReserved(f, q) /\ T!PageReserved(f, q) = PageReserved(f, q)
  /\ \A f, q : S!PageAllocated(f, q) = PageAllocated(f, q) /\ T!PageAllocated(f, q) = PageAllocated(f, q)
BY DEF S!Pages, T!Pages, Pages, S!PG_reserved, T!PG_reserved, PG_reserved,
       S!PG_allocated, T!PG_allocated, PG_allocated, S!WordAdd, T!WordAdd, WordAdd,
       S!InBlock, T!InBlock, InBlock, S!PageReserved, T!PageReserved, PageReserved,
       S!PageAllocated, T!PageAllocated, PageAllocated

\* A call changes no page outside its block, in either copy.
LEMMA OnlyTheBlock ==
  ASSUME NEW base \in Word, NEW k \in Word, s_flag \in [Pages -> Flags],
         FreeBoth(base, k) \/ InitMemmapBoth(base, k)
  PROVE  \A u \in Pages : ~InBlock(u, base, k) => s_flag'[u] = s_flag[u]
BY SameNames
   DEF FreeBoth, InitMemmapBoth, S!spec_default_free_pages, S!spec_default_init_memmap,
       S!page_clear_flag

\* The two statuses of init_memmap are equal when the blocks look the same.
LEMMA SameStatus ==
  ASSUME NEW base \in Word, NEW k \in Word,
         \A q \in Pages : InBlock(q, base, k) => unwinding(q)
  PROVE  S!init_memmap_status(base, k) = T!init_memmap_status(base, k)
<1>1. (\E q \in Pages : InBlock(q, base, k) /\ ~PageReserved(s_flag, q))
        <=> (\E q \in Pages : InBlock(q, base, k) /\ ~PageReserved(t_flag, q))
  BY DEF unwinding, PageReserved
<1>2. (\E q \in Pages : InBlock(q, base, k) /\ PageAllocated(s_flag, q))
        <=> (\E q \in Pages : InBlock(q, base, k) /\ PageAllocated(t_flag, q))
  BY DEF unwinding, PageAllocated
<1> QED
  BY <1>1, <1>2, SameNames DEF S!init_memmap_status, T!init_memmap_status

\* In the block both copies make the same change, or none.
LEMMA SameChange ==
  ASSUME NEW base \in Word, NEW k \in Word,
         FreeBoth(base, k) \/ InitMemmapBoth(base, k),
         s_flag \in [Pages -> Flags], t_flag \in [Pages -> Flags],
         \A q \in Pages : InBlock(q, base, k) => unwinding(q),
         NEW u \in Pages, unwinding(u)
  PROVE  unwinding(u)'
<1>1. CASE FreeBoth(base, k)
  <2>1. S!WordAdd(base, k) = T!WordAdd(base, k)
    BY SameNames
  <2>2. \/ s_flag' = s_flag /\ t_flag' = t_flag
        \/ /\ s_flag' = S!page_clear_flag(base, k, S!PG_allocated)
           /\ t_flag' = T!page_clear_flag(base, k, T!PG_allocated)
    BY <1>1, <2>1 DEF FreeBoth, S!spec_default_free_pages, T!spec_default_free_pages
  <2>3. S!page_clear_flag(base, k, S!PG_allocated)[u]
          = T!page_clear_flag(base, k, T!PG_allocated)[u]
    BY SameNames DEF S!page_clear_flag, T!page_clear_flag, S!PG_allocated, T!PG_allocated, unwinding
  <2> QED
    BY <2>2, <2>3 DEF unwinding
<1>2. CASE InitMemmapBoth(base, k)
  <2>1. \/ s_flag' = s_flag /\ t_flag' = t_flag
        \/ /\ s_flag' = S!page_clear_flag(base, k, S!PG_reserved)
           /\ t_flag' = T!page_clear_flag(base, k, T!PG_reserved)
    BY <1>2, SameStatus
       DEF InitMemmapBoth, S!spec_default_init_memmap, T!spec_default_init_memmap
  <2>2. S!page_clear_flag(base, k, S!PG_reserved)[u]
          = T!page_clear_flag(base, k, T!PG_reserved)[u]
    BY SameNames DEF S!page_clear_flag, T!page_clear_flag, S!PG_reserved, T!PG_reserved, unwinding
  <2> QED
    BY <2>1, <2>2 DEF unwinding
<1> QED BY <1>1, <1>2

FlagTypes == s_flag \in [Pages -> Flags] /\ t_flag \in [Pages -> Flags]

LEMMA FlagsTyped == Spec => []FlagTypes
<1>1. Init => FlagTypes BY DEF Init, FlagTypes
<1>2. FlagTypes /\ [Next]_vars => FlagTypes'
  <2> SUFFICES ASSUME FlagTypes, [Next]_vars PROVE FlagTypes'
    OBVIOUS
  <2>1. ASSUME NEW base \in Word, NEW k \in Word, FreeBoth(base, k) PROVE FlagTypes'
    BY <2>1, SameNames DEF FlagTypes, FreeBoth, S!spec_default_free_pages, T!spec_default_free_pages,
                S!page_clear_flag, T!page_clear_flag, Flags
  <2>2. ASSUME NEW base \in Word, NEW k \in Word, InitMemmapBoth(base, k) PROVE FlagTypes'
    BY <2>2, SameNames DEF FlagTypes, InitMemmapBoth, S!spec_default_init_memmap,
                T!spec_default_init_memmap, S!page_clear_flag, T!page_clear_flag, Flags
  <2>3. CASE UNCHANGED vars BY <2>3 DEF vars, FlagTypes
  <2> QED BY <2>1, <2>2, <2>3 DEF Next
<1> QED BY <1>1, <1>2, PTL DEF Spec

\* Every step is a call, with its block recorded.
LEMMA StepIsCall ==
  ASSUME Next
  PROVE  \E base, k \in Word :
           /\ FreeBoth(base, k) \/ InitMemmapBoth(base, k)
           /\ \A q \in Pages : Acting(q)' <=> InBlock(q, base, k)
BY DEF Next, FreeBoth, InitMemmapBoth, Acting, InBlock

(***************************************************************************)
(* Weak step consistency of default_free_pages and default_init_memmap,    *)
(* for every NPAGE: verify-weak-step-consistency of llvm-ni.rkt.           *)
(***************************************************************************)
THEOREM StepConsistent == Spec => WeakStepConsistency
<1>1. FlagTypes /\ [Next]_vars =>
        [\A u \in Pages :
           /\ unwinding(u)
           /\ \A q \in Pages : Acting(q)' => unwinding(q)
           => unwinding(u)']_vars
  <2> SUFFICES ASSUME FlagTypes, Next, NEW u \in Pages, unwinding(u),
                      \A q \in Pages : Acting(q)' => unwinding(q)
               PROVE  unwinding(u)'
    OBVIOUS
  <2>1. PICK base, k \in Word :
          /\ FreeBoth(base, k) \/ InitMemmapBoth(base, k)
          /\ \A q \in Pages : Acting(q)' <=> InBlock(q, base, k)
    BY StepIsCall
  <2> QED BY <2>1, SameChange DEF FlagTypes
<1> QED BY <1>1, FlagsTyped, PTL DEF Spec, WeakStepConsistency

(***************************************************************************)
(* Local respect, for every NPAGE: verify-local-respect of llvm-ni.rkt.    *)
(***************************************************************************)
THEOREM RespectsLocality == Spec => LocalRespect
<1>1. FlagTypes /\ [Next]_vars =>
        [\A u \in Pages : ~Acting(u)' => s_flag'[u] = s_flag[u]]_vars
  <2> SUFFICES ASSUME FlagTypes, Next, NEW u \in Pages, ~Acting(u)'
               PROVE  s_flag'[u] = s_flag[u]
    OBVIOUS
  <2>1. PICK base, k \in Word :
          /\ FreeBoth(base, k) \/ InitMemmapBoth(base, k)
          /\ \A q \in Pages : Acting(q)' <=> InBlock(q, base, k)
    BY StepIsCall
  <2> QED BY <2>1, OnlyTheBlock DEF FlagTypes
<1> QED BY <1>1, FlagsTyped, PTL DEF Spec, LocalRespect

(***************************************************************************)
(* The status a caller gets depends on its block alone.                    *)
(***************************************************************************)
THEOREM ConsistentOutput == Spec => OutputConsistency
<1>1. [Next]_vars =>
        [(\A q \in Pages : Acting(q)' => unwinding(q)) => s_ret' = t_ret']_vars
  <2> SUFFICES ASSUME Next, \A q \in Pages : Acting(q)' => unwinding(q)
               PROVE  s_ret' = t_ret'
    OBVIOUS
  <2>1. PICK base, k \in Word :
          /\ FreeBoth(base, k) \/ InitMemmapBoth(base, k)
          /\ \A q \in Pages : Acting(q)' <=> InBlock(q, base, k)
    BY StepIsCall
  <2>2. CASE FreeBoth(base, k)
    BY <2>2, SameNames DEF FreeBoth, S!spec_default_free_pages, T!spec_default_free_pages
  <2>3. CASE InitMemmapBoth(base, k)
    BY <2>1, <2>3, SameStatus
       DEF InitMemmapBoth, S!spec_default_init_memmap, T!spec_default_init_memmap
  <2> QED BY <2>1, <2>2, <2>3
<1> QED BY <1>1, PTL DEF Spec, OutputConsistency

-----------------------------------------------------------------------------
LEMMA WalkInit == FindInit => WalkInv
  BY PageConstants DEF FindInit, WalkInv, Pages

LEMMA WalkStep == WalkInv /\ [FindNext]_find_vars => WalkInv'
<1> SUFFICES ASSUME WalkInv, [FindNext]_find_vars PROVE WalkInv'
  OBVIOUS
<1> USE PageConstants DEF WalkInv
<1>1. CASE Success
  BY <1>1 DEF Success
<1>2. CASE Failure
  BY <1>2 DEF Failure
<1>3. CASE Continue
  <2> USE <1>3 DEF Continue
  <2>1. lst' - acc' = lst - acc
    OBVIOUS
  <2>2. \A q \in lst - acc .. lst : q \in Available(flag)
    OBVIOUS
  <2>3. \A q \in lst' - acc' .. lst' - 1 : q \in Available(flag)
    BY <2>1, <2>2
  <2>4. \A c \in 0 .. lst' - acc' - 1 : \E q \in c .. c + num - 1 : q \notin Available(flag)
    <3>1. \A c \in 0 .. lst - acc - 1 : \E q \in c .. c + num - 1 : q \notin Available(flag)
      OBVIOUS
    <3> QED
      BY ONLY <2>1, <3>1
  <2>5. acc' > 0 => ans' = lst' - acc'
    OBVIOUS
  <2> HIDE <1>3
  <2> QED
    BY <1>3, <2>3, <2>4, <2>5
<1>4. CASE Restart
  <2> USE <1>4 DEF Restart
  <2>1. ASSUME NEW c \in 0 .. lst
        PROVE  \E q \in c .. c + num - 1 : q \notin Available(flag)
    <3>1. CASE c < lst - acc
      <4>1. \A d \in 0 .. lst - acc - 1 : \E q \in d .. d + num - 1 : q \notin Available(flag)
        OBVIOUS
      <4>2. c \in 0 .. lst - acc - 1
        BY <3>1
      <4> QED
        BY ONLY <4>1, <4>2
    <3>2. CASE c >= lst - acc
      BY <3>2
    <3> QED
      BY <3>1, <3>2
  <2>2. \A c \in 0 .. lst' - acc' - 1 : \E q \in c .. c + num - 1 : q \notin Available(flag)
    <3>1. lst' - acc' - 1 = lst
      OBVIOUS
    <3> QED
      BY ONLY <2>1, <3>1
  <2> QED
    BY <2>2
<1>5. CASE UNCHANGED find_vars
  BY <1>5 DEF find_vars
<1> QED
  BY <1>1, <1>2, <1>3, <1>4, <1>5 DEF FindNext

(***************************************************************************)
(* At every call of find-free-accumulate the acc pages before lst are      *)
(* available and no block of the size asked for starts before them: see    *)
(* WalkInv.                                                                *)
(***************************************************************************)
THEOREM WalkCorrect == FindSpec => []WalkInv
  BY WalkInit, WalkStep, PTL DEF FindSpec

LEMMA WalkAnswer == WalkInv => AnswersFirstFit
<1> SUFFICES ASSUME WalkInv PROVE AnswersFirstFit
  OBVIOUS
<1>1. ASSUME NEW c \in 0 .. lst - acc - 1 PROVE ~free_block(flag, c, num)
  <2>1. \A d \in 0 .. lst - acc - 1 : \E q \in d .. d + num - 1 : q \notin Available(flag)
    BY DEF WalkInv
  <2>2. PICK q \in c .. c + num - 1 : q \notin Available(flag)
    BY ONLY <2>1
  <2> QED
    BY <2>2 DEF free_block
<1>2. ASSUME result = "found" PROVE first_free_block(flag, ans, num)
  <2>1. acc = num /\ ans = lst - acc /\ ans + num = lst /\ lst <= NPAGE
    BY <1>2, PageConstants DEF WalkInv
  <2>2. \A q \in ans .. ans + num - 1 : q \in Available(flag)
    BY <2>1 DEF WalkInv
  <2> QED
    BY <1>1, <2>1, <2>2 DEF first_free_block, free_block
<1>3. ASSUME result = "failed", NEW b \in Pages PROVE ~free_block(flag, b, num)
  <2>1. acc < num /\ lst = NPAGE
    BY <1>3, PageConstants DEF WalkInv
  <2>2. CASE b < lst - acc
    BY <1>1, <2>2, PageConstants DEF WalkInv, Pages
  <2>3. CASE b >= lst - acc
    BY <2>1, <2>3, PageConstants DEF WalkInv, Pages, free_block
  <2> QED
    BY <2>2, <2>3, PageConstants DEF WalkInv, Pages
<1> QED
  BY <1>2, <1>3 DEF AnswersFirstFit

(***************************************************************************)
(* find-free-pages answers the first block that fits and #f only when none *)
(* does: see AnswersFirstFit.                                              *)
(***************************************************************************)
THEOREM FirstFit == FindSpec => []AnswersFirstFit
  BY WalkCorrect, WalkAnswer, PTL
=============================================================================
