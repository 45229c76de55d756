----------------------------- MODULE PagedbSpec -----------------------------
(***************************************************************************)
(* The specification of the page allocator, verif/llvm-spec.rkt: what each *)
(* method of default_pmm_manager does to the page database, in one step.   *)
(* The repository checks it against the LLVM code for NPAGE = 5; here      *)
(* PagedbCalls makes calls of these methods the abstract specification     *)
(* that DefaultPmm implements. Which block find-free-pages answers is      *)
(* stated by first_free_block; FindFreePages shows that the walk of the    *)
(* source answers that block.                                              *)
(***************************************************************************)
EXTENDS PageDefs

VARIABLES
  nrfree,   \* the count of free pages
  flag,     \* pagedb.flag: page number -> flags
  ret       \* a0, the value the last call returned

\* Mutant: the pages from base on are cleared, to the end of the array.
page_clear_flag_rest(base, num, bit) ==
  [q \in Pages |-> IF base <= q THEN flag[q] \ {bit} ELSE flag[q]]

\* page-clear-flag-func! and page-set-flag-func! over [base, base + num).
page_clear_flag(base, num, bit) ==
  [q \in Pages |-> IF InBlock(q, base, num) THEN flag[q] \ {bit} ELSE flag[q]]
page_set_flag(base, num, bit) ==
  [q \in Pages |-> IF InBlock(q, base, num) THEN flag[q] \cup {bit} ELSE flag[q]]

\* Mutant: the scans of the block run to the end of the array.
init_memmap_status_rest(base, num) ==
  IF ~(num > 0) THEN 1
  ELSE IF ~(num <= NPAGE) THEN 2
  ELSE IF ~(base <= NPAGE) THEN 3
  ELSE IF ~(WordAdd(base, num) <= NPAGE) THEN 4
  ELSE IF \E q \in Pages : base <= q /\ ~PageReserved(flag, q) THEN 5
  ELSE IF \E q \in Pages : base <= q /\ PageAllocated(flag, q) THEN 6
  ELSE 0

\* The status spec-default_init_memmap returns, by the first test that fails.
init_memmap_status(base, num) ==
  IF ~(num > 0) THEN 1
  ELSE IF ~(num <= NPAGE) THEN 2
  ELSE IF ~(base <= NPAGE) THEN 3
  ELSE IF ~(WordAdd(base, num) <= NPAGE) THEN 4
  ELSE IF \E q \in Pages : InBlock(q, base, num) /\ ~PageReserved(flag, q) THEN 5
  ELSE IF \E q \in Pages : InBlock(q, base, num) /\ PageAllocated(flag, q) THEN 6
  ELSE 0

spec_default_init_memmap(base, num) ==
  /\ ret' = init_memmap_status(base, num)
  /\ \/ /\ init_memmap_status(base, num) = 0
        /\ flag' = page_clear_flag(base, num, PG_reserved)
        /\ nrfree' = WordAdd(nrfree, num)
     \/ /\ init_memmap_status(base, num) # 0
        /\ UNCHANGED <<flag, nrfree>>

spec_default_alloc_pages(num) ==
  \/ /\ num > 0 /\ num <= NPAGE
     /\ \E b \in Pages :
          /\ first_free_block(flag, b, num)
          /\ flag' = page_set_flag(b, num, PG_allocated)
          /\ ret' = b
     /\ nrfree' = WordSub(nrfree, num)
  \/ /\ num > 0 /\ num <= NPAGE => \A b \in Pages : ~free_block(flag, b, num)
     /\ ret' = NULLPAGE
     /\ UNCHANGED <<flag, nrfree>>

spec_default_free_pages(base, num) ==
  /\ ret' = Void
  /\ LET accepted == /\ ~(base >= NPAGE)
                     /\ ~(num = 0)
                     /\ ~(num > NPAGE)
                     /\ ~(WordAdd(base, num) > NPAGE)
     IN  \/ /\ accepted
            /\ flag' = page_clear_flag(base, num, PG_allocated)
            /\ nrfree' = WordAdd(nrfree, num)
         \/ /\ ~accepted
            /\ UNCHANGED <<flag, nrfree>>

spec_default_nr_free_pages ==
  /\ ret' = nrfree
  /\ UNCHANGED <<flag, nrfree>>
=============================================================================
