----------------------------- MODULE DefaultPmm -----------------------------
(***************************************************************************)
(* kern/mm/default_pmm.c, the first-fit page allocator, one loop iteration *)
(* per step. A call starts when the manager is idle; the locals of the     *)
(* method live in base, n, p, page and first_usable and are dropped when   *)
(* it returns.                                                             *)
(*                                                                         *)
(* The callers are the environment. They pass any words. One history       *)
(* variable holds the call as they made it, another tells whether they     *)
(* have so far kept the contract that every caller in the kernel keeps:    *)
(* free_pages is only called on pages that are allocated.                  *)
(***************************************************************************)
EXTENDS PageDefs

VARIABLES
  nr_free,        \* the global counter
  pages,          \* the global descriptor array
  pc,             \* which loop of which method is running
  base, n,        \* arguments of the running method
  p,              \* its loop counter
  page,           \* alloc_pages: the block found
  first_usable,   \* alloc_pages: head of the run being scanned
  ret,            \* the value the last call returned
  disciplined,    \* history: no page was freed that was not allocated
  op              \* history: the last call, with the arguments it was given

vars == <<nr_free, pages, pc, base, n, p, page, first_usable, ret, disciplined, op>>

(***************************************************************************)
(* Calling and returning.                                                  *)
(***************************************************************************)
Enter(loop, b, k) ==
  /\ pc' = loop
  /\ base' = b
  /\ n' = k
  /\ UNCHANGED <<p, page, first_usable, ret>>

Return(v) ==
  /\ pc' = "idle"
  /\ ret' = v
  /\ base' = 0 /\ n' = 0 /\ p' = 0 /\ page' = 0 /\ first_usable' = 0

\* A method that returns before its first loop.
Reject(v) ==
  /\ ret' = v
  /\ UNCHANGED <<pc, base, n, p, page, first_usable>>

\* ++p, and the fall through from one loop to the next.
Iterate == p' = p + 1 /\ UNCHANGED <<pc, base, n, page, ret>>
NextLoop(loop) ==
  /\ p = NPAGE
  /\ pc' = loop
  /\ p' = 0
  /\ UNCHANGED <<base, n, page, first_usable, ret>>

(***************************************************************************)
(* default_init_memmap                                                     *)
(***************************************************************************)
init_memmap_args(b, k) ==
  IF ~(k > 0) THEN 1
  ELSE IF ~(k <= NPAGE) THEN 2
  ELSE IF ~(b <= NPAGE) THEN 3
  ELSE IF ~(WordAdd(b, k) <= NPAGE) THEN 4
  ELSE 0

default_init_memmap(b, k) ==
  /\ pc = "idle"
  /\ \/ init_memmap_args(b, k) # 0 /\ Reject(init_memmap_args(b, k))
     \/ init_memmap_args(b, k) = 0 /\ Enter("check_reserved", b, k)
  /\ UNCHANGED <<nr_free, pages>>

CheckReserved ==
  /\ pc = "check_reserved"
  /\ \/ /\ p < NPAGE
        /\ InBlock(p, base, n) /\ ~PageReserved(pages, p)
        /\ Return(5)
     \/ /\ p < NPAGE
        /\ InBlock(p, base, n) => PageReserved(pages, p)
        /\ Iterate
        /\ UNCHANGED first_usable
     \/ NextLoop("check_allocated")
  /\ UNCHANGED <<nr_free, pages>>

CheckAllocated ==
  /\ pc = "check_allocated"
  /\ \/ /\ p < NPAGE
        /\ InBlock(p, base, n) /\ PageAllocated(pages, p)
        /\ Return(6)
     \/ /\ p < NPAGE
        /\ InBlock(p, base, n) => ~PageAllocated(pages, p)
        /\ Iterate
        /\ UNCHANGED first_usable
     \/ NextLoop("clear_reserved")
  /\ UNCHANGED <<nr_free, pages>>

ClearReserved ==
  /\ pc = "clear_reserved"
  /\ p < NPAGE
  /\ pages' = IF InBlock(p, base, n) THEN clear_bit(pages, p, PG_reserved) ELSE pages
  /\ Iterate
  /\ UNCHANGED <<nr_free, first_usable>>

\* Mutant: the pages are released but not counted.
InitMemmapDoneUncounted ==
  /\ pc = "clear_reserved"
  /\ p = NPAGE
  /\ Return(0)
  /\ UNCHANGED <<pages, nr_free>>

InitMemmapDone ==
  /\ pc = "clear_reserved"
  /\ p = NPAGE
  /\ nr_free' = WordAdd(nr_free, n)
  /\ Return(0)
  /\ UNCHANGED pages

(***************************************************************************)
(* default_alloc_pages: the scan keeps the head of the current run of      *)
(* usable pages and stops at the first run that is n pages long.           *)
(***************************************************************************)
\* Mutant: "n < NPAGE", so that a request for all pages is refused.
default_alloc_pages_strict(k) ==
  /\ pc = "idle"
  /\ \/ ~(k > 0 /\ k < NPAGE) /\ Reject(NULLPAGE)
     \/ k > 0 /\ k < NPAGE /\ Enter("scan", 0, k)
  /\ UNCHANGED <<nr_free, pages>>

default_alloc_pages(k) ==
  /\ pc = "idle"
  /\ \/ ~(k > 0 /\ k <= NPAGE) /\ Reject(NULLPAGE)
     \/ k > 0 /\ k <= NPAGE /\ Enter("scan", 0, k)
  /\ UNCHANGED <<nr_free, pages>>

\* Mutant: reserved pages are not passed over.
TakenAllocated(q) == PageAllocated(pages, q)

Taken(q) == PageReserved(pages, q) \/ PageAllocated(pages, q)

\* Mutant: the next run is taken to start at the page that ended the last.
ScanTakenOffByOne ==
  /\ pc = "scan"
  /\ p < NPAGE
  /\ Taken(p)
  /\ first_usable' = p
  /\ Iterate
  /\ UNCHANGED <<nr_free, pages>>

ScanTaken ==
  /\ pc = "scan"
  /\ p < NPAGE
  /\ Taken(p)
  /\ first_usable' = p + 1
  /\ Iterate
  /\ UNCHANGED <<nr_free, pages>>

\* Mutant: "p - first_usable == n", a run one page too long.
ScanUsableOffByOne ==
  /\ pc = "scan"
  /\ p < NPAGE
  /\ ~Taken(p)
  /\ \/ /\ p - first_usable = n
        /\ page' = first_usable
        /\ pc' = "set_allocated"
        /\ p' = 0
        /\ UNCHANGED <<base, n, ret>>
     \/ /\ p - first_usable # n
        /\ Iterate
  /\ UNCHANGED <<nr_free, pages, first_usable>>

ScanUsable ==
  /\ pc = "scan"
  /\ p < NPAGE
  /\ ~Taken(p)
  /\ \/ /\ p - first_usable + 1 = n
        /\ page' = first_usable
        /\ pc' = "set_allocated"
        /\ p' = 0
        /\ UNCHANGED <<base, n, ret>>
     \/ /\ p - first_usable + 1 # n
        /\ Iterate
  /\ UNCHANGED <<nr_free, pages, first_usable>>

ScanFailed ==
  /\ pc = "scan"
  /\ p = NPAGE
  /\ Return(NULLPAGE)
  /\ UNCHANGED <<nr_free, pages>>

SetAllocated ==
  /\ pc = "set_allocated"
  /\ p < NPAGE
  /\ pages' = IF InBlock(p, page, n) THEN set_bit(pages, p, PG_allocated) ELSE pages
  /\ Iterate
  /\ UNCHANGED <<nr_free, first_usable>>

AllocDone ==
  /\ pc = "set_allocated"
  /\ p = NPAGE
  /\ nr_free' = WordSub(nr_free, n)
  /\ Return(page)
  /\ UNCHANGED pages

(***************************************************************************)
(* default_free_pages: no look at the flags of the pages given back.       *)
(***************************************************************************)
free_pages_args(b, k) ==
  /\ ~(b >= NPAGE)
  /\ ~(k = 0)
  /\ ~(k > NPAGE)
  /\ ~(WordAdd(b, k) > NPAGE)

default_free_pages(b, k) ==
  /\ pc = "idle"
  /\ \/ ~free_pages_args(b, k) /\ Reject(Void)
     \/ free_pages_args(b, k) /\ Enter("clear_allocated", b, k)
  /\ UNCHANGED <<nr_free, pages>>

\* Mutant: the loop advances only over the pages of the block.
ClearAllocatedStuck ==
  /\ pc = "clear_allocated"
  /\ p < NPAGE
  /\ InBlock(p, base, n)
  /\ pages' = clear_bit(pages, p, PG_allocated)
  /\ Iterate
  /\ UNCHANGED <<nr_free, first_usable>>

ClearAllocated ==
  /\ pc = "clear_allocated"
  /\ p < NPAGE
  /\ pages' = IF InBlock(p, base, n) THEN clear_bit(pages, p, PG_allocated) ELSE pages
  /\ Iterate
  /\ UNCHANGED <<nr_free, first_usable>>

\* Mutant: the pages are given back but not counted.
FreeDoneUncounted ==
  /\ pc = "clear_allocated"
  /\ p = NPAGE
  /\ Return(Void)
  /\ UNCHANGED <<pages, nr_free>>

FreeDone ==
  /\ pc = "clear_allocated"
  /\ p = NPAGE
  /\ nr_free' = WordAdd(nr_free, n)
  /\ Return(Void)
  /\ UNCHANGED pages

default_nr_free_pages ==
  /\ pc = "idle"
  /\ Reject(nr_free)
  /\ UNCHANGED <<nr_free, pages>>

(***************************************************************************)
(* The callers, and the specification. Init is the state after             *)
(* default_init and the descriptor loop of page_init.                      *)
(***************************************************************************)
KeepsContract(b, k) ==
  free_pages_args(b, k) => \A q \in Pages : InBlock(q, b, k) => PageAllocated(pages, q)

Init ==
  /\ nr_free = 0
  /\ pages = [q \in Pages |-> {PG_reserved}]
  /\ pc = "idle"
  /\ base = 0 /\ n = 0 /\ p = 0 /\ page = 0 /\ first_usable = 0
  /\ ret = Void
  /\ disciplined = TRUE /\ op = <<"none">>

Step ==
  \/ CheckReserved \/ CheckAllocated \/ ClearReserved \/ InitMemmapDone
  \/ ScanTaken \/ ScanUsable \/ ScanFailed \/ SetAllocated \/ AllocDone
  \/ ClearAllocated \/ FreeDone

CallFree(b, k) ==
  /\ default_free_pages(b, k)
  /\ disciplined' = (disciplined /\ KeepsContract(b, k))

Next ==
  \/ \E b, k \in Word : /\ default_init_memmap(b, k)
                         /\ op' = <<"init_memmap", b, k>> /\ UNCHANGED disciplined
  \/ \E k \in Word : default_alloc_pages(k) /\ op' = <<"alloc_pages", k>> /\ UNCHANGED disciplined
  \/ \E b, k \in Word : CallFree(b, k) /\ op' = <<"free_pages", b, k>>
  \/ default_nr_free_pages /\ op' = <<"nr_free_pages">> /\ UNCHANGED disciplined
  \/ Step /\ UNCHANGED <<disciplined, op>>

Spec     == Init /\ [][Next]_vars
FairSpec == Spec /\ WF_vars(Step /\ UNCHANGED <<disciplined, op>>)

-----------------------------------------------------------------------------
(***************************************************************************)
(* Properties.                                                             *)
(***************************************************************************)
Loops == {"idle", "check_reserved", "check_allocated", "clear_reserved",
          "scan", "set_allocated", "clear_allocated"}

\* Type invariant: nr_free stays a word, the loop counter stays in the array.
TypeOK ==
  /\ nr_free \in Word
  /\ pages \in [Pages -> Flags]
  /\ pc \in Loops
  /\ base \in Word
  /\ n \in Word
  /\ p \in 0 .. NPAGE
  /\ page \in Word
  /\ first_usable \in 0 .. NPAGE
  /\ ret \in Word \cup {Void}
  /\ disciplined \in BOOLEAN

(***************************************************************************)
(* Whatever the callers do, the two flags of a page are never set at once: *)
(* alloc_pages passes over reserved pages and init_memmap leaves allocated *)
(* pages alone. So status 6 of default_init_memmap is never returned.      *)
(***************************************************************************)
NoReservedAllocated ==
  \A q \in Pages : ~(PageReserved(pages, q) /\ PageAllocated(pages, q))

(***************************************************************************)
(* As long as the callers keep their contract, between calls               *)
(* nr_free_pages() answers "the number of free pages" (pmm.h): the pages   *)
(* default_check counts as neither reserved nor allocated.                 *)
(***************************************************************************)
NrFreeIsFree ==
  disciplined /\ pc = "idle" => nr_free = Cardinality(Available(pages))

(***************************************************************************)
(* Under the same contract "nr_free -= n" never wraps: a block is only     *)
(* found when the counter says that at least n pages are free.             *)
(***************************************************************************)
NoUnderflow ==
  disciplined /\ pc = "set_allocated" => n <= nr_free

(***************************************************************************)
(* What each loop of default_pmm.c has established when it is at p, and    *)
(* what the loops before it left behind. This is the invariant the proofs  *)
(* rest on.                                                                *)
(***************************************************************************)
InitMemmapLoops ==
  pc \in {"check_reserved", "check_allocated", "clear_reserved"} =>
    /\ n > 0 /\ n <= NPAGE /\ base + n <= NPAGE
    /\ \A q \in Pages : base <= q /\ q < base + n =>
         /\ pc = "check_reserved" /\ q < p => PageReserved(pages, q)
         /\ pc = "check_allocated" => PageReserved(pages, q)
         /\ pc = "check_allocated" /\ q < p => ~PageAllocated(pages, q)
         /\ pc = "clear_reserved" => ~PageAllocated(pages, q)
         /\ pc = "clear_reserved" => (PageReserved(pages, q) <=> q >= p)

\* No block of n available pages starts before first_usable.
ScanLoop ==
  pc = "scan" =>
    /\ n > 0 /\ n <= NPAGE
    /\ first_usable <= p /\ p < first_usable + n
    /\ \A q \in first_usable .. p - 1 : q \in Available(pages)
    /\ \A c \in 0 .. first_usable - 1 : \E q \in c .. c + n - 1 : q \notin Available(pages)

SetAllocatedLoop ==
  pc = "set_allocated" =>
    /\ n > 0 /\ page + n <= NPAGE
    /\ \A q \in Pages : page <= q /\ q < page + n =>
         /\ ~PageReserved(pages, q)
         /\ PageAllocated(pages, q) <=> q < p

ClearAllocatedLoop ==
  pc = "clear_allocated" =>
    /\ n > 0 /\ base + n <= NPAGE
    /\ \A q \in Pages : base <= q /\ q < base + n =>
         /\ q < p => ~PageAllocated(pages, q)
         /\ disciplined /\ q >= p => PageAllocated(pages, q)

LoopInv ==
  /\ pc = "idle" => p = 0 /\ first_usable = 0
  /\ InitMemmapLoops
  /\ ScanLoop
  /\ SetAllocatedLoop
  /\ ClearAllocatedLoop

\* Every call returns: no loop skips its increment or waits for anything.
CallsReturn == (pc # "idle") ~> (pc = "idle")

(***************************************************************************)
(* Refinement. A call takes effect when it enters its last loop (or        *)
(* returns, if it has none): from there on its effect is decided, and the  *)
(* abstract state already shows it.                                        *)
(***************************************************************************)
MapFlag ==
  [q \in Pages |->
     IF pc = "clear_reserved" /\ InBlock(q, base, n) THEN pages[q] \ {PG_reserved}
     ELSE IF pc = "set_allocated" /\ InBlock(q, page, n) THEN pages[q] \cup {PG_allocated}
     ELSE IF pc = "clear_allocated" /\ InBlock(q, base, n) THEN pages[q] \ {PG_allocated}
     ELSE pages[q]]

MapNrFree ==
  IF pc \in {"clear_reserved", "clear_allocated"} THEN WordAdd(nr_free, n)
  ELSE IF pc = "set_allocated" THEN WordSub(nr_free, n)
  ELSE nr_free

MapRet ==
  IF pc = "clear_reserved" THEN 0
  ELSE IF pc = "set_allocated" THEN page
  ELSE IF pc = "clear_allocated" THEN Void
  ELSE ret

MapPhase ==
  IF pc = "idle" THEN "idle"
  ELSE IF pc \in {"check_reserved", "check_allocated", "scan"} THEN "called"
  ELSE "done"

Pagedb == INSTANCE PagedbCalls
            WITH nrfree <- MapNrFree, flag <- MapFlag, ret <- MapRet, phase <- MapPhase

(***************************************************************************)
(* The loops of default_pmm.c implement verif/llvm-spec.rkt: every call,   *)
(* with any words as arguments and in any state, takes effect once, in one *)
(* step, and this is what the specification says of that method with these *)
(* arguments. In particular alloc_pages(n) answers the first block of n    *)
(* pages that fits, and NULLPAGE only if none does; init_memmap refuses a  *)
(* block, and free_pages ignores one, only for the reasons specified.      *)
(***************************************************************************)
ImplementsPagedb == Pagedb!Spec
=============================================================================
