--------------------------- MODULE PmmBootProofs ---------------------------
(***************************************************************************)
(* Theorems about PmmBoot, for every page size, number of pages, length of *)
(* the page table and end of the kernel image, under the agreement of the  *)
(* linker script, entry.S and memlayout.h that LayoutConstants states. The *)
(* invariant follows the boot step by step: after page_init the pages      *)
(* below the end of the image are reserved and the others free, but for    *)
(* the blocks that default_check holds, which are always the lowest pages  *)
(* above the image.                                                        *)
(***************************************************************************)
EXTENDS PmmBoot, FiniteSetTheorems, TLAPS

\* The first page that is wholly above the image, and the number of pages
\* from there on; Above may lie past the end of memory.
Above == (end - PHYSICAL_MEMORY_OFFSET + PGSIZE - 1) \div PGSIZE - NBASE
Room  == IF Above < NPAGE THEN NPAGE - Above ELSE 0
\* The pages when default_check holds those from Above + lo to Above + hi -
\* 1.
Held(lo, hi) ==
  [q \in Pages |-> IF q < Above THEN {PG_reserved}
                   ELSE IF Above + lo <= q /\ q < Above + hi THEN {PG_allocated} ELSE {}]
GlobalsSet == va_pa_offset = PHYSICAL_MEMORY_OFFSET /\ nbase = NBASE /\ npage = NBASE + NPAGE
\* The allocator and the globals of pmm.c then.
Laid(lo, hi) == /\ GlobalsSet /\ hi <= Room
                /\ pages = Held(lo, hi) /\ nr_free = Room - (hi - lo)
\* The locals of default_check after its first loop.
Counted == /\ not_allocated = Cardinality(WholePagesAbove)
           /\ not_reserved = Cardinality(WholePagesAbove)
\* The image ends inside the last page: pa2page is then called with an
\* address past memory and panics.
EndsInLastPage ==
  /\ end - PHYSICAL_MEMORY_OFFSET > (NBASE + NPAGE - 1) * PGSIZE
  /\ end - PHYSICAL_MEMORY_OFFSET < (NBASE + NPAGE) * PGSIZE

Early  == {"kern_entry", "clear_bss", "init_pmm_manager", "page_init"}
Labels == Early \cup {"map_memory", "count", "alloc_p0", "alloc_p1", "alloc_p2", "compare",
                      "free_p0", "free_p1", "free_p2", "alloc_5", "free_5", "recount", "satp",
                      "booted", "panic"}

TypeInv == end \in Nat /\ end >= edata /\ blk \in [1 .. 4 -> Int] /\ pc \in Labels

\* What default_check holds at each of its calls.
PcInv ==
  /\ pc = "page_init" => nr_free = 0
  /\ pc = "map_memory" => GlobalsSet /\ pages = [q \in Pages |-> {PG_reserved}] /\ nr_free = 0
  /\ pc = "count" => Laid(0, 0)
  /\ pc = "alloc_p0" => Laid(0, 0) /\ Counted
  /\ pc = "alloc_p1" => Laid(0, 1) /\ Counted
  /\ pc = "alloc_p2" => Laid(0, 2) /\ Counted
  /\ pc \in {"compare", "free_p0"} => Laid(0, 3) /\ Counted
  /\ pc = "free_p1" => Laid(1, 3) /\ Counted
  /\ pc = "free_p2" => Laid(2, 3) /\ Counted
  /\ pc = "alloc_5" => Laid(0, 0) /\ Counted
  /\ pc = "free_5" => Laid(0, 5) /\ Counted
  /\ pc = "recount" => Laid(0, 0) /\ Counted /\ Room >= 5
  /\ pc \in {"satp", "booted"} => Laid(0, 0) /\ Room >= 5

\* Its local variables point to what it holds.
BlkInv ==
  /\ pc \in {"alloc_p1", "alloc_p2", "compare", "free_p0"} => blk[1] = Above
  /\ pc \in {"alloc_p2", "compare", "free_p0", "free_p1"} => blk[2] = Above + 1
  /\ pc \in {"compare", "free_p0", "free_p1", "free_p2"} => blk[3] = Above + 2
  /\ pc = "free_5" => blk[4] = Above

(***************************************************************************)
(* Boot panics only if fewer than five pages are free, in an allocation    *)
(* that default_check asserts or, when the image ends in the last page, in *)
(* pa2page.                                                                *)
(***************************************************************************)
PanicInv ==
  /\ pc = "panic" =>
       /\ GlobalsSet /\ Room < 5
       /\ at \in {"map_memory", "alloc_p0", "alloc_p1", "alloc_p2", "alloc_5"}
       /\ at = "map_memory" <=> EndsInLastPage
  /\ pc \notin Early \cup {"map_memory", "panic"} => ~EndsInLastPage

Inv == TypeInv /\ PcInv /\ BlkInv /\ PanicInv

-----------------------------------------------------------------------------
LEMMA DivBounds ==
  ASSUME NEW a \in Nat, NEW k \in Nat \ {0}
  PROVE  /\ a \div k \in Int
         /\ (a \div k) * k <= a /\ a < (a \div k) * k + k
  OBVIOUS

LEMMA QuotientNat ==
  ASSUME NEW a \in Nat, NEW k \in Nat \ {0}
  PROVE  a \div k \in Nat
  OBVIOUS

LEMMA ModIs ==
  ASSUME NEW a \in Nat, NEW k \in Nat \ {0}, NEW m \in Nat, NEW r \in 0 .. k - 1, a = m * k + r
  PROVE  a % k = r
  OBVIOUS

LEMMA Monotone ==
  ASSUME NEW a \in Int, NEW b \in Int, NEW k \in Nat \ {0}
  PROVE  /\ a * k \in Int /\ (a * k <= b * k <=> a <= b) /\ (a * k < b * k <=> a < b)
  OBVIOUS

LEMMA Distribute ==
  ASSUME NEW a \in Int, NEW b \in Int, NEW k \in Nat \ {0}
  PROVE  (a + b) * k = a * k + b * k /\ (a - b) * k = a * k - b * k
  OBVIOUS

LEMMA Multiple ==
  ASSUME NEW a \in Nat, NEW k \in Nat \ {0}
  PROVE  (a * k) \div k = a /\ (a * k) % k = 0
  OBVIOUS

LEMMA RoundDown ==
  ASSUME NEW a \in Nat, NEW k \in Nat \ {0}
  PROVE  ROUNDDOWN(a, k) = (a \div k) * k
<1> DEFINE m == a \div k
<1>1. m \in Int /\ m * k <= a /\ a < m * k + k
  BY DivBounds
<1>2. m >= 0
  <2>1. a \div k >= 0
    OBVIOUS
  <2> QED
    BY <2>1
<1> HIDE DEF m
<1>3. m * k \in Int
  BY <1>1
<1>4. a - m * k \in 0 .. k - 1 /\ a = m * k + (a - m * k) /\ m \in Nat
  BY <1>1, <1>2, <1>3
<1>5. a % k = a - m * k
  BY <1>4, ModIs
<1> QED
  BY <1>3, <1>5 DEF ROUNDDOWN, m

-----------------------------------------------------------------------------
LEMMA Constants ==
  /\ PGSIZE \in Nat \ {0} /\ NBASE \in Nat /\ PHYSICAL_MEMORY_OFFSET \in Nat
  /\ NPAGE \in Nat \ {0}
  BY BootConstants, PageConstants

\* What ROUNDUP makes of the end of the image, when it is linked at KERNBASE.
LEMMA AboveFacts ==
  ASSUME ImageAtKernbase, end \in Nat, end >= edata
  PROVE  LET f == end - PHYSICAL_MEMORY_OFFSET
         IN  /\ f \in Nat /\ Above \in Int /\ Above >= 2
             /\ f <= (Above + NBASE) * PGSIZE
             /\ (Above + NBASE - 1) * PGSIZE < f
             /\ ROUNDUP(f, PGSIZE) = (Above + NBASE) * PGSIZE
<1> USE Constants
<1> DEFINE f == end - PHYSICAL_MEMORY_OFFSET
           g == f + PGSIZE - 1
           m == g \div PGSIZE
<1>1. (NBASE + 2) * PGSIZE = NBASE * PGSIZE + 2 * PGSIZE
  BY Distribute
<1>2. f \in Int /\ (NBASE + 2) * PGSIZE \in Nat /\ (NBASE + 2) * PGSIZE <= f
  <2>1. NBASE * PGSIZE \in Nat
    OBVIOUS
  <2> QED
    BY <1>1, <2>1 DEF ImageAtKernbase, KERNBASE, KERNEL_BEGIN_PADDR, edata, boot_page_table_sv39
<1>3. f \in Nat /\ g \in Nat
  BY <1>2
<1>4. m \in Int /\ m * PGSIZE <= g /\ g < m * PGSIZE + PGSIZE
  BY <1>3, DivBounds
<1>5. Above = m - NBASE /\ ROUNDUP(f, PGSIZE) = m * PGSIZE
  BY <1>3, RoundDown DEF Above, ROUNDUP
<1> HIDE DEF m
<1>6. m * PGSIZE \in Int /\ (m - 1) * PGSIZE = m * PGSIZE - PGSIZE
  BY <1>4, Monotone, Distribute
<1> HIDE DEF f
<1>7. f <= m * PGSIZE /\ (m - 1) * PGSIZE < f
  BY <1>3, <1>4, <1>6
<1>8. NBASE + 2 <= m
  <2>1. (NBASE + 2) * PGSIZE <= m * PGSIZE
    BY <1>2, <1>3, <1>6, <1>7
  <2> QED
    BY <1>4, <2>1, Monotone
<1>9. Above \in Int /\ Above >= 2 /\ Above + NBASE = m /\ Above + NBASE - 1 = m - 1
  BY <1>4, <1>5, <1>8
<1> QED
  BY <1>3, <1>5, <1>7, <1>9 DEF f

LEMMA WholePages ==
  ASSUME ImageAtKernbase, end \in Nat, end >= edata
  PROVE  /\ WholePagesAbove = {q \in Pages : q >= Above}
         /\ Room \in 0 .. NPAGE
         /\ Cardinality(WholePagesAbove) = Room
<1> USE Constants
<1> DEFINE f == end - PHYSICAL_MEMORY_OFFSET
<1>1. /\ f \in Nat /\ Above \in Int /\ Above >= 2 /\ f <= (Above + NBASE) * PGSIZE
      /\ (Above + NBASE - 1) * PGSIZE < f
  BY AboveFacts
<1> HIDE DEF f
<1>2. ASSUME NEW q \in Pages PROVE (q + NBASE) * PGSIZE >= f <=> q >= Above
  <2>1. q \in Int /\ q + NBASE \in Int /\ (q + NBASE) * PGSIZE \in Int
    BY Monotone DEF Pages
  <2>2. (Above + NBASE) * PGSIZE \in Int /\ (Above + NBASE - 1) * PGSIZE \in Int
    BY <1>1, Monotone
  <2>3. CASE q >= Above
    <3>1. (Above + NBASE) * PGSIZE <= (q + NBASE) * PGSIZE
      BY <1>1, <2>1, <2>3, Monotone
    <3> QED
      BY <1>1, <2>1, <2>2, <2>3, <3>1
  <2>4. CASE ~(q >= Above)
    <3>1. (q + NBASE) * PGSIZE <= (Above + NBASE - 1) * PGSIZE
      BY <1>1, <2>1, <2>4, Monotone
    <3> QED
      BY <1>1, <2>1, <2>2, <2>4, <3>1
  <2> QED
    BY <2>3, <2>4
<1>3. WholePagesAbove = {q \in Pages : q >= Above}
  BY <1>2 DEF WholePagesAbove, f
<1>4. CASE Above < NPAGE
  <2>1. WholePagesAbove = Above .. NPAGE - 1
    BY <1>1, <1>3 DEF Pages
  <2>2. Cardinality(Above .. NPAGE - 1) = (NPAGE - 1) - Above + 1
    BY <1>1, <1>4, FS_Interval
  <2>3. Room = NPAGE - Above /\ Room \in 0 .. NPAGE
    BY <1>1, <1>4 DEF Room
  <2>4. (NPAGE - 1) - Above + 1 = NPAGE - Above
    BY <1>1
  <2> QED
    BY <1>3, <2>1, <2>2, <2>3, <2>4
<1>5. CASE ~(Above < NPAGE)
  <2>1. WholePagesAbove = {}
    BY <1>1, <1>3, <1>5 DEF Pages
  <2> QED
    BY <1>3, <1>5, <2>1, FS_EmptySet DEF Room
<1> QED
  BY <1>4, <1>5

LEMMA LastPage ==
  ASSUME ImageAtKernbase, end \in Nat, end >= edata
  PROVE  EndsInLastPage <=> /\ Above >= NPAGE
                            /\ end - PHYSICAL_MEMORY_OFFSET < (NBASE + NPAGE) * PGSIZE
<1> USE Constants
<1> DEFINE f == end - PHYSICAL_MEMORY_OFFSET
<1>1. /\ f \in Nat /\ Above \in Int /\ Above >= 2 /\ f <= (Above + NBASE) * PGSIZE
      /\ (Above + NBASE - 1) * PGSIZE < f
  BY AboveFacts
<1>2. EndsInLastPage <=> /\ f > (NBASE + NPAGE - 1) * PGSIZE
                         /\ f < (NBASE + NPAGE) * PGSIZE
  BY DEF EndsInLastPage
<1> HIDE DEF f
<1>3. /\ (Above + NBASE) * PGSIZE \in Int /\ (Above + NBASE - 1) * PGSIZE \in Int
      /\ (NBASE + NPAGE) * PGSIZE \in Int /\ (NBASE + NPAGE - 1) * PGSIZE \in Int
  BY <1>1, Monotone
<1>4. ASSUME f > (NBASE + NPAGE - 1) * PGSIZE PROVE Above >= NPAGE
  <2>1. (NBASE + NPAGE - 1) * PGSIZE < (Above + NBASE) * PGSIZE
    BY <1>1, <1>3, <1>4
  <2>2. NBASE + NPAGE - 1 < Above + NBASE
    BY <1>1, <2>1, Monotone
  <2> QED
    BY <1>1, <2>2
<1>5. ASSUME Above >= NPAGE PROVE f > (NBASE + NPAGE - 1) * PGSIZE
  <2>1. (NBASE + NPAGE - 1) * PGSIZE <= (Above + NBASE - 1) * PGSIZE
    BY <1>1, <1>5, Monotone
  <2> QED
    BY <1>1, <1>3, <2>1
<1> QED
  BY <1>2, <1>4, <1>5 DEF f

-----------------------------------------------------------------------------
USE DEF Pagedb!Pages, Pagedb!WordAdd, Pagedb!WordSub, Pagedb!InBlock, Pagedb!PageReserved,
        Pagedb!PageAllocated, Pagedb!Available, Pagedb!PG_reserved, Pagedb!PG_allocated

\* What is available while default_check holds the first h pages.
LEMMA HeldAvailable ==
  ASSUME Above \in Int, NEW h \in Nat, pages = Held(0, h)
  PROVE  Available(pages) = {q \in Pages : q >= Above + h}
<1> SUFFICES ASSUME NEW q \in Pages
             PROVE  (~PageReserved(pages, q) /\ ~PageAllocated(pages, q)) <=> q >= Above + h
  BY DEF Available
<1>1. q \in Int
  BY Constants DEF Pages
<1>2. pages[q] = IF q < Above THEN {PG_reserved}
                 ELSE IF Above + 0 <= q /\ q < Above + h THEN {PG_allocated} ELSE {}
  BY DEF Held
<1> QED
  BY <1>1, <1>2 DEF PageReserved, PageAllocated, PG_reserved, PG_allocated

\* alloc_pages(k) gives out the k pages after those that are held, if there
\* is room.
LEMMA AllocStep ==
  ASSUME Above \in Int, Above >= 2, NEW h \in Nat, NEW k \in Nat \ {0}, Laid(0, h),
         Room \in 0 .. NPAGE, Pagedb!spec_default_alloc_pages(k)
  PROVE  \/ /\ h + k <= Room /\ ret' = Above + h
            /\ pages' = Held(0, h + k) /\ nr_free' = Room - (h + k)
         \/ h + k > Room /\ ret' = NULLPAGE /\ UNCHANGED <<pages, nr_free>>
<1> USE Constants
<1>1. pages = Held(0, h) /\ nr_free = Room - h /\ h <= Room
  BY DEF Laid
<1>2. ASSUME NEW b \in Pages
      PROVE  Pagedb!free_block(pages, b, k) <=> b >= Above + h /\ b + k <= NPAGE
  <2>1. Pagedb!free_block(pages, b, k)
          <=> b + k <= NPAGE /\ \A q \in b .. b + k - 1 : q \in Available(pages)
    BY DEF Pagedb!free_block, Available, Pages, PageReserved, PageAllocated, PG_reserved,
       PG_allocated
  <2>2. Available(pages) = {q \in Pages : q >= Above + h}
    BY <1>1, HeldAvailable
  <2>3. b \in b .. b + k - 1 /\ b \in Nat
    BY DEF Pages
  <2>4. ASSUME b >= Above + h, b + k <= NPAGE, NEW q \in b .. b + k - 1
        PROVE  q \in Pages /\ q >= Above + h
    BY <2>3, <2>4 DEF Pages
  <2> QED
    BY <2>1, <2>2, <2>3, <2>4
<1>3. h + k <= Room => Above + h \in Pages /\ Above + h + k <= NPAGE /\ k <= NPAGE
  BY DEF Room, Pages
<1>4. CASE h + k <= Room
  <2>1. Above + h \in Pages /\ Above + h + k <= NPAGE /\ k <= NPAGE
    BY <1>3, <1>4
  <2>2. Pagedb!free_block(pages, Above + h, k)
    BY <1>2, <2>1
  <2>3. PICK b \in Pages : /\ Pagedb!first_free_block(pages, b, k)
                           /\ pages' = Pagedb!page_set_flag(b, k, PG_allocated)
                           /\ ret' = b /\ nr_free' = WordSub(nr_free, k)
    BY <2>1, <2>2 DEF Pagedb!spec_default_alloc_pages, Pages, WordSub, PG_allocated
  <2>4. b >= Above + h /\ b + k <= NPAGE
    BY <1>2, <2>3 DEF Pagedb!first_free_block
  <2>5. \A c \in 0 .. b - 1 : ~Pagedb!free_block(pages, c, k)
    BY <2>3 DEF Pagedb!first_free_block
  <2>6. b = Above + h
    <3>1. CASE Above + h < b
      <4>1. Above + h \in 0 .. b - 1
        BY <2>1, <2>4, <3>1 DEF Pages
      <4> QED
        BY <2>2, <2>5, <4>1
    <3> QED
      BY <2>4, <3>1 DEF Pages
  <2>7. pages' = Held(0, h + k)
    <3>1. \A q \in Pages : Pagedb!InBlock(q, b, k) <=> Above + h <= q /\ q < Above + (h + k)
      BY <2>1, <2>6, PageConstants DEF Pages
    <3>2. pages' = [q \in Pages |-> IF Above + h <= q /\ q < Above + (h + k)
                                    THEN pages[q] \cup {PG_allocated} ELSE pages[q]]
      BY <2>3, <3>1 DEF Pagedb!page_set_flag, Pages
    <3>3. ASSUME NEW q \in Pages
          PROVE  (IF Above + h <= q /\ q < Above + (h + k)
                  THEN pages[q] \cup {PG_allocated} ELSE pages[q])
                 = (IF q < Above THEN {PG_reserved}
                    ELSE IF Above + 0 <= q /\ q < Above + (h + k) THEN {PG_allocated} ELSE {})
      <4>1. q \in Int
        BY DEF Pages
      <4>2. pages[q] = IF q < Above THEN {PG_reserved}
                       ELSE IF Above + 0 <= q /\ q < Above + h THEN {PG_allocated} ELSE {}
        BY <1>1 DEF Held
      <4> QED
        BY <4>1, <4>2
    <3> QED
      BY <3>2, <3>3 DEF Held
  <2>8. nr_free' = Room - (h + k)
    BY <1>1, <1>4, <2>3 DEF WordSub
  <2> QED
    BY <1>4, <2>3, <2>6, <2>7, <2>8
<1>5. CASE ~(h + k <= Room)
  <2>1. ASSUME NEW b \in Pages PROVE ~Pagedb!free_block(pages, b, k)
    BY <1>2, <1>5 DEF Pages, Room
  <2> QED
    BY <1>1, <1>5, <2>1 DEF Pagedb!spec_default_alloc_pages, Pagedb!first_free_block, Pages
<1> QED
  BY <1>4, <1>5

\* free_pages of the first k held pages.
LEMMA FreeStep ==
  ASSUME Above \in Int, Above >= 2, NEW lo \in Nat, NEW hi \in Nat, NEW k \in Nat \ {0},
         lo + k <= hi, Laid(lo, hi), Room \in 0 .. NPAGE,
         Pagedb!spec_default_free_pages(Above + lo, k)
  PROVE  pages' = Held(lo + k, hi) /\ nr_free' = Room - (hi - (lo + k))
<1> USE Constants
<1>1. pages = Held(lo, hi) /\ nr_free = Room - (hi - lo) /\ hi <= Room
  BY DEF Laid
<1>2. /\ Above + lo \in Pages /\ Above + lo + k <= NPAGE /\ k <= NPAGE
      /\ Above + lo + k < WORD /\ NPAGE < WORD
  BY <1>1, PageConstants DEF Room, Pages
<1>3. /\ pages' = Pagedb!page_clear_flag(Above + lo, k, PG_allocated)
      /\ nr_free' = WordAdd(nr_free, k)
  BY <1>2 DEF Pagedb!spec_default_free_pages, Pages, WordAdd, PG_allocated
<1>4. \A q \in Pages : Pagedb!InBlock(q, Above + lo, k)
                         <=> Above + lo <= q /\ q < Above + (lo + k)
  BY <1>2 DEF Pages
<1>5. pages' = [q \in Pages |-> IF Above + lo <= q /\ q < Above + (lo + k)
                                THEN pages[q] \ {PG_allocated} ELSE pages[q]]
  BY <1>3, <1>4 DEF Pagedb!page_clear_flag, Pages
<1>6. ASSUME NEW q \in Pages
      PROVE  (IF Above + lo <= q /\ q < Above + (lo + k)
              THEN pages[q] \ {PG_allocated} ELSE pages[q])
             = (IF q < Above THEN {PG_reserved}
                ELSE IF Above + (lo + k) <= q /\ q < Above + hi THEN {PG_allocated} ELSE {})
  <2>1. q \in Int
    BY DEF Pages
  <2>2. pages[q] = IF q < Above THEN {PG_reserved}
                   ELSE IF Above + lo <= q /\ q < Above + hi THEN {PG_allocated} ELSE {}
    BY <1>1 DEF Held
  <2> QED
    BY <2>1, <2>2
<1>7. pages' = Held(lo + k, hi)
  BY <1>5, <1>6 DEF Held
<1>8. nr_free' = Room - (hi - (lo + k))
  <2>1. nr_free + k < WORD /\ nr_free + k = Room - (hi - (lo + k))
    BY <1>1, <1>2, PageConstants
  <2> QED
    BY <1>3, <2>1 DEF WordAdd
<1> QED
  BY <1>7, <1>8

\* Nothing held is nothing held, wherever it ends.
LEMMA NoneHeld ==
  ASSUME Above \in Int, NEW h \in Nat
  PROVE  Held(h, h) = Held(0, 0)
<1> SUFFICES ASSUME NEW q \in Pages
             PROVE  ~(Above + h <= q /\ q < Above + h) /\ ~(Above + 0 <= q /\ q < Above + 0)
  BY DEF Held
<1> QED
  BY Constants DEF Pages

-----------------------------------------------------------------------------
LEMMA InvInit == ASSUME ImageAtKernbase PROVE Init => Inv
<1> SUFFICES ASSUME Init PROVE Inv
  OBVIOUS
<1>1. end \in Nat /\ end >= edata
  <2>1. edata \in Nat
    BY BootConstants DEF edata, boot_page_table_sv39
  <2>2. BASE_ADDRESS + (NPAGE + 1) * PGSIZE \in Int
    BY BootConstants, Constants
  <2>3. end \in edata .. BASE_ADDRESS + (NPAGE + 1) * PGSIZE
    BY DEF Init
  <2> QED
    BY <2>1, <2>2, <2>3
<1>2. blk \in [1 .. 4 -> Int]
  <2>1. NULLPAGE \in Int
    BY PageConstants
  <2>2. blk = <<NULLPAGE, NULLPAGE, NULLPAGE, NULLPAGE>>
    BY DEF Init
  <2> QED
    BY <2>1, <2>2
<1> QED
  BY <1>1, <1>2 DEF Init, Inv, TypeInv, PcInv, BlkInv, PanicInv, Labels, Early

\* What depends on end only does not change.
LEMMA EndFixed ==
  ASSUME UNCHANGED end
  PROVE  /\ Above' = Above /\ Room' = Room /\ WholePagesAbove' = WholePagesAbove
         /\ EndsInLastPage' = EndsInLastPage
         /\ \A lo, hi : Held(lo, hi)' = Held(lo, hi)
  BY DEF Above, Room, WholePagesAbove, EndsInLastPage, Held

\* The facts about the layout that the steps below share.
LEMMA Facts ==
  ASSUME ImageAtKernbase, Inv
  PROVE  /\ Above \in Int /\ Above >= 2 /\ Room \in 0 .. NPAGE
         /\ WholePagesAbove = {q \in Pages : q >= Above}
         /\ Cardinality(WholePagesAbove) = Room
  BY AboveFacts, WholePages DEF Inv, TypeInv

\* The steps before the memory is mapped.
\* One lemma for each step of the boot: it preserves the invariant.
LEMMA StepEarly ==
  ASSUME Inv, kern_entry \/ ClearBss \/ init_pmm_manager \/ ReserveAll
  PROVE  Inv'
<1>1. TypeInv'
  BY DEF Inv, TypeInv, Labels, Early, kern_entry, ClearBss, init_pmm_manager, ReserveAll, Goto,
     edata, boot_page_table_sv39
<1>2. pc' \in {"clear_bss", "init_pmm_manager", "page_init", "map_memory"}
  BY DEF kern_entry, ClearBss, init_pmm_manager, ReserveAll, Goto
<1>3. pc' = "page_init" => nr_free' = 0
  BY DEF kern_entry, ClearBss, init_pmm_manager, ReserveAll, Goto
<1>4. pc' = "map_memory" =>
        GlobalsSet' /\ pages' = [q \in Pages |-> {PG_reserved}] /\ nr_free' = 0
  BY DEF Inv, PcInv, GlobalsSet, kern_entry, ClearBss, init_pmm_manager, ReserveAll, Goto
<1> QED
  BY <1>1, <1>2, <1>3, <1>4 DEF Inv, PcInv, BlkInv, PanicInv, Early

\* The address arithmetic of page_init.
LEMMA MapArguments ==
  ASSUME ImageAtKernbase, Inv, GlobalsSet
  PROVE  /\ PADDR(end) = end - PHYSICAL_MEMORY_OFFSET
         /\ ROUNDUP(PADDR(end), PGSIZE) = (Above + NBASE) * PGSIZE
         /\ npage * PGSIZE = (NBASE + NPAGE) * PGSIZE
         /\ KERNEL_MEMEND_PADDR = (NBASE + NPAGE) * PGSIZE
         /\ ROUNDDOWN(KERNEL_MEMEND_PADDR, PGSIZE) = (NBASE + NPAGE) * PGSIZE
         /\ PPN((Above + NBASE) * PGSIZE) = Above + NBASE
         /\ pa2page((Above + NBASE) * PGSIZE) = Above
         /\ Above < NPAGE =>
              ((NBASE + NPAGE) * PGSIZE - (Above + NBASE) * PGSIZE) \div PGSIZE = NPAGE - Above
<1> USE Constants
<1>1. PADDR(end) = end - PHYSICAL_MEMORY_OFFSET /\ npage = NBASE + NPAGE /\ nbase = NBASE
  BY DEF GlobalsSet, PADDR
<1>2. ROUNDUP(PADDR(end), PGSIZE) = (Above + NBASE) * PGSIZE /\ Above \in Int /\ Above >= 2
  BY <1>1, AboveFacts DEF Inv, TypeInv
<1>3. KERNEL_MEMEND_PADDR = (NBASE + NPAGE) * PGSIZE
  BY Distribute DEF KERNEL_MEMEND_PADDR, KERNEL_BEGIN_PADDR
<1>4. NBASE + NPAGE \in Nat /\ (NBASE + NPAGE) * PGSIZE \in Nat
  OBVIOUS
<1>5. ROUNDDOWN((NBASE + NPAGE) * PGSIZE, PGSIZE) = (NBASE + NPAGE) * PGSIZE
  BY <1>4, Multiple DEF ROUNDDOWN
<1>6. Above + NBASE \in Nat /\ (Above + NBASE) - NBASE = Above
  BY <1>2
<1>7. PPN((Above + NBASE) * PGSIZE) = Above + NBASE
  BY <1>6, Multiple DEF PPN
<1>8. pa2page((Above + NBASE) * PGSIZE) = Above
  BY <1>1, <1>6, <1>7 DEF pa2page
<1>9. ASSUME Above < NPAGE
      PROVE  ((NBASE + NPAGE) * PGSIZE - (Above + NBASE) * PGSIZE) \div PGSIZE = NPAGE - Above
  <2>1. NPAGE - Above \in Nat /\ (NBASE + NPAGE) - (Above + NBASE) = NPAGE - Above
    BY <1>2, <1>9
  <2>2. (NPAGE - Above) * PGSIZE = (NBASE + NPAGE) * PGSIZE - (Above + NBASE) * PGSIZE
    BY <1>4, <1>6, <2>1, Distribute
  <2> QED
    BY <2>1, <2>2, Multiple
<1> QED
  BY <1>1, <1>2, <1>3, <1>5, <1>7, <1>8, <1>9

\* init_memmap of everything above the image.
LEMMA MappedPages ==
  ASSUME Above \in Int, Above >= 2, Above < NPAGE, nr_free = 0,
         pages = [q \in Pages |-> {PG_reserved}],
         Pagedb!spec_default_init_memmap(Above, NPAGE - Above)
  PROVE  ret' = 0 /\ pages' = Held(0, 0) /\ nr_free' = NPAGE - Above
<1> USE Constants
<1>1. Above \in Nat /\ NPAGE - Above \in 1 .. NPAGE /\ Above + (NPAGE - Above) = NPAGE /\ NPAGE < WORD
  BY PageConstants
<1>2. \A q \in Pages : pages[q] = {0}
  BY DEF PG_reserved
<1>3. Pagedb!init_memmap_status(Above, NPAGE - Above) = 0
  BY <1>1, <1>2 DEF Pagedb!init_memmap_status, Pages
<1>4. /\ ret' = 0 /\ pages' = Pagedb!page_clear_flag(Above, NPAGE - Above, PG_reserved)
      /\ nr_free' = WordAdd(nr_free, NPAGE - Above)
  BY <1>3 DEF Pagedb!spec_default_init_memmap, WordAdd, PG_reserved
<1>5. \A q \in Pages : Pagedb!InBlock(q, Above, NPAGE - Above) <=> ~(q < Above)
  BY <1>1 DEF Pages
<1>6. pages' = [q \in Pages |-> IF ~(q < Above) THEN {PG_reserved} \ {PG_reserved} ELSE {PG_reserved}]
  BY <1>4, <1>5 DEF Pagedb!page_clear_flag, Pages
<1>7. \A q \in Pages : ~(Above + 0 <= q /\ q < Above + 0)
  BY DEF Pages
<1>8. pages' = Held(0, 0)
  BY <1>6, <1>7 DEF Held
<1>9. nr_free' = NPAGE - Above
  <2>1. nr_free + (NPAGE - Above) < WORD /\ nr_free + (NPAGE - Above) = NPAGE - Above
    BY <1>1, PageConstants
  <2> QED
    BY <1>4, <2>1 DEF WordAdd
<1> QED
  BY <1>4, <1>8, <1>9

LEMMA StepMapMemory ==
  ASSUME ImageAtKernbase, Inv, MapMemory
  PROVE  Inv'
<1> DEFINE f == end - PHYSICAL_MEMORY_OFFSET
           top == (NBASE + NPAGE) * PGSIZE
<1>1. /\ pc = "map_memory" /\ GlobalsSet /\ pages = [q \in Pages |-> {PG_reserved}]
      /\ nr_free = 0 /\ UNCHANGED <<end, layout, blk>>
  BY DEF MapMemory, Inv, PcInv
<1>2. /\ Above \in Int /\ Above >= 2 /\ Room \in 0 .. NPAGE /\ f \in Nat
      /\ EndsInLastPage <=> Above >= NPAGE /\ f < top
      /\ f <= (Above + NBASE) * PGSIZE
  BY AboveFacts, WholePages, LastPage DEF Inv, TypeInv
<1>3. \/ ~(f < top) /\ Goto("count") /\ UNCHANGED <<nr_free, pages>>
      \/ f < top /\ Above >= NPAGE /\ Panic
      \/ /\ f < top /\ Above < NPAGE
         /\ Pagedb!spec_default_init_memmap(Above, NPAGE - Above)
         /\ Assert(ret' = 0, "count")
  <2>1. top \in Int /\ ~(top > top)
    BY Constants
  <2>2. (Above + NBASE >= NBASE + NPAGE <=> Above >= NPAGE) /\ (Above + NBASE < NBASE + NPAGE <=> Above < NPAGE)
    BY <1>2, Constants
  <2>3. npage = NBASE + NPAGE
    BY <1>1 DEF GlobalsSet
  <2> QED
    BY <1>1, <2>1, <2>2, <2>3, MapArguments DEF MapMemory
<1>4. TypeInv'
  BY <1>1, <1>3 DEF Inv, TypeInv, Goto, Panic, Assert, Labels, edata, boot_page_table_sv39
<1>5. GlobalsSet'
  BY <1>1 DEF GlobalsSet, layout
<1> HIDE DEF f, top
<1>6. CASE f < top /\ Above >= NPAGE /\ Panic
  <2>1. pc' = "panic" /\ at' = "map_memory" /\ EndsInLastPage' /\ Room' = 0
    BY <1>1, <1>2, <1>6, EndFixed, Constants DEF Panic, Room
  <2> QED
    BY <1>4, <1>5, <2>1 DEF Inv, PcInv, BlkInv, PanicInv
<1>7. ASSUME pages' = Held(0, 0), nr_free' = Room, Goto("count"), ~EndsInLastPage PROVE Inv'
  <2>1. Laid(0, 0)' /\ ~EndsInLastPage' /\ pc' = "count"
    BY <1>1, <1>2, <1>5, <1>7, EndFixed DEF Laid, Goto
  <2> QED
    BY <1>4, <2>1 DEF Inv, PcInv, BlkInv, PanicInv
<1>8. CASE ~(f < top) /\ Goto("count") /\ UNCHANGED <<nr_free, pages>>
  <2>1. Above >= NPAGE
    <3>1. top <= (Above + NBASE) * PGSIZE
      BY <1>2, <1>8, Constants, Monotone DEF top
    <3>2. NBASE + NPAGE <= Above + NBASE
      BY <1>2, <3>1, Constants, Monotone DEF top
    <3> QED
      BY <1>2, <3>2, Constants
  <2>2. Room = 0 /\ ~EndsInLastPage
    BY <1>2, <1>8, <2>1, Constants DEF Room
  <2>3. \A q \in Pages : q < Above
    BY <1>2, <2>1, Constants DEF Pages
  <2>4. pages' = Held(0, 0)
    BY <1>1, <1>8, <2>3 DEF Held
  <2> QED
    BY <1>1, <1>7, <1>8, <2>2, <2>4
<1>9. CASE /\ f < top /\ Above < NPAGE
           /\ Pagedb!spec_default_init_memmap(Above, NPAGE - Above)
           /\ Assert(ret' = 0, "count")
  <2>1. ret' = 0 /\ pages' = Held(0, 0) /\ nr_free' = NPAGE - Above
    BY <1>1, <1>2, <1>9, MappedPages
  <2>2. Room = NPAGE - Above /\ ~EndsInLastPage
    BY <1>2, <1>9, Constants DEF Room
  <2> QED
    BY <1>7, <1>9, <2>1, <2>2 DEF Assert
<1> QED
  BY <1>3, <1>6, <1>8, <1>9

-----------------------------------------------------------------------------
\* With no page held, the counts are those of the whole pages above the image.
\* The loops of default_check count the pages above the image.
LEMMA CountsOfNone ==
  ASSUME ImageAtKernbase, Inv, pages = Held(0, 0)
  PROVE  /\ Available(pages) = WholePagesAbove
         /\ {q \in Pages : ~PageReserved(pages, q)} = WholePagesAbove
<1>1. Above \in Int /\ WholePagesAbove = {q \in Pages : q >= Above}
  BY Facts
<1>2. Available(pages) = {q \in Pages : q >= Above + 0}
  BY <1>1, HeldAvailable
<1>3. ASSUME NEW q \in Pages PROVE ~PageReserved(pages, q) <=> q >= Above
  <2>1. q \in Int
    BY Constants DEF Pages
  <2>2. pages[q] = IF q < Above THEN {PG_reserved}
                   ELSE IF Above + 0 <= q /\ q < Above + 0 THEN {PG_allocated} ELSE {}
    BY DEF Held
  <2> QED
    BY <1>1, <2>1, <2>2 DEF PageReserved, PG_reserved, PG_allocated
<1> QED
  BY <1>1, <1>2, <1>3

LEMMA StepCount ==
  ASSUME ImageAtKernbase, Inv, Count
  PROVE  Inv'
<1>1. /\ pc = "count" /\ Laid(0, 0) /\ ~EndsInLastPage
      /\ UNCHANGED <<end, layout, blk, pages, nr_free>>
  BY DEF Count, Pagedb!spec_default_nr_free_pages, Inv, PcInv, PanicInv, Early
<1>2. Cardinality(WholePagesAbove) = Room
  BY Facts
<1>3. not_allocated' = Cardinality(WholePagesAbove) /\ not_reserved' = Cardinality(WholePagesAbove)
  BY <1>1, CountsOfNone DEF Count, NotAllocated, NotReserved, Laid
<1>4. ret' = Room
  <2>1. ret' = nr_free /\ nr_free = Room - (0 - 0)
    BY <1>1 DEF Count, Pagedb!spec_default_nr_free_pages, Laid
  <2> QED
    BY <2>1, Facts
<1>5. pc' = "alloc_p0"
  BY <1>2, <1>3, <1>4 DEF Count, Assert, Goto
<1>6. TypeInv'
  BY <1>1, <1>5 DEF Inv, TypeInv, Labels, edata, boot_page_table_sv39
<1>7. Laid(0, 0)' /\ Counted' /\ ~EndsInLastPage'
  BY <1>1, <1>3, EndFixed DEF Laid, GlobalsSet, layout, Counted
<1> QED
  BY <1>5, <1>6, <1>7 DEF Inv, PcInv, BlkInv, PanicInv

\* An allocation of the self-check, from the state where h pages are held.
\* An allocation of default_check, with the assertion that follows it.
LEMMA AllocOutcome ==
  ASSUME ImageAtKernbase, Inv, NEW h \in Nat, NEW k \in Nat \ {0}, NEW i \in 1 .. 4,
         Laid(0, h), Counted, ~EndsInLastPage,
         Pagedb!spec_default_alloc_pages(k), blk' = [blk EXCEPT ![i] = ret'],
         UNCHANGED <<end, layout, not_reserved, not_allocated>>
  PROVE  /\ blk' \in [1 .. 4 -> Int] /\ GlobalsSet' /\ Counted' /\ ~EndsInLastPage'
         /\ end' \in Nat /\ end' >= edata'
         /\ \/ h + k <= Room /\ ret' # NULLPAGE /\ ret' = Above + h /\ Laid(0, h + k)'
            \/ h + k > Room /\ ret' = NULLPAGE
<1>1. Above \in Int /\ Above >= 2 /\ Room \in 0 .. NPAGE
  BY Facts
<1>2. \/ /\ h + k <= Room /\ ret' = Above + h
         /\ pages' = Held(0, h + k) /\ nr_free' = Room - (h + k)
      \/ h + k > Room /\ ret' = NULLPAGE
  BY <1>1, AllocStep
<1>3. NULLPAGE \in Int /\ NULLPAGE >= NPAGE
  BY PageConstants
<1>4. ret' \in Int /\ (h + k <= Room => Above + h < NPAGE)
  BY <1>1, <1>2, <1>3, Constants DEF Room
<1>5. blk' \in [1 .. 4 -> Int]
  BY <1>4 DEF Inv, TypeInv
<1>6. GlobalsSet' /\ Counted' /\ ~EndsInLastPage' /\ end' \in Nat /\ end' >= edata'
  BY EndFixed DEF Laid, GlobalsSet, layout, Counted, Inv, TypeInv, edata, boot_page_table_sv39
<1>7. CASE h + k <= Room /\ ret' = Above + h /\ pages' = Held(0, h + k) /\ nr_free' = Room - (h + k)
  <2>1. ret' # NULLPAGE
    BY <1>1, <1>3, <1>4, <1>7, Constants
  <2>2. nr_free' = Room - (h + k - 0)
    BY <1>1, <1>7
  <2>3. Laid(0, h + k)'
    BY <1>6, <1>7, <2>2, EndFixed DEF Laid
  <2> QED
    BY <1>5, <1>6, <1>7, <2>1, <2>3
<1> QED
  BY <1>2, <1>5, <1>6, <1>7

LEMMA StepAllocP ==
  ASSUME ImageAtKernbase, Inv, AllocP
  PROVE  Inv'
<1>0. Above' = Above /\ Room' = Room
  BY EndFixed DEF AllocP, AllocInto
<1>4. Room \in Int /\ Above \in Int /\ blk \in [1 .. 4 -> Int]
  BY Facts DEF Inv, TypeInv
<1>1. CASE pc = "alloc_p0" /\ AllocInto(1, 1, "alloc_p1")
  <2>1. Laid(0, 0) /\ Counted /\ ~EndsInLastPage
    BY <1>1 DEF Inv, PcInv, PanicInv, Early
  <2>2. /\ blk' \in [1 .. 4 -> Int] /\ GlobalsSet' /\ Counted' /\ ~EndsInLastPage'
        /\ end' \in Nat /\ end' >= edata'
        /\ \/ 0 + 1 <= Room /\ ret' # NULLPAGE /\ ret' = Above + 0 /\ Laid(0, 0 + 1)'
           \/ 0 + 1 > Room /\ ret' = NULLPAGE
    BY <1>1, <2>1, AllocOutcome DEF AllocInto
  <2>3. CASE ret' = NULLPAGE
    <3>1. pc' = "panic" /\ at' = "alloc_p0" /\ Room' < 5
      BY <1>0, <1>4, <1>1, <2>2, <2>3 DEF AllocInto, Assert, Panic
    <3> QED
      BY <2>2, <3>1 DEF Inv, TypeInv, PcInv, BlkInv, PanicInv, Labels
  <2>4. CASE ret' # NULLPAGE
    <3>1. pc' = "alloc_p1" /\ Laid(0, 1)'
      BY <1>1, <2>2, <2>4 DEF AllocInto, Assert, Goto
    <3>2. blk'[1] = Above'
      BY <1>0, <1>4, <1>1, <2>2, <2>4 DEF AllocInto
    <3> QED
      BY <2>2, <3>1, <3>2 DEF Inv, TypeInv, PcInv, BlkInv, PanicInv, Labels
  <2> QED
    BY <2>3, <2>4
<1>2. CASE pc = "alloc_p1" /\ AllocInto(2, 1, "alloc_p2")
  <2>1. Laid(0, 1) /\ Counted /\ ~EndsInLastPage /\ blk[1] = Above
    BY <1>2 DEF Inv, PcInv, BlkInv, PanicInv, Early
  <2>2. /\ blk' \in [1 .. 4 -> Int] /\ GlobalsSet' /\ Counted' /\ ~EndsInLastPage'
        /\ end' \in Nat /\ end' >= edata'
        /\ \/ 1 + 1 <= Room /\ ret' # NULLPAGE /\ ret' = Above + 1 /\ Laid(0, 1 + 1)'
           \/ 1 + 1 > Room /\ ret' = NULLPAGE
    BY <1>2, <2>1, AllocOutcome DEF AllocInto
  <2>3. CASE ret' = NULLPAGE
    <3>1. pc' = "panic" /\ at' = "alloc_p1" /\ Room' < 5
      BY <1>0, <1>4, <1>2, <2>2, <2>3 DEF AllocInto, Assert, Panic
    <3> QED
      BY <2>2, <3>1 DEF Inv, TypeInv, PcInv, BlkInv, PanicInv, Labels
  <2>4. CASE ret' # NULLPAGE
    <3>1. pc' = "alloc_p2" /\ Laid(0, 2)'
      BY <1>2, <2>2, <2>4 DEF AllocInto, Assert, Goto
    <3>2. blk'[1] = Above' /\ blk'[2] = Above' + 1
      BY <1>0, <1>4, <1>2, <2>1, <2>2, <2>4 DEF AllocInto
    <3> QED
      BY <2>2, <3>1, <3>2 DEF Inv, TypeInv, PcInv, BlkInv, PanicInv, Labels
  <2> QED
    BY <2>3, <2>4
<1>3. CASE pc = "alloc_p2" /\ AllocInto(3, 1, "compare")
  <2>1. Laid(0, 2) /\ Counted /\ ~EndsInLastPage /\ blk[1] = Above /\ blk[2] = Above + 1
    BY <1>3 DEF Inv, PcInv, BlkInv, PanicInv, Early
  <2>2. /\ blk' \in [1 .. 4 -> Int] /\ GlobalsSet' /\ Counted' /\ ~EndsInLastPage'
        /\ end' \in Nat /\ end' >= edata'
        /\ \/ 2 + 1 <= Room /\ ret' # NULLPAGE /\ ret' = Above + 2 /\ Laid(0, 2 + 1)'
           \/ 2 + 1 > Room /\ ret' = NULLPAGE
    BY <1>3, <2>1, AllocOutcome DEF AllocInto
  <2>3. CASE ret' = NULLPAGE
    <3>1. pc' = "panic" /\ at' = "alloc_p2" /\ Room' < 5
      BY <1>0, <1>4, <1>3, <2>2, <2>3 DEF AllocInto, Assert, Panic
    <3> QED
      BY <2>2, <3>1 DEF Inv, TypeInv, PcInv, BlkInv, PanicInv, Labels
  <2>4. CASE ret' # NULLPAGE
    <3>1. pc' = "compare" /\ Laid(0, 3)'
      BY <1>3, <2>2, <2>4 DEF AllocInto, Assert, Goto
    <3>2. blk'[1] = Above' /\ blk'[2] = Above' + 1 /\ blk'[3] = Above' + 2
      BY <1>0, <1>4, <1>3, <2>1, <2>2, <2>4 DEF AllocInto
    <3> QED
      BY <2>2, <3>1, <3>2 DEF Inv, TypeInv, PcInv, BlkInv, PanicInv, Labels
  <2> QED
    BY <2>3, <2>4
<1> QED
  BY <1>1, <1>2, <1>3 DEF AllocP

LEMMA StepCompare ==
  ASSUME ImageAtKernbase, Inv, Compare
  PROVE  Inv'
<1> USE Constants
<1>1. /\ pc = "compare" /\ UNCHANGED <<end, layout, nr_free, pages, blk, not_reserved, not_allocated>>
      /\ Laid(0, 3) /\ Counted /\ ~EndsInLastPage
      /\ blk[1] = Above /\ blk[2] = Above + 1 /\ blk[3] = Above + 2
  BY DEF Compare, Inv, PcInv, BlkInv, PanicInv, Early
<1>2. Above \in Int /\ Above + 2 < NPAGE
  <2>1. 3 <= Room
    BY <1>1 DEF Laid
  <2> QED
    BY <2>1, Facts DEF Room
<1>3. npage = NBASE + NPAGE /\ nbase = NBASE
  BY <1>1 DEF Laid, GlobalsSet
<1>4. ASSUME NEW i \in 1 .. 3 PROVE page2pa(blk[i]) < npage * PGSIZE
  <2>1. blk[i] \in Int /\ blk[i] + NBASE < NBASE + NPAGE
    BY <1>1, <1>2
  <2>2. (blk[i] + NBASE) * PGSIZE < (NBASE + NPAGE) * PGSIZE
    BY <2>1, Monotone
  <2> QED
    BY <1>3, <2>2 DEF page2pa, page2ppn
<1>5. pc' = "free_p0"
  BY <1>1, <1>2, <1>4 DEF Compare, Assert, Goto
<1>6. TypeInv'
  BY <1>1, <1>5 DEF Inv, TypeInv, Labels, edata, boot_page_table_sv39
<1>7. /\ Laid(0, 3)' /\ Counted' /\ ~EndsInLastPage'
      /\ blk'[1] = Above' /\ blk'[2] = Above' + 1 /\ blk'[3] = Above' + 2
  BY <1>1, EndFixed DEF Laid, GlobalsSet, layout, Counted
<1> QED
  BY <1>5, <1>6, <1>7 DEF Inv, PcInv, BlkInv, PanicInv

\* A free of the self-check: the first k of the held pages.
\* A call of free_pages in default_check.
LEMMA FreeOutcome ==
  ASSUME ImageAtKernbase, Inv, NEW lo \in Nat, NEW hi \in Nat, NEW k \in Nat \ {0},
         lo + k <= hi, Laid(lo, hi), Counted, ~EndsInLastPage,
         Pagedb!spec_default_free_pages(Above + lo, k),
         UNCHANGED <<end, layout, blk, not_reserved, not_allocated>>
  PROVE  /\ Laid(lo + k, hi)' /\ Counted' /\ ~EndsInLastPage'
         /\ blk' \in [1 .. 4 -> Int] /\ end' \in Nat /\ end' >= edata' /\ Above' = Above
         /\ lo + k = hi => Laid(0, 0)'
<1>1. Above \in Int /\ Above >= 2 /\ Room \in 0 .. NPAGE
  BY Facts
<1>2. pages' = Held(lo + k, hi) /\ nr_free' = Room - (hi - (lo + k))
  BY <1>1, FreeStep
<1>3. GlobalsSet' /\ hi <= Room /\ Counted' /\ ~EndsInLastPage'
  BY EndFixed DEF Laid, GlobalsSet, layout, Counted
<1>4. Laid(lo + k, hi)'
  BY <1>2, <1>3, EndFixed DEF Laid
<1>5. blk' \in [1 .. 4 -> Int] /\ end' \in Nat /\ end' >= edata' /\ Above' = Above
  BY EndFixed DEF Inv, TypeInv, edata, boot_page_table_sv39
<1>6. ASSUME lo + k = hi PROVE Laid(0, 0)'
  <2>1. nr_free' = Room - (0 - 0) /\ 0 <= Room
    BY <1>1, <1>2, <1>6
  <2>2. pages' = Held(0, 0)
    BY <1>1, <1>2, <1>6, NoneHeld
  <2> QED
    BY <1>3, <2>1, <2>2, EndFixed DEF Laid
<1> QED
  BY <1>3, <1>4, <1>5, <1>6

LEMMA StepFreeP ==
  ASSUME ImageAtKernbase, Inv, FreeP
  PROVE  Inv'
<1>0. Above \in Int
  BY Facts
<1>1. CASE pc = "free_p0" /\ FreeBlock(1, 1, "free_p1")
  <2>1. /\ Laid(0, 3) /\ Counted /\ ~EndsInLastPage
        /\ blk[1] = Above + 0 /\ blk[2] = Above + 1 /\ blk[3] = Above + 2
    BY <1>0, <1>1 DEF Inv, PcInv, BlkInv, PanicInv, Early
  <2>2. /\ Laid(0 + 1, 3)' /\ Counted' /\ ~EndsInLastPage'
        /\ blk' \in [1 .. 4 -> Int] /\ end' \in Nat /\ end' >= edata' /\ Above' = Above
    BY <1>1, <2>1, FreeOutcome DEF FreeBlock
  <2>3. Laid(1, 3)' /\ pc' = "free_p1" /\ blk'[2] = Above' + 1 /\ blk'[3] = Above' + 2
    BY <1>1, <2>1, <2>2 DEF FreeBlock, Goto
  <2> QED
    BY <2>2, <2>3 DEF Inv, TypeInv, PcInv, BlkInv, PanicInv, Labels
<1>2. CASE pc = "free_p1" /\ FreeBlock(2, 1, "free_p2")
  <2>1. Laid(1, 3) /\ Counted /\ ~EndsInLastPage /\ blk[2] = Above + 1 /\ blk[3] = Above + 2
    BY <1>2 DEF Inv, PcInv, BlkInv, PanicInv, Early
  <2>2. /\ Laid(1 + 1, 3)' /\ Counted' /\ ~EndsInLastPage'
        /\ blk' \in [1 .. 4 -> Int] /\ end' \in Nat /\ end' >= edata' /\ Above' = Above
    BY <1>2, <2>1, FreeOutcome DEF FreeBlock
  <2>3. Laid(2, 3)' /\ pc' = "free_p2" /\ blk'[3] = Above' + 2
    BY <1>2, <2>1, <2>2 DEF FreeBlock, Goto
  <2> QED
    BY <2>2, <2>3 DEF Inv, TypeInv, PcInv, BlkInv, PanicInv, Labels
<1>3. CASE pc = "free_p2" /\ FreeBlock(3, 1, "alloc_5")
  <2>1. Laid(2, 3) /\ Counted /\ ~EndsInLastPage /\ blk[3] = Above + 2
    BY <1>3 DEF Inv, PcInv, BlkInv, PanicInv, Early
  <2>2. /\ Laid(0, 0)' /\ Counted' /\ ~EndsInLastPage'
        /\ blk' \in [1 .. 4 -> Int] /\ end' \in Nat /\ end' >= edata'
    BY <1>3, <2>1, FreeOutcome DEF FreeBlock
  <2>3. pc' = "alloc_5"
    BY <1>3 DEF FreeBlock, Goto
  <2> QED
    BY <2>2, <2>3 DEF Inv, TypeInv, PcInv, BlkInv, PanicInv, Labels
<1> QED
  BY <1>1, <1>2, <1>3 DEF FreeP

LEMMA StepAllocFive ==
  ASSUME ImageAtKernbase, Inv, AllocFive
  PROVE  Inv'
<1>1. /\ pc = "alloc_5" /\ Laid(0, 0) /\ Counted /\ ~EndsInLastPage
      /\ Pagedb!spec_default_alloc_pages(5) /\ blk' = [blk EXCEPT ![4] = ret']
      /\ UNCHANGED <<end, layout, not_reserved, not_allocated>>
  BY DEF AllocFive, Inv, PcInv, PanicInv, Early
<1>2. /\ blk' \in [1 .. 4 -> Int] /\ GlobalsSet' /\ Counted' /\ ~EndsInLastPage'
      /\ end' \in Nat /\ end' >= edata'
      /\ \/ 0 + 5 <= Room /\ ret' # NULLPAGE /\ ret' = Above + 0 /\ Laid(0, 0 + 5)'
         \/ 0 + 5 > Room /\ ret' = NULLPAGE
  BY <1>1, AllocOutcome
<1>3. Room' = Room /\ Above' = Above /\ Room \in Int /\ Above \in Int /\ Above >= 2
  BY <1>1, EndFixed, Facts
<1>4. CASE ret' = NULLPAGE
  <2>1. pc' = "panic" /\ at' = "alloc_5" /\ Room' < 5
    BY <1>1, <1>2, <1>3, <1>4 DEF AllocFive, Assert, Panic
  <2> QED
    BY <1>2, <2>1 DEF Inv, TypeInv, PcInv, BlkInv, PanicInv, Labels
<1>5. CASE ret' # NULLPAGE
  <2>1. 5 <= Room /\ ret' = Above /\ Laid(0, 5)' /\ blk'[4] = Above'
    BY <1>1, <1>2, <1>3, <1>5 DEF Inv, TypeInv
  <2>2. PageAllocated(pages', ret')
    <3>1. Above \in Pages
      BY <1>3, <2>1, Constants DEF Room, Pages
    <3>2. pages' = Held(0, 5)
      BY <1>1, <2>1, EndFixed DEF Laid
    <3>3. pages'[Above] = {PG_allocated}
      BY <1>3, <3>1, <3>2 DEF Held
    <3> QED
      BY <2>1, <3>3 DEF PageAllocated
  <2>3. pc' = "free_5"
    BY <1>5, <2>2 DEF AllocFive, Assert, Goto
  <2> QED
    BY <1>2, <2>1, <2>3 DEF Inv, TypeInv, PcInv, BlkInv, PanicInv, Labels
<1> QED
  BY <1>4, <1>5

LEMMA StepFreeFive ==
  ASSUME ImageAtKernbase, Inv, FreeFive
  PROVE  Inv'
<1>1. /\ pc = "free_5" /\ Laid(0, 5) /\ Counted /\ ~EndsInLastPage /\ blk[4] = Above + 0
      /\ FreeBlock(4, 5, "recount")
  BY Facts DEF FreeFive, Inv, PcInv, BlkInv, PanicInv, Early
<1>2. /\ Laid(0, 0)' /\ Counted' /\ ~EndsInLastPage'
      /\ blk' \in [1 .. 4 -> Int] /\ end' \in Nat /\ end' >= edata'
  BY <1>1, FreeOutcome DEF FreeBlock
<1>3. pc' = "recount" /\ Room' >= 5
  BY <1>1, EndFixed DEF FreeBlock, Goto, Laid
<1> QED
  BY <1>2, <1>3 DEF Inv, TypeInv, PcInv, BlkInv, PanicInv, Labels

LEMMA StepRecount ==
  ASSUME ImageAtKernbase, Inv, Recount
  PROVE  Inv'
<1>1. /\ pc = "recount" /\ Laid(0, 0) /\ Counted /\ ~EndsInLastPage /\ Room >= 5
      /\ UNCHANGED <<end, layout, nr_free, pages, blk>>
  BY DEF Recount, Inv, PcInv, PanicInv, Early
<1>2. /\ NotReserved = Cardinality(WholePagesAbove) /\ NotAllocated = Cardinality(WholePagesAbove)
      /\ Cardinality(WholePagesAbove) \in Int
  BY <1>1, CountsOfNone, Facts DEF NotReserved, NotAllocated, Laid
<1>3. not_reserved' = 0 /\ not_allocated' = 0
  BY <1>1, <1>2 DEF Recount, Counted
<1>4. pc' = "satp"
  BY <1>3 DEF Recount, Assert, Goto
<1>5. TypeInv' /\ Laid(0, 0)' /\ ~EndsInLastPage' /\ Room' >= 5
  BY <1>1, <1>4, EndFixed DEF Inv, TypeInv, Labels, edata, boot_page_table_sv39, Laid, GlobalsSet, layout
<1> QED
  BY <1>4, <1>5 DEF Inv, PcInv, BlkInv, PanicInv

LEMMA StepSatp ==
  ASSUME Inv, SetSatpPhysical
  PROVE  Inv'
<1>1. /\ pc = "satp" /\ Laid(0, 0) /\ Room >= 5 /\ ~EndsInLastPage /\ pc' = "booted"
      /\ UNCHANGED <<end, va_pa_offset, nbase, npage, nr_free, pages, blk>>
  BY DEF SetSatpPhysical, Goto, Inv, PcInv, PanicInv, Early
<1>2. TypeInv' /\ Laid(0, 0)' /\ ~EndsInLastPage' /\ Room' >= 5
  BY <1>1, EndFixed DEF Inv, TypeInv, Labels, edata, boot_page_table_sv39, Laid, GlobalsSet
<1> QED
  BY <1>1, <1>2 DEF Inv, PcInv, BlkInv, PanicInv

LEMMA InvNext ==
  ASSUME ImageAtKernbase, Inv, [Next]_vars
  PROVE  Inv'
<1>1. CASE UNCHANGED vars
  <2>1. UNCHANGED <<end, va_pa_offset, nbase, npage, nr_free, pages, pc, at, blk,
                    not_reserved, not_allocated>>
    BY <1>1 DEF vars, layout
  <2>2. TypeInv' /\ BlkInv' /\ PanicInv'
    BY <2>1, EndFixed DEF Inv, TypeInv, BlkInv, PanicInv, GlobalsSet, edata, boot_page_table_sv39
  <2>3. PcInv'
    BY <2>1, EndFixed DEF Inv, PcInv, Laid, GlobalsSet, Counted
  <2> QED
    BY <2>2, <2>3 DEF Inv
<1> QED
  BY <1>1, StepEarly, StepMapMemory, StepCount, StepAllocP, StepCompare, StepFreeP,
     StepAllocFive, StepFreeFive, StepRecount, StepSatp DEF Next

\* Inv holds in every reachable state of kern_entry, kern_init and pmm_init.
THEOREM BootInvariant == Spec => []Inv
<1>1. Init => Inv
  BY InvInit, LayoutConstants DEF OneLayout
<1>2. Inv /\ [Next]_vars => Inv'
  BY InvNext, LayoutConstants DEF OneLayout
<1> QED
  BY <1>1, <1>2, PTL DEF Spec

\* When pmm_init is done, exactly the whole pages above the image are
\* available and nr_free counts them: see BootedLayout in PmmBoot.
THEOREM BootLayout == Spec => []BootedLayout
<1>0. ImageAtKernbase
  BY LayoutConstants DEF OneLayout
<1>1. Inv => BootedLayout
  <2> SUFFICES ASSUME Inv, pc = "booted"
               PROVE  /\ Available(pages) = WholePagesAbove
                      /\ \A q \in Pages \ WholePagesAbove : pages[q] = {PG_reserved}
                      /\ nr_free = Cardinality(WholePagesAbove)
    BY DEF BootedLayout
  <2>1. pages = Held(0, 0) /\ nr_free = Room - (0 - 0)
    BY DEF Inv, PcInv, Laid
  <2>2. Available(pages) = WholePagesAbove /\ nr_free = Cardinality(WholePagesAbove)
    BY <1>0, <2>1, CountsOfNone, Facts
  <2>3. ASSUME NEW q \in Pages \ WholePagesAbove PROVE pages[q] = {PG_reserved}
    <3>1. q < Above
      BY <1>0, Facts, Constants DEF Pages
    <3> QED
      BY <2>1, <3>1 DEF Held
  <2> QED
    BY <2>2, <2>3
<1> QED
  BY <1>1, BootInvariant, PTL

\* Boot succeeds exactly if five whole pages are left above the image, and
\* panics in pa2page exactly if the image ends in the last page: see
\* BootOutcome in PmmBoot.
THEOREM BootEnds == Spec => []BootOutcome
<1>0. ImageAtKernbase
  BY LayoutConstants DEF OneLayout
<1>1. Inv => BootOutcome
  <2> SUFFICES ASSUME Inv PROVE BootOutcome
    OBVIOUS
  <2>1. Cardinality(WholePagesAbove) = Room
    BY <1>0, Facts
  <2>2. ASSUME pc = "panic"
        PROVE  PADDR(end) > page2pa(NPAGE - 1) /\ PADDR(end) < KERNEL_MEMEND_PADDR
                 <=> EndsInLastPage
    <3>1. GlobalsSet
      BY <2>2 DEF Inv, PanicInv
    <3>2. PADDR(end) = end - PHYSICAL_MEMORY_OFFSET /\ KERNEL_MEMEND_PADDR = (NBASE + NPAGE) * PGSIZE
      BY <1>0, <3>1, MapArguments
    <3>3. page2pa(NPAGE - 1) = (NBASE + NPAGE - 1) * PGSIZE
      <4>1. NPAGE - 1 + NBASE = NBASE + NPAGE - 1
        BY Constants
      <4> QED
        BY <3>1, <4>1 DEF page2pa, page2ppn, GlobalsSet
    <3> QED
      BY <3>2, <3>3 DEF EndsInLastPage
  <2> QED
    BY <2>1, <2>2 DEF Inv, PcInv, PanicInv, BootOutcome
<1> QED
  BY <1>1, BootInvariant, PTL

-----------------------------------------------------------------------------
(***************************************************************************)
(* The boot page table is in the second page of the image; its last entry  *)
(* maps the last gigabyte. The table keeps that entry through the boot     *)
(* although memset clears the bss next to it.                              *)
(***************************************************************************)
RootPage  == NBASE + 1
LastEntry == PageTableEntry(PPN(ENTRY_PBASE), VRWXAD)
TableInv ==
  /\ pc # "kern_entry" => satp = RootPage
  /\ table \in [0 .. SV39_NENTRY - 1 -> Int] /\ table[SV39_NENTRY - 1] = LastEntry
  /\ pc = "booted" => satp_physical = RootPage * PGSIZE

LEMMA DivIs ==
  ASSUME NEW a \in Nat, NEW k \in Nat \ {0}, NEW m \in Int, m * k <= a, a < m * k + k
  PROVE  a \div k = m
  OBVIOUS

LEMMA Associate ==
  ASSUME NEW a \in Int, NEW b \in Int, NEW c \in Int
  PROVE  a * (b * c) = (a * c) * b /\ a * b \in Int
  OBVIOUS

\* The numbers of the page table.
LEMMA Sizes ==
  ASSUME OneLayout
  PROVE  /\ SV39_NENTRY \in Nat \ {0} /\ SV39_NENTRY ^ 2 \in Nat \ {0} /\ GigaPage \in Nat \ {0}
         /\ KERNBASE \in Nat /\ KERNTOP \in Nat /\ ENTRY_VBASE \in Nat /\ ENTRY_PBASE \in Nat
<1> USE Constants
<1>1. SV39_NENTRY \in Nat \ {0} /\ ENTRY_VBASE \in Nat /\ ENTRY_PBASE \in Nat
  BY BootConstants
<1>2. SV39_NENTRY ^ 2 \in Int
  BY <1>1
<1>3. NBASE * PGSIZE \in Nat /\ NPAGE * PGSIZE \in Nat \ {0}
  OBVIOUS
<1>4. KERNBASE \in Nat /\ KERNTOP \in Nat /\ KERNBASE < KERNTOP
  BY <1>3 DEF KERNBASE, KERNTOP, KERNEL_BEGIN_PADDR
<1> DEFINE S == SV39_NENTRY ^ 2
<1> HIDE DEF S
<1>5. GigaPage = PGSIZE * S /\ S \in Int
  BY <1>2 DEF GigaPage, S
<1>6. GigaPage \in Int /\ GigaPage > 0
  BY <1>1, <1>4, <1>5 DEF OneLayout
<1>7. S > 0
  BY <1>5, <1>6
<1> QED
  BY <1>1, <1>4, <1>5, <1>6, <1>7 DEF S

\* The pages of the table, by the loader and by entry.S.
\* entry.S and the loader mean the same page by the table's address.
LEMMA Root ==
  ASSUME OneLayout
  PROVE  /\ PPN(boot_page_table_sv39 - (ENTRY_VBASE - ENTRY_PBASE)) = RootPage
         /\ LoadAddress(boot_page_table_sv39) = RootPage * PGSIZE
         /\ boot_page_table_sv39 - PHYSICAL_MEMORY_OFFSET = RootPage * PGSIZE
<1> USE Constants
<1>1. RootPage * PGSIZE = NBASE * PGSIZE + PGSIZE /\ NBASE * PGSIZE \in Nat /\ RootPage \in Nat
  BY Distribute DEF RootPage
<1>2. boot_page_table_sv39 - PHYSICAL_MEMORY_OFFSET = RootPage * PGSIZE
  BY <1>1 DEF OneLayout, ImageAtKernbase, boot_page_table_sv39, KERNBASE, KERNEL_BEGIN_PADDR
<1>3. LoadAddress(boot_page_table_sv39) = RootPage * PGSIZE
  BY <1>1 DEF LoadAddress, OneLayout, ImageAtKernbase, boot_page_table_sv39, KERNBASE,
     KERNEL_BEGIN_PADDR
<1>4. PPN(RootPage * PGSIZE) = RootPage
  BY <1>1, Multiple DEF PPN
<1> QED
  BY <1>2, <1>3, <1>4 DEF OneLayout

\* Every kernel address is looked up in the last entry.
\* Every address of the kernel is in the last gigabyte.
LEMMA LastIndex ==
  ASSUME OneLayout, NEW va \in KERNBASE .. KERNTOP - 1
  PROVE  /\ SV39_VPN(va, 2) = SV39_NENTRY - 1
         /\ va % GigaPage = va - ENTRY_VBASE
<1> USE Constants, Sizes
<1> DEFINE N == SV39_NENTRY
           S == SV39_NENTRY ^ 2
           G == GigaPage
<1>1. /\ N \in Nat \ {0} /\ S \in Nat \ {0} /\ G \in Nat \ {0} /\ va \in Nat
      /\ ENTRY_VBASE = (N - 1) * G /\ ENTRY_VBASE <= va /\ va < ENTRY_VBASE + G
  BY DEF OneLayout
<1>2. G = PGSIZE * S /\ SV39_VPN(va, 2) = (PPN(va) \div S) % N
  BY DEF GigaPage, SV39_VPN
<1> HIDE DEF N, S, G
<1>3. va % G = va - ENTRY_VBASE
  <2> DEFINE m == N - 1
             r == va - ENTRY_VBASE
  <2>1. m \in Nat /\ ENTRY_VBASE = m * G /\ m * G \in Int
    BY <1>1
  <2> HIDE DEF m
  <2>2. r \in 0 .. G - 1 /\ va = m * G + r
    BY <1>1, <2>1
  <2> HIDE DEF r
  <2>3. va % G = r
    BY <1>1, <2>1, <2>2, ModIs
  <2> QED
    BY <2>3 DEF r
<1>4. PPN(va) \div S = N - 1
  <2> DEFINE p == va \div PGSIZE
             low == (N - 1) * S
  <2>1. p \in Int /\ p * PGSIZE <= va /\ va < p * PGSIZE + PGSIZE
    BY <1>1, DivBounds
  <2>2. p \in Nat
    <3>1. va \div PGSIZE >= 0
      BY <1>1
    <3> QED
      BY <2>1, <3>1
  <2> HIDE DEF p
  <2>3. low \in Int /\ low * PGSIZE = ENTRY_VBASE /\ (low + S) * PGSIZE = ENTRY_VBASE + G
    <3>1. low \in Int /\ low * PGSIZE = ENTRY_VBASE
      BY <1>1, <1>2, Associate
    <3>2. (low + S) * PGSIZE = low * PGSIZE + S * PGSIZE
      BY <1>1, <3>1, Distribute
    <3>3. S * PGSIZE = PGSIZE * S
      BY <1>1
    <3> QED
      BY <1>2, <3>1, <3>2, <3>3
  <2> HIDE DEF low
  <2>4. low <= p
    <3>1. (p + 1) * PGSIZE = p * PGSIZE + PGSIZE /\ p * PGSIZE \in Int
      BY <2>1, Distribute
    <3>2. low * PGSIZE < (p + 1) * PGSIZE
      BY <1>1, <2>1, <2>3, <3>1
    <3>3. low < p + 1
      BY <2>1, <2>3, <3>2, Monotone
    <3> QED
      BY <2>1, <2>3, <3>3
  <2>5. p < low + S
    <3>1. p * PGSIZE < (low + S) * PGSIZE
      BY <1>1, <2>1, <2>3
    <3> QED
      BY <1>1, <2>1, <2>3, <3>1, Monotone
  <2>6. p \div S = N - 1
    <3> DEFINE m == N - 1
    <3>1. m * S <= p /\ p < m * S + S /\ m \in Int
      BY <1>1, <2>4, <2>5 DEF low
    <3> HIDE DEF m
    <3>2. p \div S = m
      BY <1>1, <2>2, <3>1, DivIs
    <3> QED
      BY <3>2 DEF m
  <2> QED
    BY <2>6 DEF p, PPN
<1>5. (N - 1) % N = N - 1
  <2>1. N - 1 \in 0 .. N - 1 /\ N - 1 = 0 * N + (N - 1) /\ N - 1 \in Nat
    BY <1>1
  <2> QED
    BY <1>1, <2>1, ModIs
<1> QED
  BY <1>2, <1>3, <1>4, <1>5 DEF N, G

\* The entry is valid and readable and points at ENTRY_PBASE.
LEMMA EntryFields ==
  ASSUME OneLayout
  PROVE  /\ LastEntry \in Int /\ HasBit(LastEntry, PTE_V) /\ HasBit(LastEntry, PTE_R)
         /\ (LastEntry \div 2 ^ SV39_PTE_PPN_SHIFT) * PGSIZE = ENTRY_PBASE
<1> USE Constants
<1> DEFINE p == PPN(ENTRY_PBASE)
<1>1. p \in Nat /\ p * PGSIZE = ENTRY_PBASE
  <2> DEFINE g == ENTRY_PBASE \div GigaPage
  <2>1. g \in Nat /\ ENTRY_PBASE = g * GigaPage
    <3>1. GigaPage \in Nat \ {0} /\ ENTRY_PBASE \in Nat /\ ENTRY_PBASE % GigaPage = 0
      BY Sizes DEF OneLayout
    <3>2. ROUNDDOWN(ENTRY_PBASE, GigaPage) = ENTRY_PBASE
      BY <3>1 DEF ROUNDDOWN
    <3>3. ENTRY_PBASE \div GigaPage \in Nat
      BY <3>1, QuotientNat
    <3> QED
      BY <3>1, <3>2, <3>3, RoundDown
  <2> HIDE DEF g
  <2> DEFINE S == SV39_NENTRY ^ 2
  <2>2. S \in Nat \ {0} /\ ENTRY_PBASE = g * (PGSIZE * S)
    BY <2>1, Sizes DEF GigaPage
  <2> HIDE DEF S
  <2>3. g * S \in Nat /\ ENTRY_PBASE = (g * S) * PGSIZE
    <3>1. g * S \in Nat
      BY <2>1, <2>2
    <3> QED
      BY <2>1, <2>2, <3>1, Associate, Constants
  <2> QED
    BY <2>3, Multiple DEF PPN
<1>2. 2 ^ SV39_PTE_PPN_SHIFT = 1024
  <2>1. 2 ^ 10 = 1024
    OBVIOUS
  <2> QED
    BY <2>1 DEF SV39_PTE_PPN_SHIFT
<1>3. LastEntry = p * 1024 + 207
  BY <1>2 DEF LastEntry, PageTableEntry, VRWXAD
<1> HIDE DEF p
<1>4. LastEntry \in Int /\ HasBit(LastEntry, PTE_V) /\ HasBit(LastEntry, PTE_R)
  BY <1>1, <1>3 DEF HasBit, PTE_V, PTE_R
<1>5. LastEntry \div 1024 = p
  BY <1>1, <1>3
<1> QED
  BY <1>1, <1>2, <1>4, <1>5

\* So the hart's walk subtracts the offset.
LEMMA Translated ==
  ASSUME OneLayout, satp = RootPage, table[SV39_NENTRY - 1] = LastEntry,
         NEW va \in KERNBASE .. KERNTOP - 1
  PROVE  Translate(va) = va - PHYSICAL_MEMORY_OFFSET
<1>1. satp * PGSIZE = LoadAddress(boot_page_table_sv39)
  BY Root
<1>2. table[SV39_VPN(va, 2)] = LastEntry /\ va % GigaPage = va - ENTRY_VBASE
  BY LastIndex
<1>3. Translate(va) = ENTRY_PBASE + (va - ENTRY_VBASE)
  BY <1>1, <1>2, EntryFields DEF Translate
<1>4. va \in Int /\ ENTRY_PBASE \in Int /\ ENTRY_VBASE \in Int
  BY Sizes
<1> QED
  BY <1>3, <1>4 DEF OneLayout

LEMMA TableInit == ASSUME OneLayout PROVE Init => TableInv
<1> SUFFICES ASSUME Init PROVE TableInv
  OBVIOUS
<1>1. table = BootPageTable /\ pc = "kern_entry"
  BY DEF Init
<1>2. SV39_NENTRY - 1 \in 0 .. SV39_NENTRY - 1
  BY Sizes
<1>3. LastEntry \in Int
  BY EntryFields
<1>4. BootPageTable \in [0 .. SV39_NENTRY - 1 -> Int] /\ BootPageTable[SV39_NENTRY - 1] = LastEntry
  BY <1>2, <1>3 DEF BootPageTable, LastEntry
<1> QED
  BY <1>1, <1>4 DEF TableInv

\* The bss starts above the table.
LEMMA TableStep ==
  ASSUME OneLayout, Inv, TableInv, [Next]_vars
  PROVE  TableInv'
<1>1. CASE kern_entry
  BY <1>1, Root DEF kern_entry, Goto, TableInv
<1>2. CASE ClearBss
  <2>1. /\ pc = "clear_bss" /\ pc' = "init_pmm_manager" /\ UNCHANGED <<end, satp>>
        /\ table' = [i \in DOMAIN table |->
                       IF boot_page_table_sv39 + i \in edata .. end - 1 THEN 0 ELSE table[i]]
    BY <1>2 DEF ClearBss, Goto
  <2>2. table \in [0 .. SV39_NENTRY - 1 -> Int] /\ table[SV39_NENTRY - 1] = LastEntry
    BY DEF TableInv
  <2>3. boot_page_table_sv39 + (SV39_NENTRY - 1) \notin edata .. end - 1
    <3>1. SV39_NENTRY \in Nat \ {0} /\ SV39_NENTRY <= PGSIZE /\ BASE_ADDRESS \in Nat
      BY Sizes, BootConstants DEF OneLayout
    <3> QED
      BY <3>1, Constants DEF edata, boot_page_table_sv39
  <2>4. SV39_NENTRY - 1 \in 0 .. SV39_NENTRY - 1
    BY Sizes
  <2>5. table' \in [0 .. SV39_NENTRY - 1 -> Int] /\ table'[SV39_NENTRY - 1] = LastEntry
    BY <2>1, <2>2, <2>3, <2>4
  <2> QED
    BY <2>1, <2>5 DEF TableInv
<1>3. CASE SetSatpPhysical
  <2>1. satp_physical' = boot_page_table_sv39 - PHYSICAL_MEMORY_OFFSET
    BY <1>3 DEF SetSatpPhysical, PADDR, Inv, PcInv, Laid, GlobalsSet
  <2> QED
    BY <1>3, <2>1, Root DEF SetSatpPhysical, Goto, paging, TableInv
<1>4. CASE UNCHANGED vars
  BY <1>4 DEF vars, paging, layout, TableInv
<1>5. CASE init_pmm_manager \/ ReserveAll \/ MapMemory \/ Count \/ AllocP \/ Compare \/ FreeP
           \/ AllocFive \/ FreeFive \/ Recount
  <2>1. UNCHANGED <<satp, table>> /\ pc # "kern_entry" /\ pc' # "kern_entry" /\ pc' # "booted"
    <3>1. CASE init_pmm_manager \/ ReserveAll \/ MapMemory \/ Count
      BY <3>1 DEF init_pmm_manager, ReserveAll, MapMemory, Count, Assert, Goto, Panic, paging
    <3>2. CASE AllocP \/ Compare \/ FreeP
      BY <3>2 DEF AllocP, AllocInto, Compare, FreeP, FreeBlock, Assert, Goto, Panic, paging
    <3>3. CASE AllocFive \/ FreeFive \/ Recount
      BY <3>3 DEF AllocFive, FreeFive, FreeBlock, Recount, Assert, Goto, Panic, paging
    <3> QED
      BY <1>5, <3>1, <3>2, <3>3
  <2> QED
    BY <2>1 DEF TableInv
<1> QED
  BY <1>1, <1>2, <1>3, <1>4, <1>5 DEF Next

\* From the moment satp is written, the hart translates every kernel address
\* to the address the loader put it at and PADDR computes; satp_physical is
\* where the table is: see MappingAgrees in PmmBoot.
THEOREM MappingIsOne == Spec => []MappingAgrees
<1> USE LayoutConstants
<1>0. ImageAtKernbase
  BY DEF OneLayout
<1>1. Inv /\ TableInv => MappingAgrees
  <2> SUFFICES ASSUME Inv, TableInv PROVE MappingAgrees
    OBVIOUS
  <2>1. ASSUME pc # "kern_entry", NEW va \in KERNBASE .. KERNTOP - 1
        PROVE  Translate(va) = va - PHYSICAL_MEMORY_OFFSET
    BY <2>1, Translated DEF TableInv
  <2>2. ASSUME NEW va \in KERNBASE .. KERNTOP - 1
        PROVE  LoadAddress(va) = va - PHYSICAL_MEMORY_OFFSET
    <3>1. va \in Int /\ NBASE * PGSIZE \in Int
      BY Sizes, Constants
    <3> QED
      BY <1>0, <3>1, Constants DEF ImageAtKernbase, LoadAddress, KERNBASE, KERNEL_BEGIN_PADDR
  <2>3. ASSUME pc \notin Early PROVE GlobalsSet
    BY <2>3 DEF Inv, TypeInv, PcInv, PanicInv, Laid, Labels
  <2>4. ASSUME pc \notin Early, NEW q \in Pages
        PROVE  Translate(page2pa(q) + va_pa_offset) = page2pa(q)
    <3> DEFINE a == (q + NBASE) * PGSIZE
    <3>1. page2pa(q) = a /\ va_pa_offset = PHYSICAL_MEMORY_OFFSET
      BY <2>3, <2>4 DEF GlobalsSet, page2pa, page2ppn
    <3>2. q \in 0 .. NPAGE - 1
      BY DEF Pages
    <3>3. a \in Int /\ NBASE * PGSIZE <= a /\ a < NBASE * PGSIZE + NPAGE * PGSIZE
      <4>1. /\ (NBASE + NPAGE) * PGSIZE = NBASE * PGSIZE + NPAGE * PGSIZE
            /\ NBASE <= q + NBASE /\ q + NBASE < NBASE + NPAGE /\ q + NBASE \in Int
        BY <3>2, Constants, Distribute
      <4> QED
        BY <4>1, Constants, Monotone
    <3> HIDE DEF a
    <3>4. a + PHYSICAL_MEMORY_OFFSET \in KERNBASE .. KERNTOP - 1
      <4>1. NBASE * PGSIZE \in Int /\ NPAGE * PGSIZE \in Int
        BY Constants
      <4> QED
        BY <3>3, <4>1, Constants DEF KERNBASE, KERNTOP, KERNEL_BEGIN_PADDR
    <3>5. Translate(a + PHYSICAL_MEMORY_OFFSET) = (a + PHYSICAL_MEMORY_OFFSET) - PHYSICAL_MEMORY_OFFSET
      BY <2>1, <2>4, <3>4 DEF Early
    <3> QED
      BY <3>1, <3>3, <3>5, Constants
  <2>5. pc \notin Early => \A va : PADDR(va) = va - PHYSICAL_MEMORY_OFFSET
    BY <2>3 DEF PADDR, GlobalsSet
  <2>6. pc = "booted" => satp * PGSIZE = satp_physical
    BY DEF TableInv
  <2>7. Available(pages) \subseteq Pages
    BY DEF Available
  <2> QED
    BY <2>1, <2>2, <2>4, <2>5, <2>6, <2>7 DEF MappingAgrees, Early
<1>2. ASSUME Inv, TableInv, [Next]_vars PROVE TableInv'
  BY <1>2, TableStep
<1>3. Spec => []Inv
  BY <1>0, BootInvariant
<1>4. Init => TableInv
  BY TableInit
<1> QED
  BY <1>1, <1>2, <1>3, <1>4, PTL DEF Spec
=============================================================================
