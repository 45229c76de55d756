------------------------------ MODULE PmmBoot ------------------------------
(***************************************************************************)
(* The kernel's boot: kern_entry of entry.S turns translation on,          *)
(* kern_init clears the bss, and pmm_init of kern/mm/pmm.c sets the        *)
(* allocator up, hands it the memory above the kernel image and lets       *)
(* default_check of default_pmm.c try it out. Where the image ends is the  *)
(* linker's choice, so "end" is any address it can be loaded up to.        *)
(*                                                                         *)
(* The offset between virtual and physical addresses is written down four  *)
(* times in the source (entry.S twice, memlayout.h, kernel.ld); here each  *)
(* is a constant of its own. Addresses are those of the 39 bits that Sv39  *)
(* translates.                                                             *)
(*                                                                         *)
(* The calls into the manager are the steps of PagedbSpec, which           *)
(* DefaultPmm implements: interrupts are off during boot (Kernel), so a    *)
(* call is not disturbed between its loops.                                *)
(***************************************************************************)
EXTENDS PageDefs

CONSTANTS
  PGSIZE,                   \* bytes per page (4096)
  SV39_NENTRY,              \* entries per page table (512)
  NBASE,                    \* number of the first physical page (0x80200)
  PHYSICAL_MEMORY_OFFSET,   \* from physical to kernel virtual addresses
  BASE_ADDRESS,             \* where kernel.ld links the image
  ENTRY_VBASE, ENTRY_PBASE  \* 0xffffffffc0000000 and 0x80000000 in entry.S

ASSUME BootConstants ==
  /\ PGSIZE \in Nat \ {0} /\ SV39_NENTRY \in Nat \ {0} /\ NBASE \in Nat
  /\ PHYSICAL_MEMORY_OFFSET \in Nat /\ BASE_ADDRESS \in Nat
  /\ ENTRY_VBASE \in Nat /\ ENTRY_PBASE \in Nat /\ ENTRY_PBASE <= ENTRY_VBASE

VARIABLES
  end,              \* the linker symbol
  satp,             \* the root page number the hart walks from, 0 before
  table,            \* the entries of boot_page_table_sv39
  va_pa_offset, nbase, npage, satp_physical,   \* globals of pmm.c
  nr_free, pages,   \* the allocator: see DefaultPmm
  ret,              \* what the last call of the manager returned
  pc,               \* where pmm_init is; "booted" or "panic" at its end
  at,               \* the step that panicked, "" before
  blk,              \* p0, p1, p2 of basic_check, and p0 of default_check
  not_reserved, not_allocated   \* locals of default_check

paging == <<satp, table>>
layout == <<va_pa_offset, nbase, npage, satp_physical>>
vars   == <<end, paging, layout, nr_free, pages, ret, pc, at, blk, not_reserved, not_allocated>>

Pagedb == INSTANCE PagedbSpec WITH nrfree <- nr_free, flag <- pages

-----------------------------------------------------------------------------
(***************************************************************************)
(* Addresses.                                                              *)
(***************************************************************************)
ROUNDDOWN(a, k) == a - (a % k)
\* Mutant: the page the kernel image ends in is given away.
ROUNDUPisDown(a, k) == ROUNDDOWN(a, k)
ROUNDUP(a, k)   == ROUNDDOWN(a + k - 1, k)

KERNEL_BEGIN_PADDR  == NBASE * PGSIZE
KERNEL_MEMEND_PADDR == KERNEL_BEGIN_PADDR + NPAGE * PGSIZE
KERNBASE            == KERNEL_BEGIN_PADDR + PHYSICAL_MEMORY_OFFSET
KERNTOP             == KERNBASE + NPAGE * PGSIZE

PPN(pa)      == pa \div PGSIZE
\* The panic for kva < KERNBASE is left out: both calls pass an address inside
\* the image, which starts at KERNBASE.
PADDR(kva)   == kva - va_pa_offset
page2ppn(q)  == q + nbase
page2pa(q)   == page2ppn(q) * PGSIZE
pa2page(pa)  == PPN(pa) - nbase                \* PPN(pa) < npage

\* Where the loader puts a byte of the image.
LoadAddress(va) == va - BASE_ADDRESS + KERNEL_BEGIN_PADDR

\* The smallest image: a page of text, then the data section with the table.
boot_page_table_sv39 == BASE_ADDRESS + PGSIZE
edata                == boot_page_table_sv39 + PGSIZE

-----------------------------------------------------------------------------
(***************************************************************************)
(* Sv39: indexes, entries, and the walk the hart makes. The table has one  *)
(* level, so an entry is a leaf of the size of a whole index or invalid.   *)
(***************************************************************************)
SV39_VPN(la, k) == (PPN(la) \div SV39_NENTRY ^ k) % SV39_NENTRY
GigaPage        == PGSIZE * SV39_NENTRY ^ 2

SV39_PTE_PPN_SHIFT == 10
PTE_V == 1
PTE_R == 2
VRWXAD == 207                                  \* 0xcf
HasBit(pte, bit) == (pte \div bit) % 2 = 1
PageTableEntry(ppn, flags) == ppn * 2 ^ SV39_PTE_PPN_SHIFT + flags

\* .zero 8 * 511 and one entry for the last gigabyte.
BootPageTable ==
  [i \in 0 .. SV39_NENTRY - 1 |->
     IF i = SV39_NENTRY - 1 THEN PageTableEntry(PPN(ENTRY_PBASE), VRWXAD) ELSE 0]

Fault == -1
Translate(va) ==
  LET root == satp * PGSIZE
      pte  == IF root = LoadAddress(boot_page_table_sv39) THEN table[SV39_VPN(va, 2)] ELSE 0
  IN  IF HasBit(pte, PTE_V) /\ HasBit(pte, PTE_R)
      THEN (pte \div 2 ^ SV39_PTE_PPN_SHIFT) * PGSIZE + (va % GigaPage)
      ELSE Fault

(***************************************************************************)
(* What the linker script, entry.S and memlayout.h agree on: the image is  *)
(* linked at the kernel's base, both offsets are the same, and the last    *)
(* entry of the table covers all of the kernel's memory.                   *)
(***************************************************************************)
ImageAtKernbase == BASE_ADDRESS = KERNBASE
OneLayout ==
  /\ ImageAtKernbase
  /\ ENTRY_VBASE - ENTRY_PBASE = PHYSICAL_MEMORY_OFFSET
  /\ ENTRY_VBASE = (SV39_NENTRY - 1) * GigaPage
  /\ ENTRY_PBASE % GigaPage = 0
  /\ ENTRY_VBASE <= KERNBASE /\ KERNTOP <= ENTRY_VBASE + GigaPage
  /\ SV39_NENTRY <= PGSIZE

ASSUME LayoutConstants == OneLayout

\* Whole pages of memory above the kernel image.
WholePagesAbove ==
  {q \in Pages : (q + NBASE) * PGSIZE >= end - PHYSICAL_MEMORY_OFFSET}

-----------------------------------------------------------------------------
Goto(label) == pc' = label /\ UNCHANGED at
Panic       == pc' = "panic" /\ at' = pc
\* assert(c) where the next step would be label.
Assert(c, label) == IF c THEN Goto(label) ELSE Panic

\* OpenSBI has loaded the image; the bss holds anything.
Init ==
  /\ end \in edata .. BASE_ADDRESS + (NPAGE + 1) * PGSIZE
  /\ satp = 0
  /\ table = BootPageTable
  /\ va_pa_offset = 0 /\ nbase = 0 /\ npage = 0 /\ satp_physical = 0
  /\ \E junk \in Flags : pages = [q \in Pages |-> junk]
  /\ nr_free \in {0, 1}
  /\ ret = Void
  /\ pc = "kern_entry" /\ at = ""
  /\ blk = <<NULLPAGE, NULLPAGE, NULLPAGE, NULLPAGE>>
  /\ not_reserved = 0 /\ not_allocated = 0

\* entry.S: the physical page number of the table goes into satp.
kern_entry ==
  /\ pc = "kern_entry"
  /\ satp' = PPN(boot_page_table_sv39 - (ENTRY_VBASE - ENTRY_PBASE))
  /\ Goto("clear_bss")
  /\ UNCHANGED <<end, table, layout, nr_free, pages, ret, blk, not_reserved, not_allocated>>

\* Mutant: everything after the text is cleared.
ClearFromData ==
  /\ pc = "clear_bss"
  /\ table' = [i \in DOMAIN table |-> 0]
  /\ nr_free' = 0
  /\ pages' = [q \in Pages |-> {}]
  /\ Goto("init_pmm_manager")
  /\ UNCHANGED <<end, satp, layout, ret, blk, not_reserved, not_allocated>>

\* kern_init: memset(edata, 0, end - edata). Entries are one unit long here.
ClearBss ==
  /\ pc = "clear_bss"
  /\ table' = [i \in DOMAIN table |->
                 IF boot_page_table_sv39 + i \in edata .. end - 1 THEN 0 ELSE table[i]]
  /\ nr_free' = 0
  /\ pages' = [q \in Pages |-> {}]
  /\ Goto("init_pmm_manager")
  /\ UNCHANGED <<end, satp, layout, ret, blk, not_reserved, not_allocated>>

init_pmm_manager ==
  /\ pc = "init_pmm_manager"
  /\ nr_free' = 0
  /\ Goto("page_init")
  /\ UNCHANGED <<end, paging, layout, pages, ret, blk, not_reserved, not_allocated>>

\* page_init: the globals, then every descriptor is cleared and marked reserved.
ReserveAll ==
  /\ pc = "page_init"
  /\ va_pa_offset' = PHYSICAL_MEMORY_OFFSET
  /\ nbase' = NBASE
  /\ npage' = NBASE + NPAGE
  /\ pages' = [q \in Pages |-> {PG_reserved}]
  /\ Goto("map_memory")
  /\ UNCHANGED <<end, paging, satp_physical, nr_free, ret, blk, not_reserved, not_allocated>>

(***************************************************************************)
(* page_init: the memory from the page after the image to the end. When    *)
(* the image ends inside the last page there is no page after it, and      *)
(* pa2page panics; the test "freemem < mem_end" does not exclude that.     *)
(***************************************************************************)
MapMemory ==
  /\ pc = "map_memory"
  /\ LET freemem   == PADDR(end)
         mem_begin == ROUNDUP(freemem, PGSIZE)
         rounded   == ROUNDDOWN(KERNEL_MEMEND_PADDR, PGSIZE)
         mem_end   == IF rounded > npage * PGSIZE THEN npage * PGSIZE ELSE rounded
     IN  \/ /\ ~(freemem < mem_end)
            /\ Goto("count")
            /\ UNCHANGED <<nr_free, pages, ret>>
         \/ /\ freemem < mem_end
            /\ PPN(mem_begin) >= npage
            /\ Panic
            /\ UNCHANGED <<nr_free, pages, ret>>
         \/ /\ freemem < mem_end
            /\ PPN(mem_begin) < npage
            /\ Pagedb!spec_default_init_memmap(pa2page(mem_begin), (mem_end - mem_begin) \div PGSIZE)
            /\ Assert(ret' = 0, "count")
  /\ UNCHANGED <<end, paging, layout, blk, not_reserved, not_allocated>>

-----------------------------------------------------------------------------
(***************************************************************************)
(* default_check and basic_check.                                          *)
(***************************************************************************)
NotReserved  == Cardinality({q \in Pages : ~PageReserved(pages, q)})
NotAllocated == Cardinality(Available(pages))

Count ==
  /\ pc = "count"
  /\ not_reserved' = NotReserved
  /\ not_allocated' = NotAllocated
  /\ Pagedb!spec_default_nr_free_pages
  /\ Assert(not_allocated' = ret', "alloc_p0")
  /\ UNCHANGED <<end, paging, layout, blk>>

\* blk[i] = alloc_pages(k), asserted not to fail.
AllocInto(i, k, label) ==
  /\ Pagedb!spec_default_alloc_pages(k)
  /\ blk' = [blk EXCEPT ![i] = ret']
  /\ Assert(ret' # NULLPAGE, label)
  /\ UNCHANGED <<end, paging, layout, not_reserved, not_allocated>>

AllocP ==
  \/ pc = "alloc_p0" /\ AllocInto(1, 1, "alloc_p1")
  \/ pc = "alloc_p1" /\ AllocInto(2, 1, "alloc_p2")
  \/ pc = "alloc_p2" /\ AllocInto(3, 1, "compare")

Compare ==
  /\ pc = "compare"
  /\ Assert(/\ blk[1] # blk[2] /\ blk[1] # blk[3] /\ blk[2] # blk[3]
            /\ \A i \in 1 .. 3 : page2pa(blk[i]) < npage * PGSIZE, "free_p0")
  /\ UNCHANGED <<end, paging, layout, nr_free, pages, ret, blk, not_reserved, not_allocated>>

FreeBlock(i, k, label) ==
  /\ Pagedb!spec_default_free_pages(blk[i], k)
  /\ Goto(label)
  /\ UNCHANGED <<end, paging, layout, blk, not_reserved, not_allocated>>

FreeP ==
  \/ pc = "free_p0" /\ FreeBlock(1, 1, "free_p1")
  \/ pc = "free_p1" /\ FreeBlock(2, 1, "free_p2")
  \/ pc = "free_p2" /\ FreeBlock(3, 1, "alloc_5")

\* Mutant: the result of alloc_pages(5) is not looked at.
AllocFiveUnchecked ==
  /\ pc = "alloc_5"
  /\ Pagedb!spec_default_alloc_pages(5)
  /\ blk' = [blk EXCEPT ![4] = ret']
  /\ Goto("free_5")
  /\ UNCHANGED <<end, paging, layout, not_reserved, not_allocated>>

AllocFive ==
  /\ pc = "alloc_5"
  /\ Pagedb!spec_default_alloc_pages(5)
  /\ blk' = [blk EXCEPT ![4] = ret']
  /\ Assert(ret' # NULLPAGE /\ PageAllocated(pages', ret'), "free_5")
  /\ UNCHANGED <<end, paging, layout, not_reserved, not_allocated>>

FreeFive == pc = "free_5" /\ FreeBlock(4, 5, "recount")

Recount ==
  /\ pc = "recount"
  /\ not_reserved' = not_reserved - NotReserved
  /\ not_allocated' = not_allocated - NotAllocated
  /\ Assert(not_reserved' = 0 /\ not_allocated' = 0, "satp")
  /\ UNCHANGED <<end, paging, layout, nr_free, pages, ret, blk>>

\* The end of pmm_init; satp_virtual is the table's own address.
SetSatpPhysical ==
  /\ pc = "satp"
  /\ satp_physical' = PADDR(boot_page_table_sv39)
  /\ Goto("booted")
  /\ UNCHANGED <<end, paging, va_pa_offset, nbase, npage, nr_free, pages, ret, blk,
                 not_reserved, not_allocated>>

Next ==
  \/ kern_entry \/ ClearBss \/ init_pmm_manager \/ ReserveAll \/ MapMemory
  \/ Count \/ AllocP \/ Compare \/ FreeP \/ AllocFive \/ FreeFive \/ Recount
  \/ SetSatpPhysical

Spec == Init /\ [][Next]_vars

-----------------------------------------------------------------------------
(***************************************************************************)
(* When pmm_init returns, the pages that can be allocated are exactly the  *)
(* whole pages above the kernel image: no byte of the kernel is given      *)
(* away, no whole page is lost, and the self-check has put everything      *)
(* back, the counter included.                                             *)
(***************************************************************************)
BootedLayout ==
  pc = "booted" =>
    /\ Available(pages) = WholePagesAbove
    /\ \A q \in Pages \ WholePagesAbove : pages[q] = {PG_reserved}
    /\ nr_free = Cardinality(WholePagesAbove)

(***************************************************************************)
(* The kernel boots if and only if five whole pages are left for           *)
(* alloc_pages(5) of default_check. With fewer it panics, and then at an   *)
(* allocation, or in pa2page when the image ends in the last page: no      *)
(* assertion on the counter or on the blocks ever fails.                   *)
(***************************************************************************)
BootOutcome ==
  /\ pc = "booted" => Cardinality(WholePagesAbove) >= 5
  /\ pc = "panic" =>
       /\ Cardinality(WholePagesAbove) < 5
       /\ at \in {"map_memory", "alloc_p0", "alloc_p1", "alloc_p2", "alloc_5"}
       /\ at = "map_memory" <=>
            PADDR(end) > page2pa(NPAGE - 1) /\ PADDR(end) < KERNEL_MEMEND_PADDR

(***************************************************************************)
(* From kern_entry on, through the clearing of the bss and until the       *)
(* kernel runs, the hart finds the table and translates every kernel       *)
(* address to the byte the loader put there; PADDR and page2pa compute the *)
(* same, once page_init has set their globals, and a page that can be      *)
(* allocated is mapped where the kernel expects it.                        *)
(***************************************************************************)
MappingAgrees ==
  /\ pc # "kern_entry" =>
       \A va \in KERNBASE .. KERNTOP - 1 : Translate(va) = LoadAddress(va)
  /\ pc \notin {"kern_entry", "clear_bss", "init_pmm_manager", "page_init"} =>
       /\ \A va \in KERNBASE .. KERNTOP - 1 : Translate(va) = PADDR(va)
       /\ \A q \in Available(pages) : Translate(page2pa(q) + va_pa_offset) = page2pa(q)
  /\ pc = "booted" => satp * PGSIZE = satp_physical
=============================================================================
