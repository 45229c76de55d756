------------------------------ MODULE PageDefs ------------------------------
(***************************************************************************)
(* The page descriptor array of kern/mm/memlayout.h and the machine words  *)
(* it is indexed with.                                                     *)
(*                                                                         *)
(* struct Page has one field, a word of flags of which two bits are used.  *)
(* A flags word is modelled by the set of its bits that are 1, so that     *)
(* set_bit, clear_bit and test_bit of libs/atomic.h are union, difference  *)
(* and membership.                                                         *)
(***************************************************************************)
EXTENDS Integers, FiniteSets

CONSTANTS
  NPAGE,      \* number of page descriptors (0x1000, or 5 when verifying)
  WORD,       \* size_t arithmetic is modulo WORD (2^64 in the code)
  NULLPAGE,   \* "no page", an ordinary word outside the array
  Void        \* the result of a function that returns nothing

(***************************************************************************)
(* The sum of two page counts does not wrap, the status codes 0 .. 6 are   *)
(* words, and NULLPAGE is not a page: 2 * 0x1000 < 2^64 and                *)
(* 0x1000 <= 0x23333333.                                                   *)
(***************************************************************************)
ASSUME PageConstants ==
  /\ NPAGE \in Nat \ {0}
  /\ WORD \in Nat /\ WORD > 6
  /\ 2 * NPAGE < WORD
  /\ NULLPAGE \in NPAGE .. WORD - 1

Pages == 0 .. NPAGE - 1
Word  == 0 .. WORD - 1

PG_reserved  == 0
PG_allocated == 1
Flags        == SUBSET {PG_reserved, PG_allocated}

\* Mutant: a count that is not reduced to a word.
WordAddUnreduced(a, b) == a + b

\* size_t + and -, for two words: the sum and the difference modulo WORD.
WordAdd(a, b) == IF a + b < WORD THEN a + b ELSE a + b - WORD
WordSub(a, b) == IF a >= b THEN a - b ELSE a - b + WORD

set_bit(f, q, bit)   == [f EXCEPT ![q] = @ \cup {bit}]
clear_bit(f, q, bit) == [f EXCEPT ![q] = @ \ {bit}]

PageReserved(f, q)  == PG_reserved \in f[q]
PageAllocated(f, q) == PG_allocated \in f[q]

\* "base <= p && p < base + n", the test every loop over the array makes.
InBlock(q, base, n) == base <= q /\ q < WordAdd(base, n)

\* The pages an allocation can be made from.
Available(f) == {q \in Pages : ~PageReserved(f, q) /\ ~PageAllocated(f, q)}

\* num available pages in a row start at b; and no earlier page starts such a run.
free_block(f, b, num) ==
  b + num <= NPAGE /\ \A q \in b .. b + num - 1 : q \in Available(f)
first_free_block(f, b, num) ==
  free_block(f, b, num) /\ \A c \in 0 .. b - 1 : ~free_block(f, c, num)
=============================================================================
