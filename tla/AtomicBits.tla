----------------------------- MODULE AtomicBits -----------------------------
(***************************************************************************)
(* The bit operations of libs/atomic.h on an array of machine words. The   *)
(* thread and the trap handler that interrupts it both call them: the      *)
(* handler may start between any two instructions of the thread, and the   *)
(* thread goes on when it has returned. Each operation changes memory with *)
(* one AMO instruction.                                                    *)
(*                                                                         *)
(* A word is the set of its bits that are 1, so that or, and, xor and ~    *)
(* are union, intersection, symmetric difference and complement.           *)
(*                                                                         *)
(* The names of the specification are its own, so that LibsProofs can      *)
(* extend Lists and PrintFmt as well.                                      *)
(***************************************************************************)
EXTENDS Integers

CONSTANTS
  BITS_PER_LONG,   \* 64
  NWORDS           \* words in the array

ASSUME BitsConstants == BITS_PER_LONG \in Nat \ {0} /\ NWORDS \in Nat \ {0}

Long   == SUBSET (0 .. BITS_PER_LONG - 1)
Actors == {"thread", "handler"}
Bits   == 0 .. NWORDS * BITS_PER_LONG - 1

VARIABLES
  addr,    \* the array of words
  cpu,     \* of each actor: the function it is in, its nr, the word it read, what it returns
  bits,    \* history: the bits that are 1 when the operations are taken one by one
  was      \* history: of each actor, the bit its operation found

bits_vars == <<addr, cpu, bits, was>>

Idle == [pc |-> "idle", nr |-> 0, __res |-> {}, ret |-> FALSE]

\* Bit nr of the array, counted through all its words.
IsOne(nr) == nr % BITS_PER_LONG \in addr[nr \div BITS_PER_LONG]

BitsInit ==
  /\ addr \in [0 .. NWORDS - 1 -> Long]
  /\ bits = {nr \in Bits : IsOne(nr)}
  /\ cpu = [a \in Actors |-> Idle]
  /\ was = [a \in Actors |-> FALSE]

-----------------------------------------------------------------------------
BIT_MASK(nr) == {nr % BITS_PER_LONG}
BIT_WORD(nr) == nr \div BITS_PER_LONG

\* Bitmask modifiers
__NOP(x) == x
__NOT(x) == (0 .. BITS_PER_LONG - 1) \ x

\* What amo<op>.d stores.
__AMO(op, word, operand) ==
  CASE op = "or"  -> word \cup operand
    [] op = "and" -> word \cap operand
    [] op = "xor" -> (word \ operand) \cup (operand \ word)

\* x >> n
ShiftRight(x, n) == {k - n : k \in {j \in x : j >= n}}

-----------------------------------------------------------------------------
Running(a) == a = "thread" => cpu["handler"].pc = "idle"
Executes(a, label) == Running(a) /\ cpu[a].pc = label

\* test_bit reads only the first word: its callers pass a bit of that word.
CallBitOp(a, f, nr) ==
  /\ Executes(a, "idle")
  /\ f = "test_bit" => nr < BITS_PER_LONG
  /\ cpu' = [cpu EXCEPT ![a] = [Idle EXCEPT !.pc = f, !.nr = nr]]
  /\ UNCHANGED <<addr, bits, was>>

\* The operation counts from the instruction that changes or reads memory.
Took(a, after) ==
  /\ bits' = after
  /\ was' = [was EXCEPT ![a] = cpu[a].nr \in bits]

__op_bit(a, op, operand) ==
  /\ addr' = [addr EXCEPT ![BIT_WORD(cpu[a].nr)] = __AMO(op, @, operand)]
  /\ cpu' = [cpu EXCEPT ![a] = Idle]

__test_and_op_bit(a, op, operand) ==
  /\ addr' = [addr EXCEPT ![BIT_WORD(cpu[a].nr)] = __AMO(op, @, operand)]
  /\ cpu' = [cpu EXCEPT ![a].__res = addr[BIT_WORD(cpu[a].nr)], ![a].pc = "mask"]

\* "(__res & __mask) != 0", computed from the word that the AMO returned.
Mask(a) ==
  /\ Executes(a, "mask")
  /\ cpu' = [cpu EXCEPT ![a].ret = cpu[a].__res \cap BIT_MASK(cpu[a].nr) # {}, ![a].pc = "return"]
  /\ UNCHANGED <<addr, bits, was>>

set_bit(a) ==
  /\ Executes(a, "set_bit")
  /\ __op_bit(a, "or", __NOP(BIT_MASK(cpu[a].nr)))
  /\ Took(a, bits \cup {cpu[a].nr})

clear_bit(a) ==
  /\ Executes(a, "clear_bit")
  /\ __op_bit(a, "and", __NOT(BIT_MASK(cpu[a].nr)))
  /\ Took(a, bits \ {cpu[a].nr})

change_bit(a) ==
  /\ Executes(a, "change_bit")
  /\ __op_bit(a, "xor", __NOP(BIT_MASK(cpu[a].nr)))
  /\ Took(a, IF cpu[a].nr \in bits THEN bits \ {cpu[a].nr} ELSE bits \cup {cpu[a].nr})

\* A load, and a shift of what was loaded.
test_bit(a) ==
  \/ /\ Executes(a, "test_bit")
     /\ cpu' = [cpu EXCEPT ![a].__res = addr[0], ![a].pc = "shift"]
     /\ Took(a, bits) /\ UNCHANGED addr
  \/ /\ Executes(a, "shift")
     /\ cpu' = [cpu EXCEPT ![a].ret = 0 \in ShiftRight(cpu[a].__res, cpu[a].nr), ![a].pc = "return"]
     /\ UNCHANGED <<addr, bits, was>>

\* Mutant: the bit is tested first and set afterwards.
test_then_set_bit(a) ==
  \/ /\ Executes(a, "test_and_set_bit")
     /\ cpu' = [cpu EXCEPT ![a].__res = addr[BIT_WORD(cpu[a].nr)], ![a].pc = "set"]
     /\ UNCHANGED <<addr, bits, was>>
  \/ /\ Executes(a, "set")
     /\ addr' = [addr EXCEPT ![BIT_WORD(cpu[a].nr)] = @ \cup BIT_MASK(cpu[a].nr)]
     /\ cpu' = [cpu EXCEPT ![a].pc = "mask"]
     /\ Took(a, bits \cup {cpu[a].nr})

test_and_set_bit(a) ==
  /\ Executes(a, "test_and_set_bit")
  /\ __test_and_op_bit(a, "or", __NOP(BIT_MASK(cpu[a].nr)))
  /\ Took(a, bits \cup {cpu[a].nr})

test_and_clear_bit(a) ==
  /\ Executes(a, "test_and_clear_bit")
  /\ __test_and_op_bit(a, "and", __NOT(BIT_MASK(cpu[a].nr)))
  /\ Took(a, bits \ {cpu[a].nr})

Return(a) ==
  /\ Executes(a, "return")
  /\ cpu' = [cpu EXCEPT ![a] = Idle]
  /\ UNCHANGED <<addr, bits, was>>

-----------------------------------------------------------------------------
Functions == {"set_bit", "clear_bit", "change_bit", "test_bit",
              "test_and_set_bit", "test_and_clear_bit"}

BitsNext == \E a \in Actors :
  \/ \E f \in Functions, nr \in Bits : CallBitOp(a, f, nr)
  \/ set_bit(a) \/ clear_bit(a) \/ change_bit(a) \/ test_bit(a)
  \/ test_and_set_bit(a) \/ test_and_clear_bit(a) \/ Mask(a) \/ Return(a)

BitsSpec == BitsInit /\ [][BitsNext]_bits_vars

-----------------------------------------------------------------------------
(***************************************************************************)
(* The operations are atomic: whatever the handler does between two        *)
(* instructions of the thread, the array holds exactly the bits that the   *)
(* operations leave when they are taken one after the other (no change is  *)
(* lost, and none touches another bit or word), and each test returns the  *)
(* bit that its operation found: of thread and handler only one finds a    *)
(* bit clear and sets it.                                                  *)
(***************************************************************************)
OperationsAtomic ==
  /\ \A nr \in Bits : nr \in bits <=> IsOne(nr)
  /\ \A a \in Actors : cpu[a].pc = "return" => cpu[a].ret = was[a]
=============================================================================
