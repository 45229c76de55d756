--------------------------- MODULE StringsProofs ---------------------------
(***************************************************************************)
(* Theorems about Strings, for every memory, every set of byte values and  *)
(* every call that the comments of libs/string.c allow. The invariant      *)
(* gives each loop what it has done so far: which bytes of dst are         *)
(* written, which bytes were found equal, which characters were passed.    *)
(* For the copying functions it also says that a byte that is still to be  *)
(* read has not been overwritten, which is where memmove's choice of a     *)
(* direction and the rules about overlap come in.                          *)
(***************************************************************************)
EXTENDS Strings, WellFoundedInduction, TLAPS

\* Memory m when the bytes of dst from lo to hi - 1 are written, and nothing
\* else.
Shape(m, lo, hi) ==
  \A a \in Addr : m[a] = IF a \in lo .. hi - 1 THEN Expected(a - dst) ELSE mem0[a]
Moved(lo, hi) == Shape(mem, lo, hi)

\* The test of memmove: an upward copy would overwrite what it has yet to
\* read.
Overlap == src < dst /\ src + len > dst
\* The strings that the arguments were before the call.
DstLen  == StringLen(mem0, dst)
SrcLen  == StringLen(mem0, src)

\* The types, and that the arguments keep the rules of the function.
TypeInv ==
  /\ mem \in [Addr -> Bytes] /\ mem0 \in [Addr -> Bytes]
  /\ fn \in Copiers \cup Comparers \cup Finders
  /\ dst \in Addr /\ src \in Addr /\ len \in Size /\ c \in Bytes
  /\ Allowed(mem0, fn, dst, src, len)
  /\ pc \in {"entry", "up", "down", "loop", "done"}

\* Before the first test nothing has happened.
StartInv ==
  pc = "entry" => mem = mem0 /\ p = dst /\ q = src /\ n = len /\ cnt = 0

(***************************************************************************)
(* The loops of memmove and memcpy. Upwards, the bytes below p are         *)
(* written; downwards, those from p to the end of dst. The direction fits  *)
(* the overlap.                                                            *)
(***************************************************************************)
MoveInv ==
  /\ pc = "up" =>
       /\ fn \in {"memmove", "memcpy"} /\ ~Overlap
       /\ n \in 0 .. len /\ p = dst + (len - n) /\ q = src + (len - n)
       /\ Moved(dst, p)
  /\ pc = "down" =>
       /\ fn = "memmove" /\ Overlap
       /\ n \in 0 .. len /\ p = dst + n /\ q = src + n
       /\ Moved(p, dst + len)

(***************************************************************************)
(* The loops of memset, strcpy and strncpy. strncpy's q stops at the end   *)
(* of the source, however many bytes are left to write.                    *)
(***************************************************************************)
FillInv ==
  pc = "loop" =>
    /\ fn \notin {"memmove", "memcpy"}
    /\ fn \in {"memset", "strncpy"} => n \in 0 .. len /\ p = dst + (len - n)
    /\ fn = "strcpy" => p - dst \in 0 .. SrcLen /\ p \in Int /\ q = src + (p - dst)
    /\ fn = "strncpy" => q = src + Min2(len - n, SrcLen)
    /\ fn \in Copiers => Moved(dst, p)
    /\ fn \notin Copiers => mem = mem0

(***************************************************************************)
(* The loops of memcmp, strcmp and strncmp: all bytes so far were equal    *)
(* and, for strings, before the end of both.                               *)
(***************************************************************************)
CompareInv ==
  pc = "loop" /\ fn \in Comparers =>
    /\ p - dst \in 0 .. MEMSIZE /\ p \in Int /\ q = src + (p - dst)
    /\ \A j \in 0 .. p - dst - 1 : mem0[dst + j] = mem0[src + j]
    /\ fn # "memcmp" => \A j \in 0 .. p - dst - 1 : mem0[dst + j] # 0
    /\ fn # "strcmp" => n \in 0 .. len /\ p = dst + (len - n)

(***************************************************************************)
(* The loops of strlen, strnlen, strchr and strfind: the bytes so far are  *)
(* in the string and are not what is looked for.                           *)
(***************************************************************************)
FindInv ==
  pc = "loop" /\ fn \in Finders =>
    /\ q - src \in 0 .. MEMSIZE /\ q \in Int
    /\ \A a \in src .. q - 1 : mem0[a] # 0
    /\ fn \in {"strlen", "strnlen"} => cnt = q - src
    /\ fn = "strnlen" => cnt <= len
    /\ fn \in {"strchr", "strfind"} => \A a \in src .. q - 1 : mem0[a] # c

\* When the function has returned, it has done what its comment says.
DoneInv == CopiesRight /\ ComparesRight /\ FindsRight

Inv == TypeInv /\ StartInv /\ MoveInv /\ FillInv /\ CompareInv /\ FindInv /\ DoneInv

-----------------------------------------------------------------------------
\* A set of natural numbers that is not empty has a least element.
LEMMA Least ==
  ASSUME NEW T, T \subseteq Nat, T # {}
  PROVE  \E k \in T : \A j \in T : k <= j
<1> DEFINE R == {ss \in Nat \X Nat : ss[1] < ss[2]}
<1>1. R = OpToRel(<, Nat)
  BY DEF OpToRel
<1>2. IsWellFoundedOn(R, Nat)
  BY <1>1, NatLessThanWellFounded
<1>3. \E k \in T : \A j \in T : ~(<<j, k>> \in R)
  <2> HIDE DEF R
  <2> QED
    BY <1>2, WFMin
<1>4. ASSUME NEW j \in Nat, NEW k \in Nat, ~(<<j, k>> \in R) PROVE k <= j
  BY <1>4
<1> QED
  BY <1>3, <1>4

\* What the length of a terminated string is.
LEMMA StringLenIs ==
  ASSUME NEW m, NEW a \in Addr, Terminated(m, a)
  PROVE  /\ StringLen(m, a) \in Size
         /\ a + StringLen(m, a) \in Addr /\ m[a + StringLen(m, a)] = 0
         /\ \A j \in 0 .. StringLen(m, a) - 1 : m[a + j] # 0
<1> USE StringConstants
<1> DEFINE T == {k \in Nat : a + k \in Addr /\ m[a + k] = 0}
<1>1. PICK b \in a .. MEMSIZE - 1 : m[b] = 0
  BY DEF Terminated
<1>2. b - a \in Nat /\ a + (b - a) = b /\ b \in Addr
  BY DEF Addr
<1>3. b - a \in T
  BY <1>1, <1>2
<1>4. PICK k \in T : \A j \in T : k <= j
  BY <1>3, Least
<1>5. k \in Nat /\ a + k \in Addr /\ m[a + k] = 0
  BY <1>4
<1>6. ASSUME NEW j \in 0 .. k - 1 PROVE m[a + j] # 0
  <2>1. j \in Nat /\ a + j \in Addr /\ ~(k <= j)
    BY <1>5, <1>6 DEF Addr
  <2> QED
    BY <1>4, <2>1
<1>7. k \in Size
  BY <1>5 DEF Addr, Size
<1>8. \E l \in Size : /\ a + l \in Addr /\ m[a + l] = 0
                      /\ \A j \in 0 .. l - 1 : m[a + j] # 0
  BY <1>5, <1>6, <1>7
<1> HIDE DEF T
<1> QED
  BY <1>8 DEF StringLen

\* k characters that are not '\0' are inside the string.
LEMMA LenAtLeast ==
  ASSUME NEW m, NEW a \in Addr, Terminated(m, a), NEW k \in Nat,
         \A j \in 0 .. k - 1 : m[a + j] # 0
  PROVE  k <= StringLen(m, a)
<1> DEFINE l == StringLen(m, a)
<1>1. l \in Size /\ m[a + l] = 0
  BY StringLenIs
<1>2. l \in Nat
  BY <1>1, StringConstants DEF Size
<1> HIDE DEF l
<1>3. k <= l
  BY <1>1, <1>2
<1> QED
  BY <1>3 DEF l

\* The string ends at the first '\0'.
LEMMA LenIs ==
  ASSUME NEW m, NEW a \in Addr, Terminated(m, a), NEW k \in Nat,
         \A j \in 0 .. k - 1 : m[a + j] # 0, m[a + k] = 0
  PROVE  StringLen(m, a) = k
<1> DEFINE l == StringLen(m, a)
<1>1. l \in Size /\ \A j \in 0 .. l - 1 : m[a + j] # 0
  BY StringLenIs
<1>2. k <= l
  BY LenAtLeast
<1>3. l \in Nat
  BY <1>1, StringConstants DEF Size
<1> HIDE DEF l
<1>4. l = k
  BY <1>1, <1>2, <1>3
<1> QED
  BY <1>4 DEF l

\* No step changes what is expected of the call.
LEMMA Frozen ==
  ASSUME UNCHANGED args
  PROVE  /\ \A k : Expected(k)' = Expected(k)
         /\ Written' = Written /\ SrcLen' = SrcLen /\ DstLen' = DstLen
  BY DEF args, Expected, Written, SrcLen, DstLen

\* The cases of Expected and of Allowed.
LEMMA ExpectedIs ==
  ASSUME NEW k
  PROVE  /\ fn \in {"memmove", "memcpy", "strcpy"} => Expected(k) = mem0[src + k]
         /\ fn = "memset" => Expected(k) = c
         /\ fn = "strncpy" => Expected(k) = IF k < SrcLen THEN mem0[src + k] ELSE 0
  BY DEF Expected, SrcLen

LEMMA AllowedIs ==
  ASSUME NEW m, NEW d, NEW s, NEW k
  PROVE  /\ \A f \in {"memmove", "memcmp"} : Allowed(m, f, d, s, k) => Fits(d, k) /\ Fits(s, k)
         /\ Allowed(m, "memcpy", d, s, k) => Fits(d, k) /\ Fits(s, k) /\ Apart(d, s, k)
         /\ Allowed(m, "memset", d, s, k) => Fits(d, k)
         /\ Allowed(m, "strcpy", d, s, k) =>
              /\ Terminated(m, s) /\ Fits(d, StringLen(m, s) + 1)
              /\ Apart(d, s, StringLen(m, s) + 1)
         /\ Allowed(m, "strncpy", d, s, k) =>
              Terminated(m, s) /\ Fits(d, k) /\ (d + k <= s \/ s + StringLen(m, s) < d)
         /\ \A f \in {"strcmp", "strncmp"} :
              Allowed(m, f, d, s, k) => Terminated(m, d) /\ Terminated(m, s)
         /\ Allowed(m, "strnlen", d, s, k) => Terminated(m, s) \/ Fits(s, k)
         /\ \A f \in {"strlen", "strchr", "strfind"} : Allowed(m, f, d, s, k) => Terminated(m, s)
  BY DEF Allowed

\* The invariant holds when the function is called.
LEMMA InvInit == Init => Inv
<1> SUFFICES ASSUME Init PROVE Inv
  OBVIOUS
<1>1. TypeInv
  BY DEF Init, TypeInv
<1> QED
  BY <1>1 DEF Init, Inv, StartInv, MoveInv, FillInv, CompareInv, FindInv, DoneInv, CopiesRight,
     ComparesRight, FindsRight

\* What a step that ends the call has to show.
LEMMA Ends ==
  ASSUME TypeInv, UNCHANGED args, mem' \in [Addr -> Bytes], pc' = "done", DoneInv'
  PROVE  Inv'
  BY DEF Inv, TypeInv, StartInv, MoveInv, FillInv, CompareInv, FindInv, args

\* The types are kept.
LEMMA Types ==
  ASSUME TypeInv, UNCHANGED args, mem' \in [Addr -> Bytes],
         pc' \in {"entry", "up", "down", "loop", "done"}
  PROVE  TypeInv'
  BY DEF TypeInv, args

\* DoneInv says nothing of a call that goes on.
LEMMA NotDone ==
  ASSUME pc' # "done"
  PROVE  DoneInv'
  BY DEF DoneInv, CopiesRight, ComparesRight, FindsRight

\* A copy that has written all of dst is right.
LEMMA CopyDone ==
  ASSUME UNCHANGED args, pc' = "done", ret' = dst, fn \in Copiers, dst \in Int, Written \in Int,
         Shape(mem', dst, dst + Written)
  PROVE  DoneInv'
<1> DEFINE hi == dst + Written
<1>1. fn' \notin Comparers /\ fn' \notin Finders
  BY DEF Copiers, Comparers, Finders, args
<1>2. \A a \in Addr : (Expected(a - dst))' = Expected(a - dst)
  BY Frozen DEF args
<1>3. Written' = Written /\ dst' = dst /\ mem0' = mem0
  BY Frozen DEF args
<1>4. ASSUME NEW a \in Addr
      PROVE  mem'[a] = IF a \in dst' .. dst' + Written' - 1 THEN Expected(a - dst)' ELSE mem0'[a]
  <2>2. dst .. hi - 1 = dst' .. dst' + Written' - 1
    BY <1>3
  <2>3. CASE a \in dst .. hi - 1
    BY <1>2, <2>2, <2>3 DEF Shape
  <2>4. CASE a \notin dst .. hi - 1
    BY <1>3, <2>2, <2>4 DEF Shape
  <2> QED
    BY <2>3, <2>4
<1>5. CopiesRight'
  BY <1>4, <1>3 DEF CopiesRight
<1> QED
  BY <1>1, <1>5 DEF DoneInv, ComparesRight, FindsRight

\* The first test of a function preserves the invariant.
LEMMA StepEnter ==
  ASSUME Inv, Enter
  PROVE  Inv'
<1> USE StringConstants DEF Inv, TypeInv, StartInv, Addr, Size
<1>1. pc = "entry" /\ UNCHANGED <<mem, n, cnt, ret, args>>
  BY DEF Enter
<1>2. mem = mem0 /\ p = dst /\ q = src /\ n = len /\ cnt = 0 /\ UNCHANGED args
  BY <1>1
<1>3. Moved(dst, dst)
  BY <1>2 DEF Moved, Shape
<1>4. Moved(dst + len, dst + len)
  BY <1>2 DEF Moved, Shape
<1>5. pc' \in {"up", "down", "loop"} /\ DoneInv'
  BY NotDone DEF Enter
<1>6. TypeInv'
  BY <1>1, <1>2, <1>5, Types
<1>7. CASE pc' = "up"
  <2>1. fn \in {"memmove", "memcpy"} /\ ~Overlap /\ p' = dst /\ q' = src
    BY <1>1, <1>2, <1>7, AllowedIs DEF Enter, Overlap, Fits, Apart
  <2>2. Moved(dst, p)'
    BY <1>1, <1>2, <1>3, <2>1, Frozen DEF Moved, Shape, args
  <2>3. n' \in 0 .. len' /\ p' = dst' + (len' - n') /\ q' = src' + (len' - n')
    BY <1>1, <1>2, <2>1 DEF args
  <2> QED
    BY <1>1, <1>5, <1>6, <1>7, <2>1, <2>2, <2>3 DEF MoveInv, FillInv, CompareInv, FindInv, args, Overlap
<1>8. CASE pc' = "down"
  <2>1. fn = "memmove" /\ Overlap /\ p' = dst + len /\ q' = src + len
    BY <1>1, <1>2, <1>8 DEF Enter, Overlap
  <2>2. Moved(p, dst + len)'
    BY <1>1, <1>2, <1>4, <2>1, Frozen DEF Moved, Shape, args
  <2>3. n' \in 0 .. len' /\ p' = dst' + n' /\ q' = src' + n'
    BY <1>1, <1>2, <2>1 DEF args
  <2> QED
    BY <1>1, <1>5, <1>6, <1>8, <2>1, <2>2, <2>3 DEF MoveInv, FillInv, CompareInv, FindInv, args, Overlap
<1>9. CASE pc' = "loop"
  <2>1. fn \notin {"memmove", "memcpy"} /\ p' = dst /\ q' = src
    BY <1>1, <1>2, <1>9 DEF Enter
  <2>2. Moved(dst, p)'
    BY <1>1, <1>2, <1>3, <2>1, Frozen DEF Moved, Shape, args
  <2>3. fn \in {"strcpy", "strncpy"} => SrcLen \in Nat
    BY StringLenIs, AllowedIs DEF SrcLen
  <2>4. FillInv'
    BY <1>1, <1>2, <1>9, <2>1, <2>2, <2>3, Frozen DEF FillInv, args, Min2
  <2>5. CompareInv' /\ FindInv'
    BY <1>1, <1>2, <1>9, <2>1 DEF CompareInv, FindInv, args
  <2> QED
    BY <1>5, <1>6, <1>9, <2>4, <2>5 DEF MoveInv
<1> QED
  BY <1>5, <1>7, <1>8, <1>9

\* Shape speaks of the arguments, which a step keeps.
LEMMA ShapeKept ==
  ASSUME UNCHANGED args, NEW lo, NEW hi, Shape(mem', lo, hi)
  PROVE  \A a \in Addr : mem'[a] = IF a \in lo .. hi - 1 THEN Expected(a - dst)' ELSE mem0'[a]
<1>1. \A a \in Addr : Expected(a - dst)' = Expected(a - dst)
  BY Frozen DEF args
<1>2. mem0' = mem0
  BY DEF args
<1> QED
  BY <1>1, <1>2 DEF Shape

\* One more byte is written, above or below the others.
LEMMA ExtendUp ==
  ASSUME TypeInv, NEW b \in Addr, NEW v, b >= dst, Shape(mem, dst, b), v = Expected(b - dst),
         mem' = [mem EXCEPT ![b] = v]
  PROVE  Shape(mem', dst, b + 1)
<1>1. b \in Int /\ dst \in Int /\ \A a \in Addr : a \in Int
  BY StringConstants DEF TypeInv, Addr
<1> SUFFICES ASSUME NEW a \in Addr
             PROVE  mem'[a] = IF a \in dst .. b + 1 - 1 THEN Expected(a - dst) ELSE mem0[a]
  BY <1>1 DEF Shape
<1>2. CASE a = b
  <2>1. mem'[a] = v /\ a \in dst .. b + 1 - 1
    BY <1>1, <1>2 DEF TypeInv
  <2> QED
    BY <1>2, <2>1
<1>3. CASE a # b
  <2>1. mem'[a] = mem[a] /\ (a \in dst .. b + 1 - 1 <=> a \in dst .. b - 1)
    BY <1>1, <1>3 DEF TypeInv
  <2> QED
    BY <2>1 DEF Shape
<1> QED
  BY <1>2, <1>3

LEMMA ExtendDown ==
  ASSUME TypeInv, NEW b \in Addr, NEW v, NEW hi \in Int, b < hi, Shape(mem, b + 1, hi),
         v = Expected(b - dst), mem' = [mem EXCEPT ![b] = v]
  PROVE  Shape(mem', b, hi)
<1>1. b \in Int /\ \A a \in Addr : a \in Int
  BY StringConstants DEF TypeInv, Addr
<1> SUFFICES ASSUME NEW a \in Addr
             PROVE  mem'[a] = IF a \in b .. hi - 1 THEN Expected(a - dst) ELSE mem0[a]
  BY DEF Shape
<1>2. CASE a = b
  <2>1. mem'[a] = v /\ a \in b .. hi - 1
    BY <1>1, <1>2 DEF TypeInv
  <2> QED
    BY <1>2, <2>1
<1>3. CASE a # b
  <2>1. mem'[a] = mem[a] /\ (a \in b .. hi - 1 <=> a \in b + 1 .. hi - 1)
    BY <1>1, <1>3 DEF TypeInv
  <2> QED
    BY <2>1 DEF Shape
<1> QED
  BY <1>2, <1>3

\* The types as inequalities.
LEMMA Numbers ==
  ASSUME TypeInv
  PROVE  /\ MEMSIZE \in Int /\ dst \in Int /\ src \in Int /\ len \in Int
         /\ dst >= 0 /\ src >= 0 /\ len >= 0 /\ len <= MEMSIZE
         /\ dst < MEMSIZE /\ src < MEMSIZE
         /\ \A a : a \in Addr <=> a \in Int /\ a >= 0 /\ a < MEMSIZE
  BY StringConstants DEF TypeInv, Addr, Size

\* An iteration upwards reads a byte that is not written yet.
LEMMA StepCopyUp ==
  ASSUME Inv, CopyUp
  PROVE  Inv'
<1> USE Numbers
<1>1. /\ TypeInv /\ pc = "up" /\ fn \in {"memmove", "memcpy"} /\ ~Overlap /\ Shape(mem, dst, p)
      /\ n \in 0 .. len /\ p = dst + (len - n) /\ q = src + (len - n) /\ UNCHANGED args
  BY DEF Inv, MoveInv, CopyUp, Moved
<1>2. dst + len <= MEMSIZE /\ src + len <= MEMSIZE
  BY <1>1, AllowedIs DEF TypeInv, Fits
<1>3. CASE n > 0
  <2>1. /\ mem' = [mem EXCEPT ![p] = mem[q]] /\ p' = p + 1 /\ q' = q + 1 /\ n' = n - 1
        /\ pc' = "up" /\ ret' = ret
    BY <1>1, <1>3 DEF CopyUp
  <2>2. p \in Addr /\ q \in Addr /\ p >= dst /\ p - dst = len - n
    BY <1>1, <1>2, <1>3
  <2>3. mem[q] = mem0[q]
    <3>1. q \notin dst .. p - 1
      BY <1>1, <1>3 DEF Overlap
    <3> QED
      BY <1>1, <2>2, <3>1 DEF Shape
  <2>4. mem[q] = Expected(p - dst)
    BY <1>1, <2>2, <2>3, ExpectedIs
  <2>5. Shape(mem', dst, p')
    BY <1>1, <2>1, <2>2, <2>4, ExtendUp
  <2>6. Moved(dst, p)'
    BY <1>1, <2>5, ShapeKept DEF Moved, Shape, args
  <2>7. mem' \in [Addr -> Bytes]
    BY <1>1, <2>1, <2>2 DEF TypeInv
  <2>8. TypeInv' /\ DoneInv'
    BY <1>1, <2>1, <2>7, Types, NotDone
  <2>9. n' \in 0 .. len' /\ p' = dst' + (len' - n') /\ q' = src' + (len' - n') /\ fn' = fn
        /\ ~Overlap'
    BY <1>1, <1>3, <2>1 DEF args, Overlap
  <2> QED
    BY <1>1, <2>1, <2>6, <2>8, <2>9
    DEF Inv, StartInv, MoveInv, FillInv, CompareInv, FindInv
<1>4. CASE n = 0
  <2>1. UNCHANGED mem /\ pc' = "done" /\ ret' = dst
    BY <1>1, <1>4 DEF CopyUp, Return
  <2>2. Written = len /\ p = dst + len
    BY <1>1, <1>4 DEF Written
  <2>3. DoneInv'
    <3>1. Shape(mem', dst, dst + Written) /\ fn \in Copiers
      BY <1>1, <2>1, <2>2 DEF Shape, Copiers
    <3>2. dst \in Int /\ Written \in Int
      BY <1>1, <2>2
    <3> HIDE Numbers
    <3> QED
      BY <1>1, <2>1, <3>1, <3>2, CopyDone
  <2> QED
    BY <1>1, <2>1, <2>3, Ends DEF TypeInv
<1> QED
  BY <1>1, <1>3, <1>4

\* So does one downwards.
LEMMA StepCopyDown ==
  ASSUME Inv, CopyDown
  PROVE  Inv'
<1> USE Numbers
<1>1. /\ TypeInv /\ pc = "down" /\ fn = "memmove" /\ Overlap /\ Shape(mem, p, dst + len)
      /\ n \in 0 .. len /\ p = dst + n /\ q = src + n /\ UNCHANGED args
  BY DEF Inv, MoveInv, CopyDown, Moved
<1>2. dst + len <= MEMSIZE /\ src + len <= MEMSIZE
  BY <1>1, AllowedIs DEF TypeInv, Fits
<1>3. CASE n > 0
  <2>1. /\ mem' = [mem EXCEPT ![p - 1] = mem[q - 1]] /\ p' = p - 1 /\ q' = q - 1 /\ n' = n - 1
        /\ pc' = "down" /\ ret' = ret
    BY <1>1, <1>3 DEF CopyDown
  <2>2. /\ p - 1 \in Addr /\ q - 1 \in Addr /\ p - 1 < dst + len /\ (p - 1) - dst = n - 1
        /\ (p - 1) + 1 = p /\ dst + len \in Int /\ q - 1 = src + (n - 1)
    BY <1>1, <1>2, <1>3
  <2>3. mem[q - 1] = mem0[q - 1]
    <3>1. q - 1 \notin p .. dst + len - 1
      BY <1>1, <1>3 DEF Overlap
    <3> QED
      BY <1>1, <2>2, <3>1 DEF Shape
  <2>4. mem[q - 1] = Expected((p - 1) - dst)
    BY <1>1, <2>2, <2>3, ExpectedIs
  <2>5. Shape(mem', p', dst + len)
    BY <1>1, <2>1, <2>2, <2>4, ExtendDown
  <2>6. Moved(p, dst + len)'
    BY <1>1, <2>5, ShapeKept DEF Moved, Shape, args
  <2>7. mem' \in [Addr -> Bytes]
    BY <1>1, <2>1, <2>2 DEF TypeInv
  <2>8. TypeInv' /\ DoneInv'
    BY <1>1, <2>1, <2>7, Types, NotDone
  <2>9. n' \in 0 .. len' /\ p' = dst' + n' /\ q' = src' + n' /\ fn' = fn /\ Overlap'
    BY <1>1, <1>3, <2>1 DEF args, Overlap
  <2> QED
    BY <1>1, <2>1, <2>6, <2>8, <2>9
    DEF Inv, StartInv, MoveInv, FillInv, CompareInv, FindInv
<1>4. CASE n = 0
  <2>1. UNCHANGED mem /\ pc' = "done" /\ ret' = dst
    BY <1>1, <1>4 DEF CopyDown, Return
  <2>2. Written = len /\ p = dst
    BY <1>1, <1>4 DEF Written
  <2>3. DoneInv'
    <3>1. Shape(mem', dst, dst + Written) /\ fn \in Copiers
      BY <1>1, <2>1, <2>2 DEF Shape, Copiers
    <3>2. dst \in Int /\ Written \in Int
      BY <1>1, <2>2
    <3> HIDE Numbers
    <3> QED
      BY <1>1, <2>1, <3>1, <3>2, CopyDone
  <2> QED
    BY <1>1, <2>1, <2>3, Ends DEF TypeInv
<1> QED
  BY <1>1, <1>3, <1>4

\* An iteration that writes byte p of dst, and a function that has written
\* all.
LEMMA FillStep ==
  ASSUME TypeInv, UNCHANGED args, fn \in {"memset", "strcpy", "strncpy"}, pc = "loop",
         pc' = "loop", p \in Addr, p >= dst, Shape(mem, dst, p), NEW v \in Bytes,
         v = Expected(p - dst), mem' = [mem EXCEPT ![p] = v], p' = p + 1
  PROVE  /\ TypeInv' /\ StartInv' /\ MoveInv' /\ CompareInv' /\ FindInv' /\ DoneInv'
         /\ Moved(dst, p)'
<1>1. Shape(mem', dst, p')
  BY ExtendUp
<1>2. Moved(dst, p)'
  BY <1>1, ShapeKept DEF Moved, Shape, args
<1>3. mem' \in [Addr -> Bytes]
  BY DEF TypeInv
<1>4. TypeInv' /\ DoneInv'
  BY <1>3, Types, NotDone
<1>5. fn' \notin Comparers /\ fn' \notin Finders
  BY DEF Comparers, Finders, args
<1> QED
  BY <1>2, <1>4, <1>5 DEF StartInv, MoveInv, CompareInv, FindInv

LEMMA FillEnd ==
  ASSUME TypeInv, UNCHANGED args, fn \in Copiers, pc' = "done", ret' = dst,
         mem' \in [Addr -> Bytes], Written \in Int, Shape(mem', dst, dst + Written)
  PROVE  Inv'
<1>1. dst \in Int
  BY Numbers
<1>2. DoneInv'
  BY <1>1, CopyDone
<1> QED
  BY <1>2, Ends

\* The three functions that fill dst in one direction.
LEMMA StepMemset ==
  ASSUME Inv, memset
  PROVE  Inv'
<1> USE Numbers
<1>1. /\ TypeInv /\ pc = "loop" /\ fn = "memset" /\ Shape(mem, dst, p)
      /\ n \in 0 .. len /\ p = dst + (len - n) /\ UNCHANGED args
  BY DEF Inv, FillInv, memset, Moved, Copiers
<1>2. dst + len <= MEMSIZE
  BY <1>1, AllowedIs DEF TypeInv, Fits
<1>3. CASE n > 0
  <2>1. mem' = [mem EXCEPT ![p] = c] /\ p' = p + 1 /\ n' = n - 1 /\ pc' = "loop"
    BY <1>1, <1>3 DEF memset
  <2>2. p \in Addr /\ p >= dst /\ c \in Bytes /\ c = Expected(p - dst)
    BY <1>1, <1>2, <1>3, ExpectedIs DEF TypeInv
  <2>3. /\ TypeInv' /\ StartInv' /\ MoveInv' /\ CompareInv' /\ FindInv' /\ DoneInv'
        /\ Moved(dst, p)'
    <3> HIDE Numbers
    <3> QED
      BY <1>1, <2>1, <2>2, FillStep
  <2>4. n' \in 0 .. len' /\ p' = dst' + (len' - n') /\ fn' = "memset"
    BY <1>1, <1>3, <2>1 DEF args
  <2> QED
    BY <2>3, <2>4 DEF Inv, FillInv, Copiers
<1>4. CASE n = 0
  <2>1. UNCHANGED mem /\ pc' = "done" /\ ret' = dst
    BY <1>1, <1>4 DEF memset, Return
  <2>2. Written = len /\ p = dst + Written /\ Written \in Int
    BY <1>1, <1>4 DEF Written
  <2>3. Shape(mem', dst, dst + Written) /\ mem' \in [Addr -> Bytes] /\ fn \in Copiers
    BY <1>1, <2>1, <2>2 DEF Shape, TypeInv, Copiers
  <2> HIDE Numbers
  <2> QED
    BY <1>1, <2>1, <2>2, <2>3, FillEnd
<1> QED
  BY <1>1, <1>3, <1>4

LEMMA StepStrcpy ==
  ASSUME Inv, strcpy
  PROVE  Inv'
<1> USE Numbers
<1>1. /\ TypeInv /\ pc = "loop" /\ fn = "strcpy" /\ Shape(mem, dst, p) /\ UNCHANGED args
      /\ p - dst \in 0 .. SrcLen /\ p \in Int /\ q = src + (p - dst)
      /\ mem' = [mem EXCEPT ![p] = mem[q]] /\ p' = p + 1 /\ q' = q + 1
  BY DEF Inv, FillInv, strcpy, Moved, Copiers
<1>2. /\ Terminated(mem0, src) /\ dst + (SrcLen + 1) <= MEMSIZE
      /\ dst + (SrcLen + 1) <= src \/ src + (SrcLen + 1) <= dst
  BY <1>1, AllowedIs DEF TypeInv, Fits, Apart, SrcLen
<1>3. /\ SrcLen \in Nat /\ src + SrcLen \in Addr /\ mem0[src + SrcLen] = 0
      /\ \A j \in 0 .. SrcLen - 1 : mem0[src + j] # 0
  BY <1>1, <1>2, StringLenIs, StringConstants DEF TypeInv, SrcLen, Size
<1>4. p \in Addr /\ q \in Addr /\ p >= dst /\ q \notin dst .. p - 1
  BY <1>1, <1>2, <1>3
<1>5. mem[q] = mem0[q] /\ mem[q] \in Bytes
  BY <1>1, <1>4 DEF Shape, TypeInv
<1>6. mem[q] = Expected(p - dst)
  BY <1>1, <1>5, ExpectedIs
<1>7. CASE mem[q] # 0
  <2>1. pc' = "loop"
    BY <1>1, <1>7 DEF strcpy
  <2>2. /\ TypeInv' /\ StartInv' /\ MoveInv' /\ CompareInv' /\ FindInv' /\ DoneInv'
        /\ Moved(dst, p)'
    <3> HIDE Numbers
    <3> QED
      BY <1>1, <1>4, <1>5, <1>6, <2>1, FillStep
  <2>3. p - dst # SrcLen
    BY <1>1, <1>3, <1>5, <1>7
  <2>4. p' - dst \in 0 .. SrcLen /\ p' \in Int /\ q' = src + (p' - dst)
    BY <1>1, <1>3, <2>3
  <2>5. p' - dst' \in 0 .. SrcLen' /\ p' \in Int /\ q' = src' + (p' - dst') /\ fn' = "strcpy"
    BY <1>1, <2>4, Frozen DEF args
  <2> QED
    BY <2>2, <2>5 DEF Inv, FillInv, Copiers
<1>8. CASE mem[q] = 0
  <2>1. pc' = "done" /\ ret' = dst
    BY <1>1, <1>8 DEF strcpy, Return
  <2>2. p - dst = SrcLen
    <3>1. p - dst \notin 0 .. SrcLen - 1
      BY <1>1, <1>3, <1>5, <1>8
    <3> QED
      BY <1>1, <1>3, <3>1
  <2>3. Written = SrcLen + 1 /\ dst + Written = p + 1 /\ Written \in Int
    BY <1>1, <1>3, <2>2 DEF Written, SrcLen
  <2>4. Shape(mem', dst, p + 1)
    BY <1>1, <1>4, <1>6, ExtendUp
  <2>5. Shape(mem', dst, dst + Written) /\ mem' \in [Addr -> Bytes] /\ fn \in Copiers
    BY <1>1, <1>4, <1>5, <2>3, <2>4 DEF TypeInv, Copiers
  <2> HIDE Numbers
  <2> QED
    BY <1>1, <2>1, <2>3, <2>5, FillEnd
<1> QED
  BY <1>7, <1>8

LEMMA StepStrncpy ==
  ASSUME Inv, strncpy
  PROVE  Inv'
<1> USE Numbers
<1>1. /\ TypeInv /\ pc = "loop" /\ fn = "strncpy" /\ Shape(mem, dst, p) /\ UNCHANGED args
      /\ n \in 0 .. len /\ p = dst + (len - n) /\ q = src + Min2(len - n, SrcLen)
  BY DEF Inv, FillInv, strncpy, Moved, Copiers
<1>2. /\ Terminated(mem0, src) /\ dst + len <= MEMSIZE
      /\ dst + len <= src \/ src + SrcLen < dst
  BY <1>1, AllowedIs DEF TypeInv, Fits, SrcLen
<1>3. /\ SrcLen \in Nat /\ src + SrcLen \in Addr /\ mem0[src + SrcLen] = 0
      /\ \A j \in 0 .. SrcLen - 1 : mem0[src + j] # 0
  BY <1>1, <1>2, StringLenIs, StringConstants DEF TypeInv, SrcLen, Size
<1>4. CASE n > 0
  <2>1. /\ mem' = [mem EXCEPT ![p] = mem[q]] /\ p' = p + 1 /\ n' = n - 1 /\ pc' = "loop"
        /\ q' = IF mem[q] # 0 THEN q + 1 ELSE q
    BY <1>1, <1>4 DEF strncpy
  <2>2. p \in Addr /\ q \in Addr /\ p >= dst /\ q \notin dst .. p - 1 /\ p - dst = len - n
    BY <1>1, <1>2, <1>3, <1>4 DEF Min2
  <2>3. mem[q] = mem0[q] /\ mem[q] \in Bytes
    BY <1>1, <2>2 DEF Shape, TypeInv
  <2>4. ASSUME len - n < SrcLen
        PROVE  mem[q] = Expected(p - dst) /\ q' = src + Min2(len - n', SrcLen)
    <3>1. q = src + (len - n) /\ mem[q] # 0
      BY <1>1, <1>3, <2>3, <2>4 DEF Min2
    <3>2. mem[q] = Expected(p - dst)
      BY <1>1, <2>2, <2>3, <2>4, <3>1, ExpectedIs
    <3>3. q' = src + Min2(len - n', SrcLen)
      BY <1>1, <1>3, <2>1, <2>4, <3>1 DEF Min2
    <3> QED
      BY <3>2, <3>3
  <2>5. ASSUME len - n >= SrcLen
        PROVE  mem[q] = Expected(p - dst) /\ q' = src + Min2(len - n', SrcLen)
    <3>1. q = src + SrcLen /\ mem[q] = 0
      BY <1>1, <1>3, <2>3, <2>5 DEF Min2
    <3>2. mem[q] = Expected(p - dst)
      BY <1>1, <1>3, <2>2, <2>3, <2>5, <3>1, ExpectedIs
    <3>3. q' = src + Min2(len - n', SrcLen)
      BY <1>1, <1>3, <2>1, <2>5, <3>1 DEF Min2
    <3> QED
      BY <3>2, <3>3
  <2>6. mem[q] = Expected(p - dst) /\ q' = src + Min2(len - n', SrcLen)
    BY <1>1, <1>3, <2>4, <2>5
  <2>7. /\ TypeInv' /\ StartInv' /\ MoveInv' /\ CompareInv' /\ FindInv' /\ DoneInv'
        /\ Moved(dst, p)'
    <3> HIDE Numbers
    <3> QED
      BY <1>1, <2>1, <2>2, <2>3, <2>6, FillStep
  <2>8. /\ n' \in 0 .. len' /\ p' = dst' + (len' - n') /\ fn' = "strncpy"
        /\ q' = src' + Min2(len' - n', SrcLen')
    BY <1>1, <1>4, <2>1, <2>6, Frozen DEF args
  <2> QED
    BY <2>7, <2>8 DEF Inv, FillInv, Copiers
<1>5. CASE n = 0
  <2>1. UNCHANGED mem /\ pc' = "done" /\ ret' = dst
    BY <1>1, <1>5 DEF strncpy, Return
  <2>2. Written = len /\ p = dst + Written /\ Written \in Int
    BY <1>1, <1>5 DEF Written
  <2>3. Shape(mem', dst, dst + Written) /\ mem' \in [Addr -> Bytes] /\ fn \in Copiers
    BY <1>1, <2>1, <2>2 DEF Shape, TypeInv, Copiers
  <2> HIDE Numbers
  <2> QED
    BY <1>1, <2>1, <2>2, <2>3, FillEnd
<1> QED
  BY <1>1, <1>4, <1>5

-----------------------------------------------------------------------------
\* The cases of Compared.
LEMMA ComparedIs ==
  /\ fn = "memcmp" => Compared = len
  /\ fn = "strcmp" => Compared = Min2(DstLen, SrcLen) + 1
  /\ fn = "strncmp" => Compared = Min2(len, Min2(DstLen, SrcLen) + 1)
  BY DEF Compared, DstLen, SrcLen

\* A comparison that ends with the right answer.
LEMMA CompareEnd ==
  ASSUME TypeInv, UNCHANGED <<args, mem>>, fn \in Comparers, pc' = "done",
         \/ Differ(Compared) = {} /\ ret' = 0
         \/ \E k \in Differ(Compared) : /\ \A i \in Differ(Compared) : k <= i
                                        /\ ret' = mem0[dst + k] - mem0[src + k]
  PROVE  Inv'
<1> DEFINE D == Differ(Compared)
           j == CHOOSE j \in D : \A i \in D : j <= i
<1>1. Differ(Compared)' = D
  <2>1. Compared' = Compared
    BY DEF args, Compared
  <2> QED
    BY <2>1 DEF args, Differ
<1>2. IF D = {} THEN ret' = 0 ELSE ret' = mem0[dst + j] - mem0[src + j]
  <2>1. CASE D = {} /\ ret' = 0
    BY <2>1
  <2>2. ASSUME NEW k \in D, \A i \in D : k <= i, ret' = mem0[dst + k] - mem0[src + k]
        PROVE  D # {} /\ ret' = mem0[dst + j] - mem0[src + j]
    <3>1. j \in D /\ \A i \in D : j <= i
      BY <2>2
    <3>2. j <= k /\ k <= j
      BY <2>2, <3>1
    <3>3. D \subseteq Int
      BY DEF Differ
    <3> HIDE DEF D, j
    <3>4. j = k
      BY <2>2, <3>1, <3>2, <3>3
    <3> QED
      BY <2>2, <3>4
  <2> QED
    BY <2>1, <2>2
<1>3. ComparesRight'
  <2>1. mem0' = mem0 /\ dst' = dst /\ src' = src
    BY DEF args
  <2> HIDE DEF D
  <2> QED
    BY <1>1, <1>2, <2>1 DEF ComparesRight
<1>4. fn' \notin Copiers /\ fn' \notin Finders
  BY DEF Copiers, Comparers, Finders, args
<1>5. mem' \in [Addr -> Bytes] /\ UNCHANGED args
  BY DEF TypeInv
<1>6. DoneInv'
  BY <1>3, <1>4 DEF DoneInv, CopiesRight, FindsRight
<1> QED
  BY <1>5, <1>6, Ends

\* A comparison that goes on.
LEMMA CompareStep ==
  ASSUME TypeInv, UNCHANGED <<args, mem>>, fn \in Comparers, mem = mem0, pc' = "loop", CompareInv'
  PROVE  Inv'
<1>1. mem' \in [Addr -> Bytes] /\ UNCHANGED args
  BY DEF TypeInv
<1>2. TypeInv' /\ DoneInv'
  BY <1>1, Types, NotDone
<1>3. fn' \notin Copiers /\ fn' \notin Finders /\ mem' = mem0'
  BY DEF Copiers, Comparers, Finders, args
<1>4. FillInv'
  BY <1>3 DEF FillInv, Copiers
<1> QED
  BY <1>2, <1>3, <1>4 DEF Inv, StartInv, MoveInv, FindInv

\* Bytes are numbers.
LEMMA Values ==
  ASSUME TypeInv, NEW a \in Addr
  PROVE  mem0[a] \in Int /\ mem0[a] >= 0
<1>1. mem0[a] \in Bytes
  BY DEF TypeInv
<1>2. mem0[a] \in Nat
  BY <1>1, StringConstants
<1> QED
  BY <1>2

\* The differences among the first m bytes begin after k equal ones.
LEMMA DiffersFrom ==
  ASSUME NEW k \in Nat, NEW m \in Int, \A j \in 0 .. k - 1 : mem0[dst + j] = mem0[src + j]
  PROVE  /\ \A i \in Differ(m) : i \in Nat /\ k <= i
         /\ m <= k => Differ(m) = {}
         /\ k < m /\ mem0[dst + k] # mem0[src + k] => k \in Differ(m)
         /\ m = k + 1 /\ mem0[dst + k] = mem0[src + k] => Differ(m) = {}
  BY DEF Differ

\* memcmp preserves the invariant.
LEMMA StepMemcmp ==
  ASSUME Inv, memcmp
  PROVE  Inv'
<1> DEFINE k == p - dst
<1>1. /\ TypeInv /\ pc = "loop" /\ fn = "memcmp" /\ mem = mem0 /\ UNCHANGED <<args, mem>>
      /\ k \in 0 .. MEMSIZE /\ p \in Int /\ q = src + k
      /\ \A j \in 0 .. k - 1 : mem0[dst + j] = mem0[src + j]
      /\ n \in 0 .. len /\ p = dst + (len - n)
  BY DEF Inv, FillInv, CompareInv, memcmp, Comparers, Copiers
<1>2. /\ k \in Nat /\ len \in Int /\ dst \in Int /\ src \in Int /\ k <= len /\ p = dst + k
      /\ (n > 0 => k < len /\ p \in Addr /\ q \in Addr) /\ (n = 0 => len <= k) /\ k = len - n
  <2>1. dst + len <= MEMSIZE /\ src + len <= MEMSIZE
    BY <1>1, AllowedIs DEF TypeInv, Fits
  <2> QED
    BY <1>1, <2>1, Numbers
<1>3. Compared = len /\ fn \in Comparers
  BY <1>1, ComparedIs DEF Comparers
<1> HIDE DEF k
<1>4. CASE n > 0 /\ mem[p] = mem[q]
  <2>1. p' = p + 1 /\ q' = q + 1 /\ n' = n - 1 /\ pc' = "loop"
    BY <1>1, <1>4 DEF memcmp
  <2>2. \A j \in 0 .. k : mem0[dst + j] = mem0[src + j]
    BY <1>1, <1>2, <1>4
  <2>3. p' - dst = k + 1
    BY <1>2, <2>1
  <2>4. /\ p' - dst' \in 0 .. MEMSIZE /\ p' \in Int /\ q' = src' + (p' - dst')
        /\ n' \in 0 .. len' /\ p' = dst' + (len' - n') /\ fn' = "memcmp"
    BY <1>1, <1>2, <1>4, <2>1, <2>3, Numbers DEF args
  <2>5. \A j \in 0 .. p' - dst' - 1 : mem0'[dst' + j] = mem0'[src' + j]
    BY <1>1, <1>2, <2>2, <2>3 DEF args
  <2>6. CompareInv'
    BY <2>4, <2>5 DEF CompareInv
  <2> QED
    BY <1>1, <1>3, <2>1, <2>6, CompareStep
<1>5. CASE n > 0 /\ mem[p] # mem[q]
  <2>1. pc' = "done" /\ ret' = mem0[p] - mem0[q]
    BY <1>1, <1>5 DEF memcmp, Return
  <2>2. k \in Differ(Compared) /\ \A i \in Differ(Compared) : k <= i
    BY <1>1, <1>2, <1>3, <1>5, DiffersFrom
  <2>3. ret' = mem0[dst + k] - mem0[src + k]
    BY <1>1, <1>2, <2>1
  <2> QED
    BY <1>1, <1>3, <2>1, <2>2, <2>3, CompareEnd
<1>6. CASE n = 0
  <2>1. pc' = "done" /\ ret' = 0
    BY <1>1, <1>6 DEF memcmp, Return
  <2>2. Differ(Compared) = {}
    BY <1>1, <1>2, <1>3, <1>6, DiffersFrom
  <2> QED
    BY <1>1, <1>3, <2>1, <2>2, CompareEnd
<1> QED
  BY <1>1, <1>4, <1>5, <1>6, Numbers

\* Where strcmp and strncmp are: inside both strings or at their ends.
LEMMA Comparing ==
  ASSUME Inv, pc = "loop", fn \in {"strcmp", "strncmp"}, NEW k, k = p - dst
  PROVE  /\ TypeInv /\ mem = mem0 /\ fn \in Comparers
         /\ k \in Nat /\ dst \in Int /\ src \in Int /\ len \in Int
         /\ DstLen \in Nat /\ SrcLen \in Nat /\ k <= DstLen /\ k <= SrcLen
         /\ p = dst + k /\ q = src + k /\ p \in Addr /\ q \in Addr
         /\ \A j \in 0 .. k - 1 : mem0[dst + j] = mem0[src + j] /\ mem0[dst + j] # 0
         /\ mem0[p] = 0 => DstLen = k
         /\ mem0[q] = 0 => SrcLen = k
<1>1. /\ TypeInv /\ mem = mem0 /\ fn \in Comparers
      /\ k \in 0 .. MEMSIZE /\ p \in Int /\ q = src + k
      /\ \A j \in 0 .. k - 1 : mem0[dst + j] = mem0[src + j] /\ mem0[dst + j] # 0
  BY DEF Inv, FillInv, CompareInv, Comparers, Copiers
<1>2. k \in Nat /\ dst \in Int /\ src \in Int /\ len \in Int /\ p = dst + k
  BY <1>1, Numbers
<1>3. Terminated(mem0, dst) /\ Terminated(mem0, src) /\ dst \in Addr /\ src \in Addr
  BY <1>1, AllowedIs DEF TypeInv
<1>4. \A j \in 0 .. k - 1 : mem0[src + j] # 0
  BY <1>1
<1>5. DstLen \in Nat /\ SrcLen \in Nat /\ dst + DstLen \in Addr /\ src + SrcLen \in Addr
  BY <1>3, StringLenIs, StringConstants DEF Size, DstLen, SrcLen
<1>6. k <= DstLen /\ k <= SrcLen
  BY <1>1, <1>2, <1>3, <1>4, LenAtLeast DEF DstLen, SrcLen
<1>7. p \in Addr /\ q \in Addr
  BY <1>1, <1>2, <1>5, <1>6, Numbers
<1>8. mem0[p] = 0 => DstLen = k
  BY <1>1, <1>2, <1>3, LenIs DEF DstLen
<1>9. mem0[q] = 0 => SrcLen = k
  BY <1>1, <1>2, <1>3, <1>4, LenIs DEF SrcLen
<1> QED
  BY <1>1, <1>2, <1>5, <1>6, <1>7, <1>8, <1>9

\* Equal characters: the loop goes on.
LEMMA CompareOn ==
  ASSUME Inv, pc = "loop", fn \in {"strcmp", "strncmp"}, Same, UNCHANGED <<args, mem>>,
         p' = p + 1, q' = q + 1, pc' = "loop",
         fn = "strncmp" => n > 0 /\ n' = n - 1
  PROVE  Inv'
<1> DEFINE k == p - dst
<1>1. /\ TypeInv /\ mem = mem0 /\ fn \in Comparers
      /\ k \in Nat /\ dst \in Int /\ src \in Int /\ len \in Int
      /\ p = dst + k /\ q = src + k /\ p \in Addr /\ q \in Addr
      /\ \A j \in 0 .. k - 1 : mem0[dst + j] = mem0[src + j] /\ mem0[dst + j] # 0
  BY Comparing
<1>2. fn = "strncmp" => n \in 0 .. len /\ p = dst + (len - n)
  BY DEF Inv, CompareInv, Comparers
<1> HIDE DEF k
<1>3. \A j \in 0 .. k : mem0[dst + j] = mem0[src + j] /\ mem0[dst + j] # 0
  BY <1>1 DEF Same
<1>4. p' - dst = k + 1 /\ k + 1 \in 0 .. MEMSIZE
  BY <1>1, Numbers
<1>5. /\ p' - dst' \in 0 .. MEMSIZE /\ p' \in Int /\ q' = src' + (p' - dst') /\ fn' = fn
      /\ (fn = "strncmp" => n' \in 0 .. len' /\ p' = dst' + (len' - n'))
  BY <1>1, <1>2, <1>4 DEF args
<1>6. \A j \in 0 .. p' - dst' - 1 : mem0'[dst' + j] = mem0'[src' + j] /\ mem0'[dst' + j] # 0
  BY <1>1, <1>3, <1>4 DEF args
<1>7. CompareInv'
  BY <1>5, <1>6 DEF CompareInv
<1> QED
  BY <1>1, <1>7, CompareStep

\* A difference, or the end of both strings.
LEMMA CompareOff ==
  ASSUME Inv, pc = "loop", fn \in {"strcmp", "strncmp"}, ~Same, UNCHANGED <<args, mem>>,
         fn = "strncmp" => n > 0, pc' = "done", ret' = mem[p] - mem[q]
  PROVE  Inv'
<1> DEFINE k == p - dst
<1>1. /\ TypeInv /\ mem = mem0 /\ fn \in Comparers
      /\ k \in Nat /\ dst \in Int /\ src \in Int /\ len \in Int
      /\ DstLen \in Nat /\ SrcLen \in Nat /\ k <= DstLen /\ k <= SrcLen
      /\ p = dst + k /\ q = src + k /\ p \in Addr /\ q \in Addr
      /\ \A j \in 0 .. k - 1 : mem0[dst + j] = mem0[src + j] /\ mem0[dst + j] # 0
      /\ mem0[p] = 0 => DstLen = k
      /\ mem0[q] = 0 => SrcLen = k
  BY Comparing
<1>2. fn = "strncmp" => k < len
  BY <1>1 DEF Inv, CompareInv, Comparers
<1> HIDE DEF k
<1>3. CASE mem0[p] # mem0[q]
  <2>1. Compared \in Int /\ k < Compared
    BY <1>1, <1>2, ComparedIs DEF Min2
  <2>2. k \in Differ(Compared) /\ \A i \in Differ(Compared) : k <= i
    BY <1>1, <1>3, <2>1, DiffersFrom
  <2>3. ret' = mem0[dst + k] - mem0[src + k]
    BY <1>1
  <2> QED
    BY <1>1, <2>2, <2>3, CompareEnd
<1>4. CASE mem0[p] = mem0[q]
  <2>1. mem0[p] = 0 /\ mem0[q] = 0
    BY <1>1, <1>4 DEF Same
  <2>2. Compared = k + 1
    BY <1>1, <1>2, <2>1, ComparedIs DEF Min2
  <2>3. Differ(Compared) = {}
    <3>1. mem0[dst + k] = mem0[src + k] /\ Compared \in Int
      BY <1>1, <1>4, <2>2
    <3> QED
      BY <1>1, <2>2, <3>1, DiffersFrom
  <2>4. ret' = 0
    BY <1>1, <2>1
  <2> QED
    BY <1>1, <2>3, <2>4, CompareEnd
<1> QED
  BY <1>3, <1>4

\* strcmp and strncmp preserve it.
LEMMA StepStrcmp ==
  ASSUME Inv, strcmp
  PROVE  Inv'
<1>1. pc = "loop" /\ fn = "strcmp" /\ UNCHANGED <<args, mem>>
  BY DEF strcmp
<1>2. CASE Same
  BY <1>1, <1>2, CompareOn DEF strcmp
<1>3. CASE ~Same
  BY <1>1, <1>3, CompareOff DEF strcmp, Return
<1> QED
  BY <1>2, <1>3

LEMMA StepStrncmp ==
  ASSUME Inv, strncmp
  PROVE  Inv'
<1>1. /\ pc = "loop" /\ fn = "strncmp" /\ UNCHANGED <<args, mem>>
      /\ n \in 0 .. len /\ p = dst + (len - n)
  BY DEF strncmp, Inv, CompareInv, Comparers
<1>2. CASE n > 0 /\ Same
  BY <1>1, <1>2, CompareOn DEF strncmp
<1>3. CASE n > 0 /\ ~Same
  BY <1>1, <1>3, CompareOff DEF strncmp, Return
<1>4. CASE n = 0
  <2> DEFINE k == p - dst
  <2>1. /\ TypeInv /\ fn \in Comparers /\ k \in Nat /\ dst \in Int /\ len \in Int
        /\ DstLen \in Nat /\ SrcLen \in Nat
        /\ \A j \in 0 .. k - 1 : mem0[dst + j] = mem0[src + j]
    BY <1>1, Comparing
  <2>2. k = len
    BY <1>1, <1>4, <2>1
  <2> HIDE DEF k
  <2>3. Compared \in Int /\ Compared <= k
    BY <1>1, <2>1, <2>2, ComparedIs DEF Min2
  <2>4. Differ(Compared) = {}
    BY <2>1, <2>3, DiffersFrom
  <2>5. pc' = "done" /\ ret' = 0
    BY <1>1, <1>4 DEF strncmp, Return
  <2> QED
    BY <1>1, <2>1, <2>4, <2>5, CompareEnd
<1> QED
  <2>1. n > 0 \/ n = 0
    BY <1>1
  <2> QED
    BY <2>1, <1>2, <1>3, <1>4

-----------------------------------------------------------------------------
\* The places of c in the string.
Hits == {a \in src .. src + SrcLen - 1 : mem0[a] = c}

\* What FindsRight asks of each of the four functions.
Found(v) ==
  /\ fn = "strnlen" =>
       /\ v <= len /\ \A k \in 0 .. v - 1 : mem0[src + k] # 0
       /\ v < len => mem0[src + v] = 0
  /\ fn = "strlen" => v = SrcLen
  /\ fn \in {"strchr", "strfind"} =>
       IF Hits = {} THEN v = (IF fn = "strchr" THEN NULL ELSE src + SrcLen)
       ELSE v \in Hits /\ \A a \in Hits : v <= a

\* A search that ends with the right answer.
LEMMA FindEnd ==
  ASSUME TypeInv, UNCHANGED <<args, mem>>, fn \in Finders, pc' = "done", Found(ret')
  PROVE  Inv'
<1>1. /\ fn' = fn /\ len' = len /\ src' = src /\ mem0' = mem0 /\ c' = c
      /\ fn \in {"strlen", "strnlen", "strchr", "strfind"}
  BY DEF args, Finders
<1>2. FindsRight'
  <2>1. CASE fn = "strnlen"
    BY <1>1, <2>1 DEF Found, FindsRight
  <2>2. CASE fn = "strlen"
    BY <1>1, <2>2 DEF Found, FindsRight, SrcLen
  <2>3. CASE fn = "strchr"
    BY <1>1, <2>3 DEF Found, FindsRight, SrcLen, Hits
  <2>4. CASE fn = "strfind"
    BY <1>1, <2>4 DEF Found, FindsRight, SrcLen, Hits
  <2> QED
    BY <1>1, <2>1, <2>2, <2>3, <2>4
<1>3. fn' \notin Copiers /\ fn' \notin Comparers
  BY <1>1 DEF Copiers, Comparers
<1>4. mem' \in [Addr -> Bytes] /\ UNCHANGED args
  BY DEF TypeInv
<1>5. DoneInv'
  BY <1>2, <1>3 DEF DoneInv, CopiesRight, ComparesRight
<1> QED
  BY <1>4, <1>5, Ends

\* A search that goes on.
LEMMA FindStep ==
  ASSUME TypeInv, UNCHANGED <<args, mem>>, fn \in Finders, mem = mem0, pc' = "loop", FindInv'
  PROVE  Inv'
<1>1. mem' \in [Addr -> Bytes] /\ UNCHANGED args
  BY DEF TypeInv
<1>2. TypeInv' /\ DoneInv'
  BY <1>1, Types, NotDone
<1>3. fn' \notin Copiers /\ fn' \notin Comparers /\ mem' = mem0'
  BY DEF Copiers, Comparers, Finders, args
<1>4. FillInv'
  BY <1>3 DEF FillInv, Copiers
<1> QED
  BY <1>2, <1>3, <1>4 DEF Inv, StartInv, MoveInv, CompareInv

\* Where the finders are: inside the string or at its end.
LEMMA Finding ==
  ASSUME Inv, pc = "loop", fn \in Finders, NEW k, k = q - src
  PROVE  /\ TypeInv /\ mem = mem0 /\ k \in Nat /\ src \in Int /\ len \in Int /\ q = src + k
         /\ \A a \in src .. q - 1 : mem0[a] # 0
         /\ \A j \in 0 .. k - 1 : mem0[src + j] # 0
         /\ Terminated(mem0, src) =>
              /\ SrcLen \in Nat /\ k <= SrcLen /\ q \in Addr
              /\ mem0[q] = 0 => SrcLen = k
              /\ mem0[q] # 0 => k < SrcLen
<1>1. /\ TypeInv /\ mem = mem0 /\ k \in 0 .. MEMSIZE /\ q \in Int
      /\ \A a \in src .. q - 1 : mem0[a] # 0
  BY DEF Inv, FillInv, FindInv, Finders, Copiers
<1>2. k \in Nat /\ src \in Int /\ len \in Int /\ q = src + k /\ src \in Addr
  BY <1>1, Numbers
<1>3. \A j \in 0 .. k - 1 : mem0[src + j] # 0
  BY <1>1, <1>2
<1>4. ASSUME Terminated(mem0, src)
      PROVE  /\ SrcLen \in Nat /\ k <= SrcLen /\ q \in Addr
             /\ mem0[q] = 0 => SrcLen = k
             /\ mem0[q] # 0 => k < SrcLen
  <2>1. SrcLen \in Nat /\ src + SrcLen \in Addr /\ mem0[src + SrcLen] = 0
    BY <1>2, <1>4, StringLenIs, StringConstants DEF Size, SrcLen
  <2>2. k <= SrcLen
    BY <1>2, <1>3, <1>4, LenAtLeast DEF SrcLen
  <2>3. mem0[q] = 0 => SrcLen = k
    BY <1>2, <1>3, <1>4, LenIs DEF SrcLen
  <2>4. mem0[q] # 0 => k < SrcLen
    BY <1>2, <2>1, <2>2
  <2>5. q \in Addr
    BY <1>1, <1>2, <2>1, <2>2, Numbers
  <2> QED
    BY <2>1, <2>2, <2>3, <2>4, <2>5
<1> QED
  BY <1>1, <1>2, <1>3, <1>4

\* The four searches preserve the invariant.
LEMMA StepStrlen ==
  ASSUME Inv, strlen
  PROVE  Inv'
<1> DEFINE k    == q - src
           more == (fn = "strnlen" => cnt < len) /\ mem[q] # 0
<1>1. /\ pc = "loop" /\ fn \in {"strlen", "strnlen"} /\ fn \in Finders
      /\ UNCHANGED <<args, mem>> /\ cnt = k /\ (fn = "strnlen" => cnt <= len)
  BY DEF strlen, Inv, FindInv, Finders
<1>2. /\ TypeInv /\ mem = mem0 /\ k \in Nat /\ src \in Int /\ len \in Int /\ q = src + k
      /\ \A a \in src .. q - 1 : mem0[a] # 0
      /\ \A j \in 0 .. k - 1 : mem0[src + j] # 0
      /\ Terminated(mem0, src) =>
           /\ SrcLen \in Nat /\ k <= SrcLen /\ q \in Addr
           /\ mem0[q] = 0 => SrcLen = k
           /\ mem0[q] # 0 => k < SrcLen
  BY <1>1, Finding
<1>3. fn = "strlen" => Terminated(mem0, src)
  BY <1>2, AllowedIs DEF TypeInv
<1>4. fn = "strnlen" => Terminated(mem0, src) \/ src + len <= MEMSIZE
  BY <1>2, AllowedIs DEF TypeInv, Fits
<1> HIDE DEF k
<1>5. CASE more
  <2>1. q' = q + 1 /\ cnt' = cnt + 1 /\ pc' = "loop"
    BY <1>5 DEF strlen
  <2>2. q \in Addr
    <3>1. CASE Terminated(mem0, src)
      BY <1>2, <3>1
    <3>2. CASE fn = "strnlen" /\ src + len <= MEMSIZE
      BY <1>1, <1>2, <1>5, <3>2, Numbers
    <3> QED
      BY <1>1, <1>3, <1>4, <3>1, <3>2
  <2>3. \A a \in src .. q : mem0[a] # 0
    BY <1>2, <1>5
  <2>4. /\ q' - src' \in 0 .. MEMSIZE /\ q' \in Int /\ cnt' = q' - src' /\ fn' = fn
        /\ (fn = "strnlen" => cnt' <= len')
    BY <1>1, <1>2, <1>5, <2>1, <2>2, Numbers DEF args
  <2>5. \A a \in src' .. q' - 1 : mem0'[a] # 0
    BY <1>1, <1>2, <2>1, <2>3 DEF args
  <2>6. FindInv'
    BY <1>1, <2>4, <2>5 DEF FindInv
  <2> QED
    BY <1>1, <1>2, <2>1, <2>6, FindStep
<1>6. CASE ~more
  <2>1. pc' = "done" /\ ret' = cnt
    BY <1>6 DEF strlen, Return
  <2>2. Found(cnt)
    BY <1>1, <1>2, <1>3, <1>6 DEF Found
  <2> QED
    BY <1>1, <1>2, <2>1, <2>2, FindEnd
<1> QED
  BY <1>5, <1>6

LEMMA StepStrchr ==
  ASSUME Inv, strchr
  PROVE  Inv'
<1> DEFINE k == q - src
<1>1. /\ pc = "loop" /\ fn \in {"strchr", "strfind"} /\ fn \in Finders
      /\ UNCHANGED <<args, mem>> /\ \A a \in src .. q - 1 : mem0[a] # c
  BY DEF strchr, Inv, FindInv, Finders
<1>2. Terminated(mem0, src)
  BY <1>1, AllowedIs DEF Inv, TypeInv
<1>3. /\ TypeInv /\ mem = mem0 /\ k \in Nat /\ src \in Int /\ q = src + k
      /\ \A a \in src .. q - 1 : mem0[a] # 0
      /\ SrcLen \in Nat /\ k <= SrcLen /\ q \in Addr
      /\ mem0[q] = 0 => SrcLen = k
      /\ mem0[q] # 0 => k < SrcLen
  BY <1>1, <1>2, Finding
<1> HIDE DEF k
<1>4. CASE mem[q] \notin {0, c}
  <2>1. q' = q + 1 /\ pc' = "loop"
    BY <1>4 DEF strchr
  <2>2. \A a \in src .. q : mem0[a] # 0 /\ mem0[a] # c
    BY <1>1, <1>3, <1>4
  <2>3. q' - src' \in 0 .. MEMSIZE /\ q' \in Int /\ fn' = fn
    BY <1>1, <1>3, <2>1, Numbers DEF args
  <2>4. \A a \in src' .. q' - 1 : mem0'[a] # 0 /\ mem0'[a] # c'
    BY <1>1, <1>3, <2>1, <2>2 DEF args
  <2>5. FindInv'
    BY <1>1, <2>3, <2>4 DEF FindInv
  <2> QED
    BY <1>1, <1>3, <2>1, <2>5, FindStep
<1>5. CASE mem[q] \in {0, c}
  <2>1. pc' = "done" /\ ret' = IF mem[q] = 0 /\ fn = "strchr" THEN NULL ELSE q
    BY <1>5 DEF strchr, Return
  <2>2. CASE mem[q] = 0
    <3>1. SrcLen = k /\ Hits = {}
      BY <1>1, <1>3, <2>2 DEF Hits
    <3>2. Found(ret')
      BY <1>1, <1>3, <2>1, <2>2, <3>1 DEF Found
    <3> QED
      BY <1>1, <1>3, <2>1, <3>2, FindEnd
  <2>3. CASE mem[q] # 0 /\ mem[q] = c
    <3>1. k < SrcLen /\ ret' = q
      BY <1>3, <2>1, <2>3
    <3>2. q \in Hits
      BY <1>3, <2>3, <3>1 DEF Hits
    <3>3. ASSUME NEW a \in Hits PROVE q <= a
      BY <1>1, <1>3, <3>3 DEF Hits
    <3>4. Found(ret')
      BY <1>1, <3>1, <3>2, <3>3 DEF Found
    <3> QED
      BY <1>1, <1>3, <2>1, <3>4, FindEnd
  <2> QED
    BY <1>5, <2>2, <2>3
<1> QED
  BY <1>4, <1>5

-----------------------------------------------------------------------------
\* Every step preserves the invariant.
LEMMA InvNext == Inv /\ [Next]_vars => Inv'
<1> SUFFICES ASSUME Inv, [Next]_vars PROVE Inv'
  OBVIOUS
<1>1. CASE UNCHANGED vars
  <2>1. /\ UNCHANGED <<mem, p, q, n, cnt, pc, ret>> /\ UNCHANGED args
        /\ UNCHANGED <<fn, dst, src, len, c, mem0>>
    BY <1>1 DEF vars, args
  <2>2. TypeInv' /\ StartInv' /\ CompareInv' /\ FindInv'
    BY <2>1 DEF Inv, TypeInv, StartInv, CompareInv, FindInv
  <2>3. MoveInv' /\ FillInv'
    BY <2>1, Frozen DEF Inv, MoveInv, FillInv, Moved, Shape, Overlap, Expected, SrcLen
  <2>4. DoneInv'
    BY <2>1 DEF Inv, DoneInv, CopiesRight, ComparesRight, FindsRight, Written, Expected, Differ,
       Compared
  <2> QED
    BY <2>2, <2>3, <2>4 DEF Inv
<1> QED
  BY <1>1, StepEnter, StepCopyUp, StepCopyDown, StepMemset, StepStrcpy, StepStrncpy, StepStrcmp,
     StepStrncmp, StepMemcmp, StepStrlen, StepStrchr DEF Next

\* Inv holds at every iteration of every function of string.c.
THEOREM StringsInvariant == Spec => []Inv
  BY InvInit, InvNext, PTL DEF Spec

\* memmove, memcpy, memset, strcpy and strncpy leave in dst what src held
\* before the call, for every overlap they allow, and change nothing else:
\* see CopiesRight in Strings.
THEOREM CopiesAreRight == Spec => []CopiesRight
<1>1. Inv => CopiesRight
  BY DEF Inv, DoneInv
<1> QED
  BY <1>1, StringsInvariant, PTL

\* memcmp, strcmp and strncmp answer the first difference, or 0: see
\* ComparesRight in Strings.
THEOREM ComparisonsAreRight == Spec => []ComparesRight
<1>1. Inv => ComparesRight
  BY DEF Inv, DoneInv
<1> QED
  BY <1>1, StringsInvariant, PTL

\* strlen, strnlen, strchr and strfind answer the length or the first
\* occurrence: see FindsRight in Strings.
THEOREM SearchesAreRight == Spec => []FindsRight
<1>1. Inv => FindsRight
  BY DEF Inv, DoneInv
<1> QED
  BY <1>1, StringsInvariant, PTL

-----------------------------------------------------------------------------
(***************************************************************************)
(* The next iteration reads and writes only bytes of memory. strncmp and   *)
(* strnlen stop before they read the byte past the last one allowed;       *)
(* strcpy and strcmp rely on the '\0'.                                     *)
(***************************************************************************)
InBounds ==
  /\ pc = "up" /\ n > 0 => {p, q} \subseteq Addr
  /\ pc = "down" /\ n > 0 => {p - 1, q - 1} \subseteq Addr
  /\ pc = "loop" =>
       /\ fn = "memset" /\ n > 0 => p \in Addr
       /\ fn \in {"strncpy", "strncmp", "memcmp"} /\ n > 0 => {p, q} \subseteq Addr
       /\ fn \in {"strcpy", "strcmp"} => {p, q} \subseteq Addr
       /\ fn = "strnlen" /\ cnt < len => q \in Addr
       /\ fn \in {"strlen", "strchr", "strfind"} => q \in Addr

\* No function of string.c touches a byte outside memory, if its caller keeps
\* the rules: p and q are addresses whenever a loop is about to use them.
THEOREM AccessesInBounds == Spec => []InBounds
<1>1. ASSUME Inv PROVE InBounds
  <2>0. TypeInv /\ Allowed(mem0, fn, dst, src, len)
    BY <1>1 DEF Inv, TypeInv
  <2> USE <1>1, <2>0, Numbers
  <2>1. fn \in {"memmove", "memcpy", "memcmp"} => dst + len <= MEMSIZE /\ src + len <= MEMSIZE
    BY AllowedIs DEF Fits
  <2>2. pc = "up" /\ n > 0 => {p, q} \subseteq Addr
    BY <2>1 DEF Inv, MoveInv
  <2>3. pc = "down" /\ n > 0 => {p - 1, q - 1} \subseteq Addr
    BY <2>1 DEF Inv, MoveInv
  <2>4. pc = "loop" /\ fn = "memset" /\ n > 0 => p \in Addr
    BY AllowedIs DEF Inv, FillInv, Fits
  <2>5. pc = "loop" /\ fn = "memcmp" /\ n > 0 => {p, q} \subseteq Addr
    BY <2>1 DEF Inv, CompareInv, Comparers
  <2>6. pc = "loop" /\ fn \in {"strcmp", "strncmp"} => {p, q} \subseteq Addr
    BY Comparing
  <2>7. fn \in {"strcpy", "strncpy"} =>
          /\ SrcLen \in Nat /\ src + SrcLen < MEMSIZE
          /\ fn = "strcpy" => dst + SrcLen < MEMSIZE
          /\ fn = "strncpy" => dst + len <= MEMSIZE
    <3> SUFFICES ASSUME fn \in {"strcpy", "strncpy"}
                 PROVE  /\ SrcLen \in Nat /\ src + SrcLen < MEMSIZE
                        /\ fn = "strcpy" => dst + SrcLen < MEMSIZE
                        /\ fn = "strncpy" => dst + len <= MEMSIZE
      OBVIOUS
    <3>1. /\ Terminated(mem0, src) /\ src \in Addr
          /\ fn = "strcpy" => dst + (SrcLen + 1) <= MEMSIZE
          /\ fn = "strncpy" => dst + len <= MEMSIZE
      BY AllowedIs DEF TypeInv, Fits, SrcLen
    <3>2. SrcLen \in Nat /\ src + SrcLen \in Addr
      BY <3>1, StringLenIs, StringConstants DEF Size, SrcLen
    <3> QED
      BY <3>1, <3>2
  <2>8. pc = "loop" /\ fn = "strcpy" => {p, q} \subseteq Addr
    BY <2>7 DEF Inv, FillInv
  <2>9. pc = "loop" /\ fn = "strncpy" /\ n > 0 => {p, q} \subseteq Addr
    BY <2>7 DEF Inv, FillInv, Min2
  <2>10. pc = "loop" /\ fn \in {"strlen", "strchr", "strfind"} => q \in Addr
    BY Finding, AllowedIs DEF Finders
  <2>11. pc = "loop" /\ fn = "strnlen" /\ cnt < len => q \in Addr
    <3> SUFFICES ASSUME pc = "loop", fn = "strnlen", cnt < len PROVE q \in Addr
      OBVIOUS
    <3>1. CASE Terminated(mem0, src)
      BY <3>1, Finding DEF Finders
    <3>2. CASE src + len <= MEMSIZE
      BY <3>2 DEF Inv, FindInv, Finders
    <3> QED
      BY <3>1, <3>2, AllowedIs DEF Fits
  <2> QED
    BY <2>2, <2>3, <2>4, <2>5, <2>6, <2>8, <2>9, <2>10, <2>11 DEF InBounds
<1> QED
  BY <1>1, StringsInvariant, PTL
=============================================================================
