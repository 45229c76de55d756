------------------------------ MODULE Strings ------------------------------
(***************************************************************************)
(* libs/string.c: the functions on memory and on '\0'-terminated strings,  *)
(* loop iteration by loop iteration over one array of bytes, so that       *)
(* sources and destinations may overlap. A run is one call with any        *)
(* arguments that its comment allows.                                      *)
(***************************************************************************)
EXTENDS Integers

CONSTANTS
  MEMSIZE,    \* bytes of memory
  Bytes       \* the values of a byte; 0 is '\0'

ASSUME StringConstants == MEMSIZE \in Nat \ {0} /\ Bytes \subseteq Nat /\ 0 \in Bytes

Addr == 0 .. MEMSIZE - 1
Size == 0 .. MEMSIZE
NULL == -1

VARIABLES
  mem,
  fn, dst, src, len, c,   \* the function and its arguments
  p, q, n, cnt,           \* its locals: two pointers, what is left, a count
  pc,                     \* "entry", "up", "down", "loop" or "done"
  ret,
  mem0                    \* history: the memory before the call

args == <<fn, dst, src, len, c, mem0>>
vars == <<mem, p, q, n, cnt, pc, ret, args>>

(***************************************************************************)
(* What callers must see to. strncpy and strncmp would also do with n      *)
(* characters that have no '\0' among them; here their strings end.        *)
(***************************************************************************)
StringLen(m, a) == CHOOSE k \in Size : /\ a + k \in Addr /\ m[a + k] = 0
                                       /\ \A j \in 0 .. k - 1 : m[a + j] # 0
Terminated(m, a) == \E b \in a .. MEMSIZE - 1 : m[b] = 0
Fits(a, k)       == a + k <= MEMSIZE
Apart(a, b, k)   == a + k <= b \/ b + k <= a

Allowed(m, f, d, s, k) ==
  CASE f = "memmove" -> Fits(d, k) /\ Fits(s, k)
    [] f = "memcpy"  -> Fits(d, k) /\ Fits(s, k) /\ Apart(d, s, k)
    [] f = "memset"  -> Fits(d, k) /\ s = 0
    [] f = "memcmp"  -> Fits(d, k) /\ Fits(s, k)
    [] f = "strcpy"  -> Terminated(m, s) /\ k = 0 /\ Fits(d, StringLen(m, s) + 1)
                        /\ Apart(d, s, StringLen(m, s) + 1)
    [] f = "strncpy" -> Terminated(m, s) /\ Fits(d, k) /\ (d + k <= s \/ s + StringLen(m, s) < d)
    [] f = "strcmp"  -> Terminated(m, d) /\ Terminated(m, s) /\ k = 0
    [] f = "strncmp" -> Terminated(m, d) /\ Terminated(m, s)
    [] f = "strnlen" -> (Terminated(m, s) \/ Fits(s, k)) /\ d = 0
    [] f = "strlen"  -> Terminated(m, s) /\ d = 0 /\ k = 0
    [] f \in {"strchr", "strfind"} -> Terminated(m, s) /\ d = 0 /\ k = 0

Copiers   == {"memmove", "memcpy", "memset", "strcpy", "strncpy"}
Comparers == {"memcmp", "strcmp", "strncmp"}
Finders   == {"strlen", "strnlen", "strchr", "strfind"}
HasChar   == {"memset", "strchr", "strfind"}

Init ==
  /\ mem \in [Addr -> Bytes] /\ mem0 = mem
  /\ fn \in Copiers \cup Comparers \cup Finders
  /\ dst \in Addr /\ src \in Addr /\ len \in Size /\ c \in Bytes
  /\ fn \notin HasChar => c = 0
  /\ Allowed(mem, fn, dst, src, len)
  /\ p = dst /\ q = src /\ n = len /\ cnt = 0
  /\ pc = "entry" /\ ret = 0

Return(v) == pc' = "done" /\ ret' = v

-----------------------------------------------------------------------------
\* Mutant: memmove always copies upwards.
EnterUpwards ==
  /\ pc = "entry"
  /\ pc' = IF fn \in {"memmove", "memcpy"} THEN "up" ELSE "loop"
  /\ UNCHANGED <<mem, p, q, n, cnt, ret, args>>

\* The test memmove begins with. The others go straight to their loop.
Enter ==
  /\ pc = "entry"
  /\ \/ /\ fn = "memmove" /\ src < dst /\ src + len > dst
        /\ p' = dst + len /\ q' = src + len
        /\ pc' = "down"
     \/ /\ \/ fn = "memmove" /\ ~(src < dst /\ src + len > dst)
           \/ fn = "memcpy"
        /\ pc' = "up"
        /\ UNCHANGED <<p, q>>
     \/ /\ fn \notin {"memmove", "memcpy"}
        /\ pc' = "loop"
        /\ UNCHANGED <<p, q>>
  /\ UNCHANGED <<mem, n, cnt, ret, args>>

\* while (n -- > 0) *d ++ = *s ++;
CopyUp ==
  /\ pc = "up"
  /\ \/ /\ n > 0
        /\ mem' = [mem EXCEPT ![p] = mem[q]]
        /\ p' = p + 1 /\ q' = q + 1 /\ n' = n - 1
        /\ UNCHANGED <<pc, ret>>
     \/ /\ n = 0
        /\ Return(dst)
        /\ UNCHANGED <<mem, p, q, n>>
  /\ UNCHANGED <<cnt, args>>

\* while (n -- > 0) *-- d = *-- s;
CopyDown ==
  /\ pc = "down"
  /\ \/ /\ n > 0
        /\ mem' = [mem EXCEPT ![p - 1] = mem[q - 1]]
        /\ p' = p - 1 /\ q' = q - 1 /\ n' = n - 1
        /\ UNCHANGED <<pc, ret>>
     \/ /\ n = 0
        /\ Return(dst)
        /\ UNCHANGED <<mem, p, q, n>>
  /\ UNCHANGED <<cnt, args>>

memset ==
  /\ pc = "loop" /\ fn = "memset"
  /\ \/ /\ n > 0
        /\ mem' = [mem EXCEPT ![p] = c]
        /\ p' = p + 1 /\ n' = n - 1
        /\ UNCHANGED <<pc, ret>>
     \/ /\ n = 0
        /\ Return(dst)
        /\ UNCHANGED <<mem, p, n>>
  /\ UNCHANGED <<q, cnt, args>>

strcpy ==
  /\ pc = "loop" /\ fn = "strcpy"
  /\ mem' = [mem EXCEPT ![p] = mem[q]]
  /\ p' = p + 1 /\ q' = q + 1
  /\ IF mem[q] # 0 THEN UNCHANGED <<pc, ret>> ELSE Return(dst)
  /\ UNCHANGED <<n, cnt, args>>

\* src stays on the '\0', which is copied until len bytes are written.
strncpy ==
  /\ pc = "loop" /\ fn = "strncpy"
  /\ \/ /\ n > 0
        /\ mem' = [mem EXCEPT ![p] = mem[q]]
        /\ q' = IF mem[q] # 0 THEN q + 1 ELSE q
        /\ p' = p + 1 /\ n' = n - 1
        /\ UNCHANGED <<pc, ret>>
     \/ /\ n = 0
        /\ Return(dst)
        /\ UNCHANGED <<mem, p, q, n>>
  /\ UNCHANGED <<cnt, args>>

-----------------------------------------------------------------------------
\* strcmp and strncmp: equal characters before the end of either string.
Same == mem[p] # 0 /\ mem[p] = mem[q]

strcmp ==
  /\ pc = "loop" /\ fn = "strcmp"
  /\ \/ Same /\ p' = p + 1 /\ q' = q + 1 /\ UNCHANGED <<pc, ret>>
     \/ ~Same /\ Return(mem[p] - mem[q]) /\ UNCHANGED <<p, q>>
  /\ UNCHANGED <<mem, n, cnt, args>>

\* Mutant: the result is the difference also when n characters were equal.
strncmpNoLimit ==
  /\ pc = "loop" /\ fn = "strncmp"
  /\ \/ n > 0 /\ Same /\ p' = p + 1 /\ q' = q + 1 /\ n' = n - 1 /\ UNCHANGED <<pc, ret>>
     \/ ~(n > 0 /\ Same) /\ Return(mem[p] - mem[q]) /\ UNCHANGED <<p, q, n>>
  /\ UNCHANGED <<mem, cnt, args>>

strncmp ==
  /\ pc = "loop" /\ fn = "strncmp"
  /\ \/ n > 0 /\ Same /\ p' = p + 1 /\ q' = q + 1 /\ n' = n - 1 /\ UNCHANGED <<pc, ret>>
     \/ ~(n > 0 /\ Same) /\ Return(IF n = 0 THEN 0 ELSE mem[p] - mem[q]) /\ UNCHANGED <<p, q, n>>
  /\ UNCHANGED <<mem, cnt, args>>

memcmp ==
  /\ pc = "loop" /\ fn = "memcmp"
  /\ \/ n > 0 /\ mem[p] = mem[q] /\ p' = p + 1 /\ q' = q + 1 /\ n' = n - 1 /\ UNCHANGED <<pc, ret>>
     \/ n > 0 /\ mem[p] # mem[q] /\ Return(mem[p] - mem[q]) /\ UNCHANGED <<p, q, n>>
     \/ n = 0 /\ Return(0) /\ UNCHANGED <<p, q, n>>
  /\ UNCHANGED <<mem, cnt, args>>

\* strlen, and strnlen which stops at len characters.
strlen ==
  /\ pc = "loop" /\ fn \in {"strlen", "strnlen"}
  /\ LET more == (fn = "strnlen" => cnt < len) /\ mem[q] # 0
     IN  \/ more /\ q' = q + 1 /\ cnt' = cnt + 1 /\ UNCHANGED <<pc, ret>>
         \/ ~more /\ Return(cnt) /\ UNCHANGED <<q, cnt>>
  /\ UNCHANGED <<mem, p, n, args>>

\* Mutant: strchr answers the end of the string like strfind.
strchrNeverNull ==
  /\ pc = "loop" /\ fn \in {"strchr", "strfind"}
  /\ \/ mem[q] \notin {0, c} /\ q' = q + 1 /\ UNCHANGED <<pc, ret>>
     \/ mem[q] \in {0, c} /\ Return(q) /\ UNCHANGED q
  /\ UNCHANGED <<mem, p, n, cnt, args>>

strchr ==
  /\ pc = "loop" /\ fn \in {"strchr", "strfind"}
  /\ \/ mem[q] \notin {0, c} /\ q' = q + 1 /\ UNCHANGED <<pc, ret>>
     \/ /\ mem[q] \in {0, c}
        /\ Return(IF mem[q] = 0 /\ fn = "strchr" THEN NULL ELSE q)
        /\ UNCHANGED q
  /\ UNCHANGED <<mem, p, n, cnt, args>>

Next ==
  \/ Enter \/ CopyUp \/ CopyDown \/ memset \/ strcpy \/ strncpy
  \/ strcmp \/ strncmp \/ memcmp \/ strlen \/ strchr

Spec == Init /\ [][Next]_vars

-----------------------------------------------------------------------------
Min2(a, b) == IF a < b THEN a ELSE b

\* What the comments say dst holds afterwards, for the k-th byte that is written.
Expected(k) ==
  CASE fn \in {"memmove", "memcpy", "strcpy"} -> mem0[src + k]
    [] fn = "memset"  -> c
    [] fn = "strncpy" -> IF k < StringLen(mem0, src) THEN mem0[src + k] ELSE 0
Written == IF fn = "strcpy" THEN StringLen(mem0, src) + 1 ELSE len

(***************************************************************************)
(* A copying function leaves in dst what src held before the call, padded  *)
(* by strncpy, for every overlap that memmove allows, and changes no byte  *)
(* outside dst.                                                            *)
(***************************************************************************)
CopiesRight ==
  pc = "done" /\ fn \in Copiers =>
    /\ \A a \in Addr :
         mem[a] = IF a \in dst .. dst + Written - 1 THEN Expected(a - dst) ELSE mem0[a]
    /\ ret = dst

\* The first place where the two arguments differ within the first k bytes.
Differ(k) == {j \in 0 .. k - 1 : mem0[dst + j] # mem0[src + j]}
Compared ==
  CASE fn = "memcmp" -> len
    [] fn = "strcmp" -> Min2(StringLen(mem0, dst), StringLen(mem0, src)) + 1
    [] fn = "strncmp" -> Min2(len, Min2(StringLen(mem0, dst), StringLen(mem0, src)) + 1)

(***************************************************************************)
(* A comparison is zero exactly when the strings (up to n characters) or   *)
(* blocks are equal, and otherwise has the sign of the first difference,   *)
(* also for strings that overlap or are prefixes of one another.           *)
(***************************************************************************)
ComparesRight ==
  pc = "done" /\ fn \in Comparers =>
    IF Differ(Compared) = {} THEN ret = 0
    ELSE LET j == CHOOSE j \in Differ(Compared) : \A i \in Differ(Compared) : j <= i
         IN  ret = mem0[dst + j] - mem0[src + j]

(***************************************************************************)
(* strlen measures the string and strnlen at most len of it, without       *)
(* needing a '\0' after that; strchr and strfind give the first occurrence *)
(* of c in the string, or NULL and its end.                                *)
(***************************************************************************)
FindsRight ==
  pc = "done" /\ fn \in Finders =>
    IF fn = "strnlen"
    THEN /\ ret <= len /\ \A k \in 0 .. ret - 1 : mem0[src + k] # 0
         /\ ret < len => mem0[src + ret] = 0
    ELSE LET l    == StringLen(mem0, src)
             hits == {a \in src .. src + l - 1 : mem0[a] = c}
         IN  CASE fn = "strlen" -> ret = l
               [] OTHER -> IF hits = {} THEN ret = (IF fn = "strchr" THEN NULL ELSE src + l)
                           ELSE ret \in hits /\ \A a \in hits : ret <= a
=============================================================================
