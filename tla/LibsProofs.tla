---------------------------- MODULE LibsProofs -----------------------------
(***************************************************************************)
(* Theorems about libs/: the lists of list.h, the bit operations of        *)
(* atomic.h and the formatted output of printfmt.c, for every instance.    *)
(* The three modules share no state; Lists keeps the names Init, Next and  *)
(* Spec, and those of AtomicBits and PrintFmt have a prefix, so that all   *)
(* of them can be extended here.                                           *)
(*                                                                         *)
(* What recursive definitions and folds compute is found by induction over *)
(* sets of natural numbers (lemmas Least, Induct and StrongInduct).        *)
(***************************************************************************)
EXTENDS Lists, AtomicBits, PrintFmt, FiniteSetTheorems, SequenceTheorems, WellFoundedInduction, TLAPS

-----------------------------------------------------------------------------
(***************************************************************************)
(* Lists, for every finite set of list heads and of entries. The invariant *)
(* says that there are sequences s of which next and prev are the rings:   *)
(* what the functions of libs/list.h keep without ever writing it down.    *)
(* That a walk along the links recovers these sequences is an induction    *)
(* over the walk.                                                          *)
(***************************************************************************)

\* The k-th entry of the ring of h, which is back at h after the last.
RingAt(s, h, k) == IF k \in 1 .. Len(s[h]) THEN s[h][k] ELSE h

(***************************************************************************)
(* next and prev link the sequences s: no entry is in two places, lk are   *)
(* the heads and the entries of the sequences, and the links go round each *)
(* ring. Links of entries outside lk are whatever was left there.          *)
(***************************************************************************)
Rings(nx, pv, lk, s) ==
  /\ nx \in [Entries -> Entries] /\ pv \in [Entries -> Entries]
  /\ s \in [Heads -> Seq(Nodes)]
  /\ \A g, h \in Heads : \A u \in 1 .. Len(s[g]), j \in 1 .. Len(s[h]) :
       s[g][u] = s[h][j] => g = h /\ u = j
  /\ \A x : x \in lk <=> x \in Heads \/ \E h \in Heads : \E k \in 1 .. Len(s[h]) : x = s[h][k]
  /\ \A h \in Heads : \A k \in 0 .. Len(s[h]) :
       /\ nx[RingAt(s, h, k)] = RingAt(s, h, k + 1)
       /\ pv[RingAt(s, h, k + 1)] = RingAt(s, h, k)

\* The rings are some sequences.
RingInv == \E s : Rings(next, prev, linked, s)

\* An entry outside the lists points to itself exactly if list_init was the
\* last to touch it; an entry in a list is not fresh.
FreshInv ==
  /\ \A e \in Nodes \ linked : next[e] = e <=> e \in fresh
  /\ \A e \in Nodes \cap linked : e \notin fresh

-----------------------------------------------------------------------------
\* A set of natural numbers that is not empty has a least element, so a set
\* that holds 0 and with every number the next holds all.
LEMMA Least ==
  ASSUME NEW T, T \subseteq Nat, T # {}
  PROVE  \E k \in T : \A j \in T : k <= j
<1> DEFINE R == {ss \in Nat \X Nat : ss[1] < ss[2]}
<1>1. R = OpToRel(<, Nat)
  BY DEF OpToRel
<1>2. IsWellFoundedOn(R, Nat)
  BY <1>1, NatLessThanWellFounded
<1>3. \E k \in T : \A j \in T : ~(<<j, k>> \in R)
  <2> HIDE DEF R
  <2> QED
    BY <1>2, WFMin
<1>4. ASSUME NEW j \in Nat, NEW k \in Nat, ~(<<j, k>> \in R) PROVE k <= j
  BY <1>4
<1> QED
  BY <1>3, <1>4

LEMMA Induct ==
  ASSUME NEW S, 0 \in S, \A k \in Nat : k \in S => k + 1 \in S
  PROVE  Nat \subseteq S
<1> DEFINE T == Nat \ S
<1> SUFFICES ASSUME T # {} PROVE FALSE
  OBVIOUS
<1>1. PICK k \in T : \A j \in T : k <= j
  BY Least
<1>2. k # 0 /\ k \in Nat /\ k - 1 \in Nat
  BY <1>1
<1>3. k - 1 \notin T
  BY <1>1, <1>2
<1> QED
  BY <1>1, <1>2, <1>3

-----------------------------------------------------------------------------
\* The function that Walk defines by recursion.
IsSteps(f, h, m, w) == w = [k \in 0 .. m |-> IF k = 0 THEN h ELSE f[w[k - 1]]]

Steps(f, h, m) == CHOOSE w : IsSteps(f, h, m, w)

\* There is one, by induction on the number of steps.
LEMMA StepsExist ==
  ASSUME NEW f, NEW h, NEW m \in Nat
  PROVE  \E w : IsSteps(f, h, m, w)
<1> DEFINE S == {j \in Nat : \E w : IsSteps(f, h, j, w)}
<1>1. 0 \in S
  <2> DEFINE w == [k \in 0 .. 0 |-> h]
  <2>1. IsSteps(f, h, 0, w)
    BY DEF IsSteps
  <2> HIDE DEF w
  <2> QED
    BY <2>1
<1>2. ASSUME NEW j \in Nat, j \in S PROVE j + 1 \in S
  <2>1. PICK w : IsSteps(f, h, j, w)
    BY <1>2
  <2> DEFINE v == [k \in 0 .. j + 1 |-> IF k = j + 1 THEN f[w[j]] ELSE w[k]]
  <2>2. \A k \in 0 .. j : v[k] = w[k]
    OBVIOUS
  <2>3. \A k \in 0 .. j : w[k] = IF k = 0 THEN h ELSE f[w[k - 1]]
    BY <2>1 DEF IsSteps
  <2>4. v[j + 1] = f[v[j]]
    BY <2>2
  <2>5. ASSUME NEW k \in 0 .. j + 1 PROVE v[k] = IF k = 0 THEN h ELSE f[v[k - 1]]
    <3>1. CASE k = j + 1
      BY <2>4, <3>1
    <3>2. CASE k # j + 1
      <4>1. k \in 0 .. j /\ (k # 0 => k - 1 \in 0 .. j)
        BY <3>2
      <4> QED
        BY <2>2, <2>3, <4>1
    <3> QED
      BY <3>1, <3>2
  <2>6. v = [k \in 0 .. j + 1 |-> v[k]]
    OBVIOUS
  <2> HIDE DEF v
  <2>7. IsSteps(f, h, j + 1, v)
    BY <2>5, <2>6 DEF IsSteps
  <2> QED
    BY <2>7
<1>3. Nat \subseteq S
  <2> HIDE DEF S
  <2> QED
    BY <1>1, <1>2, Induct
<1> QED
  BY <1>3

\* So Steps computes what its recursion says.
LEMMA StepsAre ==
  ASSUME NEW f, NEW h, NEW m \in Nat
  PROVE  \A k \in 0 .. m :
           Steps(f, h, m)[k] = IF k = 0 THEN h ELSE f[Steps(f, h, m)[k - 1]]
<1>1. IsSteps(f, h, m, Steps(f, h, m))
  BY StepsExist, Zenon DEF Steps
<1>2. ASSUME NEW w, IsSteps(f, h, m, w)
      PROVE  \A k \in 0 .. m : w[k] = IF k = 0 THEN h ELSE f[w[k - 1]]
  BY <1>2 DEF IsSteps
<1> QED
  BY <1>1, <1>2

\* Walk in terms of Steps.
LEMMA WalkSteps ==
  ASSUME NEW f, NEW h
  PROVE  Walk(f, h) =
           LET most  == Cardinality(Entries)
               round == {k \in 1 .. most : Steps(f, h, most)[k] = h}
               len   == IF round = {} THEN most
                        ELSE CHOOSE k \in round : \A j \in round : k <= j
           IN  [k \in 1 .. len - 1 |-> Steps(f, h, most)[k]]
  BY Zenon DEF Walk, Steps, IsSteps

\* A walk along f goes round the ring r.
LEMMA WalkRing ==
  ASSUME NEW f, NEW h, NEW N \in Nat, N + 1 <= Cardinality(Entries), Cardinality(Entries) \in Nat,
         NEW r, r[0] = h, r[N + 1] = h, \A k \in 1 .. N : r[k] # h,
         \A k \in 0 .. N : f[r[k]] = r[k + 1],
         NEW q \in [1 .. N -> Nodes], \A k \in 1 .. N : q[k] = r[k]
  PROVE  Walk(f, h) = q
<1> DEFINE most == Cardinality(Entries)
           w == Steps(f, h, most)
           round == {k \in 1 .. most : w[k] = h}
           len == IF round = {} THEN most ELSE CHOOSE k \in round : \A j \in round : k <= j
<1>1. Walk(f, h) = [k \in 1 .. len - 1 |-> w[k]]
  BY WalkSteps
<1>2. \A k \in 0 .. most : w[k] = IF k = 0 THEN h ELSE f[w[k - 1]]
  BY StepsAre
<1>3. most \in Nat /\ N + 1 <= most
  OBVIOUS
<1> HIDE DEF w, most
<1>4. ASSUME NEW k \in 0 .. N + 1 PROVE w[k] = r[k]
  <2> DEFINE S == {j \in Nat : j <= N + 1 => w[j] = r[j]}
  <2>1. 0 \in S
    BY <1>2, <1>3
  <2>2. ASSUME NEW j \in Nat, j \in S PROVE j + 1 \in S
    <3> SUFFICES ASSUME j + 1 <= N + 1 PROVE w[j + 1] = r[j + 1]
      OBVIOUS
    <3>1. w[j] = r[j] /\ j \in 0 .. N /\ j + 1 \in 0 .. most /\ j + 1 # 0 /\ (j + 1) - 1 = j
      BY <1>3, <2>2
    <3>2. w[j + 1] = f[w[j]]
      BY <1>2, <3>1
    <3> QED
      BY <3>1, <3>2
  <2>3. Nat \subseteq S
    <3> HIDE DEF S
    <3> QED
      BY <2>1, <2>2, Induct
  <2> QED
    BY <2>3
<1>5. N + 1 \in round /\ \A j \in round : N + 1 <= j
  <2>1. w[N + 1] = h /\ N + 1 \in 1 .. most
    BY <1>3, <1>4
  <2>2. ASSUME NEW j \in round, j < N + 1 PROVE FALSE
    BY <1>3, <1>4, <2>2
  <2> QED
    BY <1>3, <2>1, <2>2
<1>6. len = N + 1
  <2>1. round # {} /\ round \subseteq Int
    BY <1>3, <1>5
  <2> HIDE DEF round
  <2>2. len \in round /\ \A j \in round : len <= j
    BY <1>5, <2>1
  <2> HIDE DEF len
  <2> QED
    BY <1>3, <1>5, <2>1, <2>2
<1>7. [k \in 1 .. len - 1 |-> w[k]] = q
  <2> HIDE DEF len
  <2> QED
    BY <1>4, <1>6
<1> QED
  BY <1>1, <1>7

\* The ring r of f from h on and back to h, with the entries q in between.
RoundOf(f, h, N, r, q) ==
  /\ N \in Nat /\ N + 1 <= Cardinality(Entries) /\ Cardinality(Entries) \in Nat
  /\ r[0] = h /\ r[N + 1] = h /\ \A k \in 1 .. N : r[k] # h
  /\ \A k \in 0 .. N : f[r[k]] = r[k + 1]
  /\ q \in [1 .. N -> Nodes] /\ \A k \in 1 .. N : q[k] = r[k]

\* The same with the ring as one hypothesis.
LEMMA WalkRound ==
  ASSUME NEW f, NEW h, NEW N, NEW r, NEW q, RoundOf(f, h, N, r, q)
  PROVE  Walk(f, h) = q
BY WalkRing DEF RoundOf

-----------------------------------------------------------------------------
\* The elements of a sequence with one more, and with one less.
LEMMA InsertAtIs ==
  ASSUME NEW S, NEW q \in Seq(S), NEW e \in S, NEW k \in 0 .. Len(q)
  PROVE  /\ InsertAt(q, k + 1, e) \in Seq(S)
         /\ Len(InsertAt(q, k + 1, e)) = Len(q) + 1
         /\ \A u \in 1 .. Len(q) + 1 : InsertAt(q, k + 1, e)[u] =
              IF u <= k THEN q[u] ELSE IF u = k + 1 THEN e ELSE q[u - 1]
<1> DEFINE a == SubSeq(q, 1, k)
           c == SubSeq(q, k + 1, Len(q))
<1>1. q \in [1 .. Len(q) -> S] /\ Len(q) \in Nat /\ k \in Nat /\ k <= Len(q)
  BY LenProperties
<1>2. InsertAt(q, k + 1, e) = (a \o <<e>>) \o c
  <2>1. (k + 1) - 1 = k
    BY <1>1
  <2> QED
    BY <2>1, Zenon DEF InsertAt
<1>3. a \in Seq(S) /\ Len(a) = k /\ \A u \in 1 .. k : a[u] = q[u]
  <2>1. \A u \in 1 .. k : q[u] \in S
    BY <1>1
  <2> QED
    BY <1>1, <2>1, SubSeqProperties
<1>4. c \in Seq(S) /\ Len(c) = Len(q) - k /\ \A u \in 1 .. Len(q) - k : c[u] = q[k + u]
  <2>1. \A u \in k + 1 .. Len(q) : q[u] \in S
    BY <1>1
  <2>2. /\ c \in Seq(S)
        /\ Len(c) = IF k + 1 <= Len(q) THEN Len(q) - (k + 1) + 1 ELSE 0
        /\ \A u \in 1 .. Len(q) - (k + 1) + 1 : c[u] = q[k + 1 + u - 1]
    BY <1>1, <2>1, SubSeqProperties
  <2> HIDE DEF c
  <2>3. ASSUME NEW u \in 1 .. Len(q) - k PROVE c[u] = q[k + u]
    <3>1. u \in 1 .. Len(q) - (k + 1) + 1 /\ k + 1 + u - 1 = k + u
      BY <1>1
    <3> QED
      BY <2>2, <3>1
  <2>4. Len(c) = Len(q) - k
    <3>1. Len(c) = IF k + 1 <= Len(q) THEN Len(q) - (k + 1) + 1 ELSE 0
      BY <2>2
    <3>2. Len(q) \in Int /\ k \in Int /\ k <= Len(q)
      BY <1>1
    <3> QED
      BY <3>1, <3>2
  <2> QED
    BY <2>2, <2>3, <2>4
<1>5. <<e>> \in Seq(S) /\ Len(<<e>>) = 1 /\ <<e>>[1] = e
  OBVIOUS
<1> HIDE DEF a, c
<1> DEFINE d == a \o <<e>>
<1>6. d \in Seq(S) /\ Len(d) = k + 1 /\ \A u \in 1 .. k + 1 : d[u] = IF u <= k THEN q[u] ELSE e
  <2>1. /\ d \in Seq(S) /\ Len(d) = k + 1
        /\ \A u \in 1 .. k + 1 : d[u] = IF u <= k THEN a[u] ELSE <<e>>[u - k]
    BY <1>3, <1>5, ConcatProperties
  <2> HIDE DEF d
  <2> QED
    BY <1>1, <1>3, <1>5, <2>1
<1> HIDE DEF d
<1>7. /\ d \o c \in Seq(S) /\ Len(d \o c) = Len(q) + 1
      /\ \A u \in 1 .. Len(q) + 1 : (d \o c)[u] = IF u <= k + 1 THEN d[u] ELSE c[u - (k + 1)]
  <2>1. /\ d \o c \in Seq(S) /\ Len(d \o c) = Len(d) + Len(c)
        /\ \A u \in 1 .. Len(d) + Len(c) :
             (d \o c)[u] = IF u <= Len(d) THEN d[u] ELSE c[u - Len(d)]
    BY <1>4, <1>6, ConcatProperties
  <2>2. Len(d) + Len(c) = Len(q) + 1
    BY <1>1, <1>4, <1>6
  <2> QED
    BY <1>6, <2>1, <2>2
<1> DEFINE t == d \o c
<1>8. InsertAt(q, k + 1, e) = t
  BY <1>2 DEF d
<1> HIDE DEF t
<1>9. ASSUME NEW u \in 1 .. Len(q) + 1
      PROVE  t[u] = IF u <= k THEN q[u] ELSE IF u = k + 1 THEN e ELSE q[u - 1]
  <2>1. t[u] = IF u <= k + 1 THEN d[u] ELSE c[u - (k + 1)]
    BY <1>7 DEF t
  <2>2. u <= k + 1 => d[u] = IF u <= k THEN q[u] ELSE e
    BY <1>1, <1>6
  <2>3. ~(u <= k + 1) => u - (k + 1) \in 1 .. Len(q) - k /\ k + (u - (k + 1)) = u - 1
    BY <1>1
  <2>4. ~(u <= k + 1) => c[u - (k + 1)] = q[u - 1]
    BY <1>4, <2>3
  <2> QED
    BY <1>1, <2>1, <2>2, <2>4
<1>10. t \in Seq(S) /\ Len(t) = Len(q) + 1
  BY <1>7 DEF t
<1> QED
  BY <1>8, <1>9, <1>10

LEMMA RemoveAtIs ==
  ASSUME NEW S, NEW q \in Seq(S), NEW k \in 1 .. Len(q)
  PROVE  /\ RemoveAt(q, k) \in Seq(S)
         /\ Len(RemoveAt(q, k)) = Len(q) - 1
         /\ \A u \in 1 .. Len(q) - 1 : RemoveAt(q, k)[u] =
              IF u < k THEN q[u] ELSE q[u + 1]
<1> DEFINE a == SubSeq(q, 1, k - 1)
           c == SubSeq(q, k + 1, Len(q))
<1>1. q \in [1 .. Len(q) -> S] /\ Len(q) \in Nat /\ k \in Nat /\ 1 <= k /\ k <= Len(q)
  BY LenProperties
<1>2. RemoveAt(q, k) = a \o c
  BY DEF RemoveAt
<1>3. a \in Seq(S) /\ Len(a) = k - 1 /\ \A u \in 1 .. k - 1 : a[u] = q[u]
  <2>1. \A u \in 1 .. k - 1 : q[u] \in S
    BY <1>1
  <2> QED
    BY <1>1, <2>1, SubSeqProperties
<1>4. c \in Seq(S) /\ Len(c) = Len(q) - k /\ \A u \in 1 .. Len(q) - k : c[u] = q[k + u]
  <2>1. \A u \in k + 1 .. Len(q) : q[u] \in S
    BY <1>1
  <2>2. /\ c \in Seq(S)
        /\ Len(c) = IF k + 1 <= Len(q) THEN Len(q) - (k + 1) + 1 ELSE 0
        /\ \A u \in 1 .. Len(q) - (k + 1) + 1 : c[u] = q[k + 1 + u - 1]
    BY <1>1, <2>1, SubSeqProperties
  <2> HIDE DEF c
  <2>3. ASSUME NEW u \in 1 .. Len(q) - k PROVE c[u] = q[k + u]
    <3>1. u \in 1 .. Len(q) - (k + 1) + 1 /\ k + 1 + u - 1 = k + u
      BY <1>1
    <3> QED
      BY <2>2, <3>1
  <2>4. Len(c) = Len(q) - k
    <3>1. Len(c) = IF k + 1 <= Len(q) THEN Len(q) - (k + 1) + 1 ELSE 0
      BY <2>2
    <3>2. Len(q) \in Int /\ k \in Int /\ k <= Len(q)
      BY <1>1
    <3> QED
      BY <3>1, <3>2
  <2> QED
    BY <2>2, <2>3, <2>4
<1> HIDE DEF a, c
<1> DEFINE t == a \o c
<1>5. /\ t \in Seq(S) /\ Len(t) = Len(q) - 1
      /\ \A u \in 1 .. Len(q) - 1 : t[u] = IF u <= k - 1 THEN a[u] ELSE c[u - (k - 1)]
  <2>1. /\ t \in Seq(S) /\ Len(t) = Len(a) + Len(c)
        /\ \A u \in 1 .. Len(a) + Len(c) : t[u] = IF u <= Len(a) THEN a[u] ELSE c[u - Len(a)]
    BY <1>3, <1>4, ConcatProperties
  <2>2. Len(a) + Len(c) = Len(q) - 1
    BY <1>1, <1>3, <1>4
  <2> HIDE DEF t
  <2> QED
    BY <1>3, <2>1, <2>2
<1> HIDE DEF t
<1>6. ASSUME NEW u \in 1 .. Len(q) - 1 PROVE t[u] = IF u < k THEN q[u] ELSE q[u + 1]
  <2>1. u < k => u \in 1 .. k - 1 /\ u <= k - 1
    BY <1>1
  <2>2. ~(u < k) => ~(u <= k - 1) /\ u - (k - 1) \in 1 .. Len(q) - k /\ k + (u - (k - 1)) = u + 1
    BY <1>1
  <2> QED
    BY <1>3, <1>4, <1>5, <2>1, <2>2
<1> QED
  BY <1>2, <1>5, <1>6 DEF t

-----------------------------------------------------------------------------
\* A ring passes every entry once.
LEMMA RingOnce ==
  ASSUME NEW nx, NEW pv, NEW lk, NEW s, Rings(nx, pv, lk, s),
         NEW g \in Heads, NEW h \in Heads
  PROVE  /\ Len(s[g]) \in Nat
         /\ \A u \in 0 .. Len(s[g]) : RingAt(s, g, u) \in Entries /\ RingAt(s, g, u) \in lk
         /\ RingAt(s, g, Len(s[g]) + 1) = g
         /\ \A u \in 0 .. Len(s[g]), j \in 0 .. Len(s[h]) :
              RingAt(s, g, u) = RingAt(s, h, j) => g = h /\ u = j
         /\ \A u \in 1 .. Len(s[g]) + 1, j \in 1 .. Len(s[h]) + 1 :
              RingAt(s, g, u) = RingAt(s, h, j) => g = h /\ u = j
<1>1. s[g] \in Seq(Nodes) /\ s[h] \in Seq(Nodes) /\ Len(s[g]) \in Nat /\ Len(s[h]) \in Nat
  BY DEF Rings
<1>2. /\ \A u \in 1 .. Len(s[g]) : s[g][u] \in Nodes /\ s[g][u] \notin Heads
      /\ \A u \in 1 .. Len(s[h]) : s[h][u] \in Nodes /\ s[h][u] \notin Heads
  BY <1>1, ElementOfSeq, ListConstants
<1>3. \A u \in 1 .. Len(s[g]), j \in 1 .. Len(s[h]) : s[g][u] = s[h][j] => g = h /\ u = j
  BY DEF Rings
<1>4. g \in lk /\ \A u \in 1 .. Len(s[g]) : s[g][u] \in lk
  BY DEF Rings
<1> QED
  BY <1>1, <1>2, <1>3, <1>4 DEF RingAt, Entries

\* It holds no more entries than there are.
LEMMA RingFits ==
  ASSUME NEW nx, NEW pv, NEW lk, NEW s, Rings(nx, pv, lk, s), NEW h \in Heads
  PROVE  Cardinality(Entries) \in Nat /\ Len(s[h]) + 1 <= Cardinality(Entries)
<1> DEFINE N == Len(s[h])
           r == [k \in 0 .. N |-> RingAt(s, h, k)]
<1>1. IsFiniteSet(Entries) /\ Cardinality(Entries) \in Nat
  BY ListConstants, FS_CardinalityType DEF Entries
<1>2. N \in Nat /\ r \in [0 .. N -> Entries] /\ \A u, j \in 0 .. N : r[u] = r[j] => u = j
  BY RingOnce
<1> HIDE DEF r, N
<1>3. r \in Injection(0 .. N, Entries)
  BY <1>2 DEF Injection, IsInjective
<1>4. Cardinality(0 .. N) <= Cardinality(Entries)
  BY <1>1, <1>3, FS_Injection
<1>5. Cardinality(0 .. N) = N + 1
  BY <1>2, FS_Interval
<1> QED
  BY <1>1, <1>4, <1>5 DEF N

\* Along next a walk reads the sequence, along prev the sequence backwards.
LEMMA WalkIs ==
  ASSUME NEW nx, NEW pv, NEW lk, NEW s, Rings(nx, pv, lk, s), NEW h \in Heads
  PROVE  /\ Walk(nx, h) = s[h]
         /\ Walk(pv, h) = [k \in 1 .. Len(s[h]) |-> s[h][Len(s[h]) + 1 - k]]
<1> DEFINE N == Len(s[h])
           r == [k \in 0 .. N + 1 |-> RingAt(s, h, k)]
           b == [k \in 0 .. N + 1 |-> RingAt(s, h, N + 1 - k)]
           back == [k \in 1 .. N |-> s[h][N + 1 - k]]
<1>1. N \in Nat /\ Cardinality(Entries) \in Nat /\ N + 1 <= Cardinality(Entries)
  BY RingOnce, RingFits
<1>2. s[h] \in Seq(Nodes) /\ s[h] \in [1 .. N -> Nodes]
  BY LenProperties DEF Rings
<1>3. \A k \in 1 .. N : s[h][k] # h
  BY <1>2, ListConstants
<1>4. Walk(nx, h) = s[h]
  <2>1. r[0] = h /\ r[N + 1] = h /\ \A k \in 1 .. N : r[k] # h /\ s[h][k] = r[k]
    BY <1>1, <1>3 DEF RingAt
  <2>2. \A k \in 0 .. N : nx[r[k]] = r[k + 1]
    BY <1>1 DEF Rings
  <2> DEFINE fwd == s[h]
  <2>3. fwd \in [1 .. N -> Nodes] /\ \A k \in 1 .. N : fwd[k] = r[k]
    BY <1>2, <2>1
  <2> HIDE DEF r, b, N, back, fwd
  <2>4. RoundOf(nx, h, N, r, fwd)
    BY <1>1, <2>1, <2>2, <2>3 DEF RoundOf
  <2>5. Walk(nx, h) = fwd
    BY <2>4, WalkRound
  <2> QED
    BY <2>5 DEF fwd
<1>5. Walk(pv, h) = back
  <2>1. b[0] = h /\ b[N + 1] = h /\ \A k \in 1 .. N : b[k] # h /\ back[k] = b[k]
    BY <1>1, <1>3 DEF RingAt
  <2>2. ASSUME NEW k \in 0 .. N PROVE pv[b[k]] = b[k + 1]
    <3>1. /\ N - k \in 0 .. N /\ (N - k) + 1 = N + 1 - k /\ N + 1 - (k + 1) = N - k
          /\ k + 1 \in 0 .. N + 1 /\ k \in 0 .. N + 1
      <4> HIDE DEF N
      <4> QED
        BY <1>1
    <3>2. pv[RingAt(s, h, (N - k) + 1)] = RingAt(s, h, N - k)
      BY <3>1 DEF Rings
    <3> QED
      BY <3>1, <3>2
  <2>3. back \in [1 .. N -> Nodes]
    <3> HIDE DEF N
    <3> QED
      BY <1>1, <1>2
  <2> HIDE DEF r, b, N, back
  <2>4. RoundOf(pv, h, N, b, back)
    BY <1>1, <2>1, <2>2, <2>3 DEF RoundOf
  <2> QED
    BY <2>4, WalkRound
<1> QED
  BY <1>4, <1>5

-----------------------------------------------------------------------------
(***************************************************************************)
(* __list_add between the entries k and k + 1 of a ring: the result is the *)
(* ring of the sequence with the new entry between them, and all other     *)
(* rings are as before.                                                    *)
(***************************************************************************)
LEMMA InsertRep ==
  ASSUME NEW nx, NEW pv, NEW lk, NEW s, Rings(nx, pv, lk, s),
         NEW h \in Heads, NEW k \in 0 .. Len(s[h]), NEW e \in Nodes, e \notin lk,
         NEW nx2, nx2 = [nx EXCEPT ![RingAt(s, h, k)] = e, ![e] = RingAt(s, h, k + 1)],
         NEW pv2, pv2 = [pv EXCEPT ![RingAt(s, h, k + 1)] = e, ![e] = RingAt(s, h, k)]
  PROVE  Rings(nx2, pv2, lk \cup {e}, [s EXCEPT ![h] = InsertAt(s[h], k + 1, e)])
<1> DEFINE N == Len(s[h])
           q == InsertAt(s[h], k + 1, e)
           s2 == [s EXCEPT ![h] = q]
<1>1. /\ s \in [Heads -> Seq(Nodes)] /\ nx \in [Entries -> Entries] /\ pv \in [Entries -> Entries]
      /\ \A g \in Heads : s[g] \in Seq(Nodes) /\ Len(s[g]) \in Nat
  BY DEF Rings
<1>2. /\ q \in Seq(Nodes) /\ Len(q) = N + 1
      /\ \A u \in 1 .. N + 1 : q[u] = IF u <= k THEN s[h][u] ELSE IF u = k + 1 THEN e ELSE s[h][u - 1]
  BY <1>1, InsertAtIs
<1>3. N \in Nat /\ k \in Nat /\ k <= N
  BY <1>1
<1> HIDE DEF q
<1>4. s2 \in [Heads -> Seq(Nodes)] /\ s2[h] = q /\ \A g \in Heads : g # h => s2[g] = s[g]
  BY <1>1, <1>2
<1> HIDE DEF s2
<1>5. ASSUME NEW u \in 0 .. N + 2
      PROVE  RingAt(s2, h, u) = IF u <= k THEN RingAt(s, h, u)
                                ELSE IF u = k + 1 THEN e ELSE RingAt(s, h, u - 1)
  <2> HIDE DEF N
  <2>1. RingAt(s2, h, u) = IF u \in 1 .. N + 1 THEN q[u] ELSE h
    BY <1>2, <1>4 DEF RingAt
  <2>2. \A j : RingAt(s, h, j) = IF j \in 1 .. N THEN s[h][j] ELSE h
    BY DEF RingAt, N
  <2>3. CASE u = 0 \/ u = N + 2
    <3>1. u \notin 1 .. N + 1 /\ (u <= k => u \notin 1 .. N) /\ u # k + 1 /\ (~(u <= k) => u - 1 \notin 1 .. N)
      BY <1>3, <2>3
    <3> QED
      BY <2>1, <2>2, <3>1
  <2>4. CASE u \in 1 .. N + 1
    <3>1. (u <= k => u \in 1 .. N) /\ (~(u <= k) /\ u # k + 1 => u - 1 \in 1 .. N)
      BY <1>3, <2>4
    <3> QED
      BY <1>2, <2>1, <2>2, <2>4, <3>1 DEF N
  <2> QED
    BY <1>3, <2>3, <2>4
<1>6. \A g \in Heads : g # h => \A u : RingAt(s2, g, u) = RingAt(s, g, u)
  BY <1>4 DEF RingAt
<1>7. \A g \in Heads : \A u \in 1 .. Len(s[g]) : s[g][u] # e
  BY DEF Rings
<1>8. \A f, g \in Heads : \A u \in 1 .. Len(s[f]), j \in 1 .. Len(s[g]) :
        s[f][u] = s[g][j] => f = g /\ u = j
  BY DEF Rings
<1>9. ASSUME NEW f \in Heads, NEW g \in Heads, NEW u \in 1 .. Len(s2[f]), NEW j \in 1 .. Len(s2[g]),
             s2[f][u] = s2[g][j]
      PROVE  f = g /\ u = j
  <2>1. CASE f # h /\ g # h
    BY <1>4, <1>8, <1>9, <2>1
  <2>2. ASSUME NEW m \in 1 .. N + 1
        PROVE  \/ m = k + 1 /\ q[m] = e
               \/ m <= k /\ m \in 1 .. N /\ q[m] = s[h][m]
               \/ m > k + 1 /\ m - 1 \in 1 .. N /\ q[m] = s[h][m - 1]
    BY <1>2, <1>3, SMTT(30)
  <2>3. CASE f = h /\ g = h
    <3>1. u \in 1 .. N + 1 /\ j \in 1 .. N + 1 /\ q[u] = q[j]
      BY <1>2, <1>4, <1>9, <2>3
    <3>2. u \in Int /\ j \in Int
      BY <1>3, <3>1
    <3>3. \A x, y \in 1 .. N : s[h][x] = s[h][y] => x = y
      BY <1>8
    <3>4. \A x \in 1 .. N : s[h][x] # e
      BY <1>7
    <3> HIDE DEF N
    <3> QED
      BY <1>3, <2>2, <2>3, <3>1, <3>2, <3>3, <3>4
  <2>4. CASE f = h /\ g # h
    <3>1. u \in 1 .. N + 1 /\ q[u] = s[g][j] /\ j \in 1 .. Len(s[g])
      BY <1>2, <1>4, <1>9, <2>4
    <3>2. s[g][j] # e /\ \A x \in 1 .. N : s[h][x] # s[g][j]
      BY <1>7, <1>8, <2>4, <3>1
    <3> HIDE DEF N
    <3> QED
      BY <2>2, <3>1, <3>2
  <2>5. CASE f # h /\ g = h
    <3>1. j \in 1 .. N + 1 /\ q[j] = s[f][u] /\ u \in 1 .. Len(s[f])
      BY <1>2, <1>4, <1>9, <2>5
    <3>2. s[f][u] # e /\ \A x \in 1 .. N : s[h][x] # s[f][u]
      BY <1>7, <1>8, <2>5, <3>1
    <3> HIDE DEF N
    <3> QED
      BY <2>2, <3>1, <3>2
  <2> QED
    BY <2>1, <2>3, <2>4, <2>5
<1>10. ASSUME NEW x
       PROVE  x \in lk \cup {e} <=> x \in Heads \/ \E g \in Heads : \E u \in 1 .. Len(s2[g]) : x = s2[g][u]
  <2>1. x \in lk <=> x \in Heads \/ \E g \in Heads : \E u \in 1 .. Len(s[g]) : x = s[g][u]
    BY DEF Rings
  <2>2. ASSUME NEW g \in Heads, NEW u \in 1 .. Len(s[g]), x = s[g][u]
        PROVE  \E j \in 1 .. Len(s2[g]) : x = s2[g][j]
    <3>1. CASE g # h
      BY <1>4, <2>2, <3>1
    <3>2. CASE g = h /\ u <= k
      <4>1. u \in 1 .. N /\ u \in 1 .. N + 1 /\ x = s[h][u]
        BY <1>3, <2>2, <3>2
      <4>2. q[u] = x
        BY <1>2, <3>2, <4>1
      <4> QED
        BY <1>2, <1>4, <3>2, <4>1, <4>2
    <3>3. CASE g = h /\ ~(u <= k)
      <4>1. u + 1 \in 1 .. N + 1 /\ ~(u + 1 <= k) /\ u + 1 # k + 1 /\ (u + 1) - 1 = u
        BY <1>3, <2>2, <3>3
      <4>2. q[u + 1] = x
        BY <1>2, <2>2, <3>3, <4>1
      <4> QED
        BY <1>2, <1>4, <3>3, <4>1, <4>2
    <3> QED
      BY <3>1, <3>2, <3>3
  <2>3. \E j \in 1 .. Len(s2[h]) : e = s2[h][j]
    <3>1. k + 1 \in 1 .. N + 1 /\ ~(k + 1 <= k)
      BY <1>3
    <3> QED
      BY <1>2, <1>4, <3>1
  <2>4. ASSUME NEW g \in Heads, NEW u \in 1 .. Len(s2[g]), x = s2[g][u]
        PROVE  x = e \/ \E j \in 1 .. Len(s[g]) : x = s[g][j]
    <3>1. CASE g # h
      BY <1>4, <2>4, <3>1
    <3>2. CASE g = h
      <4>1. u \in 1 .. N + 1 /\ x = q[u]
        BY <1>2, <1>4, <2>4, <3>2
      <4>2. (u <= k => u \in 1 .. N) /\ (~(u <= k) /\ u # k + 1 => u - 1 \in 1 .. N)
        BY <1>3, <4>1
      <4> QED
        BY <1>2, <3>2, <4>1, <4>2
    <3> QED
      BY <3>1, <3>2
  <2> QED
    BY <2>1, <2>2, <2>3, <2>4
<1>11. /\ nx2 \in [Entries -> Entries] /\ pv2 \in [Entries -> Entries]
       /\ e \in Entries /\ RingAt(s, h, k) \in Entries /\ RingAt(s, h, k + 1) \in Entries
       /\ RingAt(s, h, k) # e /\ RingAt(s, h, k + 1) # e
  <2>1. /\ RingAt(s, h, k) \in Entries /\ RingAt(s, h, k) \in lk
        /\ RingAt(s, h, k + 1) \in Entries /\ RingAt(s, h, k + 1) \in lk
    <3>1. k \in 0 .. N /\ (k + 1 \in 0 .. N \/ k + 1 = N + 1)
      BY <1>3
    <3>2. h \in lk /\ h \in Entries
      BY DEF Rings, Entries
    <3> QED
      BY <3>1, <3>2, RingOnce
  <2> QED
    BY <1>1, <2>1 DEF Entries
<1>12. \A x \in Entries : nx2[x] = IF x = e THEN RingAt(s, h, k + 1) ELSE IF x = RingAt(s, h, k) THEN e ELSE nx[x]
  BY <1>1, <1>11
<1>13. \A x \in Entries : pv2[x] = IF x = e THEN RingAt(s, h, k) ELSE IF x = RingAt(s, h, k + 1) THEN e ELSE pv[x]
  BY <1>1, <1>11
<1>14. ASSUME NEW g \in Heads, NEW u \in 0 .. Len(s[g]), g # h \/ u # k
       PROVE  /\ nx2[RingAt(s, g, u)] = RingAt(s, g, u + 1)
              /\ pv2[RingAt(s, g, u + 1)] = RingAt(s, g, u)
  <2>1. u + 1 \in 1 .. Len(s[g]) + 1 /\ k + 1 \in 1 .. Len(s[h]) + 1 /\ (u # k => u + 1 # k + 1)
    BY <1>1, <1>3
  <2>2. RingAt(s, g, u) # RingAt(s, h, k) /\ RingAt(s, g, u + 1) # RingAt(s, h, k + 1)
    BY <1>14, <2>1, RingOnce
  <2>3. RingAt(s, g, u) \in Entries /\ RingAt(s, g, u) \in lk
    BY RingOnce
  <2>4. RingAt(s, g, u + 1) \in Entries /\ RingAt(s, g, u + 1) \in lk
    <3>1. u + 1 \in 0 .. Len(s[g]) \/ u + 1 = Len(s[g]) + 1
      BY <1>1
    <3>2. g \in lk /\ g \in Entries
      BY DEF Rings, Entries
    <3> QED
      BY <3>1, <3>2, RingOnce
  <2>5. nx[RingAt(s, g, u)] = RingAt(s, g, u + 1) /\ pv[RingAt(s, g, u + 1)] = RingAt(s, g, u)
    BY DEF Rings
  <2> QED
    BY <1>12, <1>13, <2>2, <2>3, <2>4, <2>5
<1>15. ASSUME NEW g \in Heads, NEW u \in 0 .. Len(s2[g])
       PROVE  /\ nx2[RingAt(s2, g, u)] = RingAt(s2, g, u + 1)
              /\ pv2[RingAt(s2, g, u + 1)] = RingAt(s2, g, u)
  <2>1. CASE g # h
    <3>1. u \in 0 .. Len(s[g])
      BY <1>4, <2>1
    <3>2. RingAt(s2, g, u) = RingAt(s, g, u) /\ RingAt(s2, g, u + 1) = RingAt(s, g, u + 1)
      BY <1>6, <2>1
    <3> QED
      BY <1>14, <2>1, <3>1, <3>2
  <2>2. CASE g = h
    <3>1. u \in 0 .. N + 1
      BY <1>2, <1>4, <2>2
    <3>2. u \in 0 .. N + 2 /\ u + 1 \in 0 .. N + 2 /\ u \in Int
      BY <1>3, <3>1
    <3>3. CASE u < k
      <4>1. u <= k /\ u + 1 <= k /\ u \in 0 .. N /\ u # k
        BY <1>3, <3>2, <3>3
      <4>2. RingAt(s2, h, u) = RingAt(s, h, u) /\ RingAt(s2, h, u + 1) = RingAt(s, h, u + 1)
        BY <1>5, <3>2, <4>1
      <4> QED
        BY <1>14, <2>2, <4>1, <4>2
    <3>4. CASE u = k
      <4>1. u <= k /\ ~(u + 1 <= k) /\ u + 1 = k + 1
        BY <1>3, <3>4
      <4>2. RingAt(s2, h, u) = RingAt(s, h, k) /\ RingAt(s2, h, u + 1) = e
        BY <1>5, <3>2, <3>4, <4>1
      <4> QED
        BY <1>11, <1>12, <1>13, <2>2, <4>2
    <3>5. CASE u = k + 1
      <4>1. ~(u <= k) /\ ~(u + 1 <= k) /\ u + 1 # k + 1 /\ (u + 1) - 1 = k + 1
        BY <1>3, <3>5
      <4>2. RingAt(s2, h, u) = e /\ RingAt(s2, h, u + 1) = RingAt(s, h, k + 1)
        BY <1>5, <3>2, <3>5, <4>1
      <4> QED
        BY <1>11, <1>12, <1>13, <2>2, <4>2
    <3>6. CASE u > k + 1
      <4>1. /\ ~(u <= k) /\ u # k + 1 /\ ~(u + 1 <= k) /\ u + 1 # k + 1 /\ (u + 1) - 1 = (u - 1) + 1
            /\ u - 1 \in 0 .. N /\ u - 1 # k
        BY <1>3, <3>1, <3>2, <3>6
      <4>2. RingAt(s2, h, u) = RingAt(s, h, u - 1) /\ RingAt(s2, h, u + 1) = RingAt(s, h, (u - 1) + 1)
        BY <1>5, <3>2, <4>1
      <4> QED
        BY <1>14, <2>2, <4>1, <4>2
    <3> QED
      BY <1>3, <3>2, <3>3, <3>4, <3>5, <3>6
  <2> QED
    BY <2>1, <2>2
<1>16. Rings(nx2, pv2, lk \cup {e}, s2)
  BY <1>4, <1>9, <1>10, <1>11, <1>15 DEF Rings
<1> QED
  BY <1>16 DEF s2, q

(***************************************************************************)
(* __list_del of the k-th entry, whatever becomes of the links of that     *)
(* entry: the result is the ring of the sequence without it, and all other *)
(* rings are as before.                                                    *)
(***************************************************************************)
LEMMA DeleteRep ==
  ASSUME NEW nx, NEW pv, NEW lk, NEW s, Rings(nx, pv, lk, s),
         NEW h \in Heads, NEW k \in 1 .. Len(s[h]), NEW e, e = s[h][k],
         NEW nx2 \in [Entries -> Entries], NEW pv2 \in [Entries -> Entries],
         \A x \in Entries : x # e =>
           /\ nx2[x] = IF x = RingAt(s, h, k - 1) THEN RingAt(s, h, k + 1) ELSE nx[x]
           /\ pv2[x] = IF x = RingAt(s, h, k + 1) THEN RingAt(s, h, k - 1) ELSE pv[x]
  PROVE  Rings(nx2, pv2, lk \ {e}, [s EXCEPT ![h] = RemoveAt(s[h], k)])
<1> DEFINE N == Len(s[h])
           q == RemoveAt(s[h], k)
           s2 == [s EXCEPT ![h] = q]
<1>1. /\ s \in [Heads -> Seq(Nodes)] /\ nx \in [Entries -> Entries] /\ pv \in [Entries -> Entries]
      /\ \A g \in Heads : s[g] \in Seq(Nodes) /\ Len(s[g]) \in Nat
  BY DEF Rings
<1>2. /\ q \in Seq(Nodes) /\ Len(q) = N - 1
      /\ \A u \in 1 .. N - 1 : q[u] = IF u < k THEN s[h][u] ELSE s[h][u + 1]
  BY <1>1, RemoveAtIs
<1>3. N \in Nat /\ k \in Nat /\ 1 <= k /\ k <= N
  BY <1>1
<1> HIDE DEF q
<1>4. s2 \in [Heads -> Seq(Nodes)] /\ s2[h] = q /\ \A g \in Heads : g # h => s2[g] = s[g]
  BY <1>1, <1>2
<1> HIDE DEF s2
<1>5. ASSUME NEW u \in 0 .. N
      PROVE  RingAt(s2, h, u) = IF u < k THEN RingAt(s, h, u) ELSE RingAt(s, h, u + 1)
  <2> HIDE DEF N
  <2>1. RingAt(s2, h, u) = IF u \in 1 .. N - 1 THEN q[u] ELSE h
    BY <1>2, <1>4 DEF RingAt
  <2>2. \A j : RingAt(s, h, j) = IF j \in 1 .. N THEN s[h][j] ELSE h
    BY DEF RingAt, N
  <2>3. CASE u = 0 \/ u = N
    <3>1. u \notin 1 .. N - 1 /\ (u < k => u \notin 1 .. N) /\ (~(u < k) => u + 1 \notin 1 .. N)
      BY <1>3, <2>3
    <3> QED
      BY <2>1, <2>2, <3>1
  <2>4. CASE u \in 1 .. N - 1
    <3>1. u \in 1 .. N /\ u + 1 \in 1 .. N
      BY <1>3, <2>4
    <3> QED
      BY <1>2, <2>1, <2>2, <2>4, <3>1 DEF N
  <2> QED
    BY <1>3, <2>3, <2>4
<1>6. \A g \in Heads : g # h => \A u : RingAt(s2, g, u) = RingAt(s, g, u)
  BY <1>4 DEF RingAt
<1>7. \A f, g \in Heads : \A u \in 1 .. Len(s[f]), j \in 1 .. Len(s[g]) :
        s[f][u] = s[g][j] => f = g /\ u = j
  BY DEF Rings
\* Entry u of the shorter list was entry u or u + 1.
<1>8. ASSUME NEW m \in 1 .. N - 1
      PROVE  \/ m < k /\ m \in 1 .. N /\ m # k /\ q[m] = s[h][m]
             \/ m >= k /\ m + 1 \in 1 .. N /\ m + 1 # k /\ q[m] = s[h][m + 1]
  <2>1. m \in 1 .. N /\ m + 1 \in 1 .. N /\ (~(m < k) => m >= k /\ m + 1 # k) /\ (m < k => m # k)
    BY <1>3
  <2> QED
    BY <1>2, <2>1
<1>9. ASSUME NEW f \in Heads, NEW g \in Heads, NEW u \in 1 .. Len(s2[f]), NEW j \in 1 .. Len(s2[g]),
             s2[f][u] = s2[g][j]
      PROVE  f = g /\ u = j
  <2>1. CASE f # h /\ g # h
    BY <1>4, <1>7, <1>9, <2>1
  <2>2. CASE f = h /\ g = h
    <3>1. u \in 1 .. N - 1 /\ j \in 1 .. N - 1 /\ q[u] = q[j]
      BY <1>2, <1>4, <1>9, <2>2
    <3>2. u \in Int /\ j \in Int
      BY <1>3, <3>1
    <3>3. \A x, y \in 1 .. N : s[h][x] = s[h][y] => x = y
      BY <1>7
    <3> HIDE DEF N
    <3> QED
      BY <1>3, <1>8, <2>2, <3>1, <3>2, <3>3
  <2>3. CASE f = h /\ g # h
    <3>1. u \in 1 .. N - 1 /\ q[u] = s[g][j] /\ j \in 1 .. Len(s[g])
      BY <1>2, <1>4, <1>9, <2>3
    <3>2. \A x \in 1 .. N : s[h][x] # s[g][j]
      BY <1>7, <2>3, <3>1
    <3> HIDE DEF N
    <3> QED
      BY <1>8, <3>1, <3>2
  <2>4. CASE f # h /\ g = h
    <3>1. j \in 1 .. N - 1 /\ q[j] = s[f][u] /\ u \in 1 .. Len(s[f])
      BY <1>2, <1>4, <1>9, <2>4
    <3>2. \A x \in 1 .. N : s[h][x] # s[f][u]
      BY <1>7, <2>4, <3>1
    <3> HIDE DEF N
    <3> QED
      BY <1>8, <3>1, <3>2
  <2> QED
    BY <2>1, <2>2, <2>3, <2>4
<1>10. ASSUME NEW x
       PROVE  x \in lk \ {e} <=> x \in Heads \/ \E g \in Heads : \E u \in 1 .. Len(s2[g]) : x = s2[g][u]
  <2>1. x \in lk <=> x \in Heads \/ \E g \in Heads : \E u \in 1 .. Len(s[g]) : x = s[g][u]
    BY DEF Rings
  <2>2. ASSUME NEW g \in Heads, NEW u \in 1 .. Len(s[g]), x = s[g][u], x # e
        PROVE  \E j \in 1 .. Len(s2[g]) : x = s2[g][j]
    <3>1. CASE g # h
      BY <1>4, <2>2, <3>1
    <3>2. CASE g = h
      <4>1. u \in 1 .. N /\ x = s[h][u] /\ u # k /\ u \in Int
        BY <1>3, <2>2, <3>2
      <4>2. CASE u < k
        <5>1. u \in 1 .. N - 1
          BY <1>3, <4>1, <4>2
        <5> QED
          BY <1>2, <1>4, <3>2, <4>1, <4>2, <5>1
      <4>3. CASE u > k
        <5>1. u - 1 \in 1 .. N - 1 /\ ~(u - 1 < k) /\ (u - 1) + 1 = u
          BY <1>3, <4>1, <4>3
        <5>2. q[u - 1] = x
          BY <1>2, <4>1, <5>1
        <5> QED
          BY <1>2, <1>4, <3>2, <5>1, <5>2
      <4> QED
        BY <1>3, <4>1, <4>2, <4>3
    <3> QED
      BY <3>1, <3>2
  <2>3. e \notin Heads /\ e \in lk
    <3>1. e \in Nodes
      BY <1>1, ElementOfSeq
    <3> QED
      BY <3>1, ListConstants DEF Rings
  <2>4. ASSUME NEW g \in Heads, NEW u \in 1 .. Len(s2[g]), x = s2[g][u]
        PROVE  x # e /\ \E j \in 1 .. Len(s[g]) : x = s[g][j]
    <3>1. CASE g # h
      BY <1>4, <1>7, <2>4, <3>1
    <3>2. CASE g = h
      <4>1. u \in 1 .. N - 1 /\ x = q[u]
        BY <1>2, <1>4, <2>4, <3>2
      <4>2. \A y \in 1 .. N : s[h][y] = e => y = k
        BY <1>7
      <4>3. x # e /\ \E j \in 1 .. N : x = s[h][j]
        <5> HIDE DEF N
        <5> QED
          BY <1>8, <4>1, <4>2
      <4> QED
        BY <3>2, <4>3
    <3> QED
      BY <3>1, <3>2
  <2> QED
    BY <2>1, <2>2, <2>3, <2>4
<1>11. /\ RingAt(s, h, k) = e /\ k - 1 \in 0 .. N /\ k \in 0 .. N /\ k + 1 \in 1 .. N + 1 /\ k \in 1 .. N + 1
  BY <1>3 DEF RingAt
<1>12. \A g \in Heads : g \in Entries /\ g \in lk
  BY DEF Rings, Entries
<1>13. ASSUME NEW g \in Heads, NEW u \in 0 .. Len(s[g]), g # h \/ (u # k - 1 /\ u # k)
       PROVE  /\ nx2[RingAt(s, g, u)] = RingAt(s, g, u + 1)
              /\ pv2[RingAt(s, g, u + 1)] = RingAt(s, g, u)
  <2>1. u + 1 \in 1 .. Len(s[g]) + 1 /\ k + 1 \in 1 .. Len(s[h]) + 1 /\ (u # k => u + 1 # k + 1) /\ (u # k - 1 => u + 1 # k)
        /\ k - 1 \in 0 .. Len(s[h]) /\ k \in 0 .. Len(s[h]) /\ k \in 1 .. Len(s[h]) + 1
    BY <1>1, <1>3, SMTT(30)
  <2>2. /\ RingAt(s, g, u) # RingAt(s, h, k - 1) /\ RingAt(s, g, u + 1) # RingAt(s, h, k + 1)
        /\ RingAt(s, g, u) # e /\ RingAt(s, g, u + 1) # e
    BY <1>11, <1>13, <2>1, RingOnce, SMTT(30)
  <2>3. RingAt(s, g, u) \in Entries
    BY RingOnce
  <2>4. RingAt(s, g, u + 1) \in Entries
    <3>1. u + 1 \in 0 .. Len(s[g]) \/ u + 1 = Len(s[g]) + 1
      BY <1>1
    <3> QED
      BY <1>12, <3>1, RingOnce
  <2>5. nx[RingAt(s, g, u)] = RingAt(s, g, u + 1) /\ pv[RingAt(s, g, u + 1)] = RingAt(s, g, u)
    BY DEF Rings
  <2> QED
    BY <2>2, <2>3, <2>4, <2>5
<1>14. /\ nx2[RingAt(s, h, k - 1)] = RingAt(s, h, k + 1)
       /\ pv2[RingAt(s, h, k + 1)] = RingAt(s, h, k - 1)
  <2>1. k - 1 # k /\ k + 1 # k /\ (k + 1 \in 0 .. N \/ k + 1 = N + 1)
    BY <1>3
  <2>2. RingAt(s, h, k - 1) # e /\ RingAt(s, h, k + 1) # e
    BY <1>11, <2>1, RingOnce
  <2>3. RingAt(s, h, k - 1) \in Entries /\ RingAt(s, h, k + 1) \in Entries
    BY <1>11, <1>12, <2>1, RingOnce
  <2> QED
    BY <2>2, <2>3
<1>15. ASSUME NEW g \in Heads, NEW u \in 0 .. Len(s2[g])
       PROVE  /\ nx2[RingAt(s2, g, u)] = RingAt(s2, g, u + 1)
              /\ pv2[RingAt(s2, g, u + 1)] = RingAt(s2, g, u)
  <2>1. CASE g # h
    <3>1. u \in 0 .. Len(s[g])
      BY <1>4, <2>1
    <3>2. RingAt(s2, g, u) = RingAt(s, g, u) /\ RingAt(s2, g, u + 1) = RingAt(s, g, u + 1)
      BY <1>6, <2>1
    <3> QED
      BY <1>13, <2>1, <3>1, <3>2
  <2>2. CASE g = h
    <3>1. u \in 0 .. N - 1
      BY <1>2, <1>4, <2>2
    <3>2. u \in 0 .. N /\ u + 1 \in 0 .. N /\ u \in Int
      BY <1>3, <3>1
    <3>3. CASE u < k - 1
      <4>1. u < k /\ u + 1 < k /\ u # k - 1 /\ u # k
        BY <1>3, <3>2, <3>3
      <4>2. RingAt(s2, h, u) = RingAt(s, h, u) /\ RingAt(s2, h, u + 1) = RingAt(s, h, u + 1)
        BY <1>5, <3>2, <4>1
      <4> QED
        BY <1>13, <2>2, <3>2, <4>1, <4>2
    <3>4. CASE u = k - 1
      <4>1. u < k /\ ~(u + 1 < k) /\ (u + 1) + 1 = k + 1
        BY <1>3, <3>4
      <4>2. RingAt(s2, h, u) = RingAt(s, h, k - 1) /\ RingAt(s2, h, u + 1) = RingAt(s, h, k + 1)
        BY <1>5, <3>2, <3>4, <4>1
      <4> QED
        BY <1>14, <2>2, <4>2
    <3>5. CASE u >= k
      <4>1. ~(u < k) /\ ~(u + 1 < k) /\ u + 1 # k - 1 /\ u + 1 # k
        BY <1>3, <3>2, <3>5
      <4>2. RingAt(s2, h, u) = RingAt(s, h, u + 1) /\ RingAt(s2, h, u + 1) = RingAt(s, h, (u + 1) + 1)
        BY <1>5, <3>2, <4>1
      <4> QED
        BY <1>13, <2>2, <3>2, <4>1, <4>2
    <3> QED
      BY <1>3, <3>2, <3>3, <3>4, <3>5
  <2> QED
    BY <2>1, <2>2
<1>16. Rings(nx2, pv2, lk \ {e}, s2)
  BY <1>4, <1>9, <1>10, <1>15 DEF Rings
<1> QED
  BY <1>16 DEF s2, q

\* list_init of an entry outside the lists touches no ring.
LEMMA InitRep ==
  ASSUME NEW nx, NEW pv, NEW lk, NEW s, Rings(nx, pv, lk, s), NEW e \in Nodes, e \notin lk
  PROVE  Rings([nx EXCEPT ![e] = e], [pv EXCEPT ![e] = e], lk, s)
<1> DEFINE nx2 == [nx EXCEPT ![e] = e]
           pv2 == [pv EXCEPT ![e] = e]
<1>1. nx \in [Entries -> Entries] /\ pv \in [Entries -> Entries] /\ e \in Entries
  BY DEF Rings, Entries
<1>2. /\ nx2 \in [Entries -> Entries] /\ pv2 \in [Entries -> Entries]
      /\ \A x \in Entries : x # e => nx2[x] = nx[x] /\ pv2[x] = pv[x]
  BY <1>1
<1> HIDE DEF nx2, pv2
<1>3. ASSUME NEW h \in Heads, NEW k \in 0 .. Len(s[h])
      PROVE  /\ nx2[RingAt(s, h, k)] = RingAt(s, h, k + 1)
             /\ pv2[RingAt(s, h, k + 1)] = RingAt(s, h, k)
  <2>1. Len(s[h]) \in Nat /\ RingAt(s, h, k) \in Entries /\ RingAt(s, h, k) \in lk
    BY RingOnce
  <2>2. h \in lk /\ h \in Entries
    BY DEF Rings, Entries
  <2>3. k + 1 \in 0 .. Len(s[h]) \/ k + 1 = Len(s[h]) + 1
    BY <2>1
  <2>4. RingAt(s, h, k + 1) \in Entries /\ RingAt(s, h, k + 1) \in lk
    BY <2>2, <2>3, RingOnce
  <2>5. nx[RingAt(s, h, k)] = RingAt(s, h, k + 1) /\ pv[RingAt(s, h, k + 1)] = RingAt(s, h, k)
    BY DEF Rings
  <2> QED
    BY <1>2, <2>1, <2>4, <2>5
<1>4. Rings(nx2, pv2, lk, s)
  BY <1>2, <1>3 DEF Rings
<1> QED
  BY <1>4 DEF nx2, pv2

\* Where a linked entry is.
LEMMA Place ==
  ASSUME NEW nx, NEW pv, NEW lk, NEW s, Rings(nx, pv, lk, s), NEW x \in lk
  PROVE  /\ \E h \in Heads : \E k \in 0 .. Len(s[h]) :
              x = RingAt(s, h, k) /\ nx[x] = RingAt(s, h, k + 1)
         /\ \E h \in Heads : \E k \in 0 .. Len(s[h]) :
              x = RingAt(s, h, k + 1) /\ pv[x] = RingAt(s, h, k)
         /\ nx[x] \in lk /\ pv[x] \in lk /\ x \in Entries
<1>1. PICK h \in Heads : x = h \/ \E k \in 1 .. Len(s[h]) : x = s[h][k]
  BY DEF Rings
<1>2. /\ Len(s[h]) \in Nat /\ RingAt(s, h, 0) = h /\ RingAt(s, h, Len(s[h]) + 1) = h
      /\ \A k \in 1 .. Len(s[h]) : RingAt(s, h, k) = s[h][k]
  BY RingOnce DEF RingAt
<1>3. \E k \in 0 .. Len(s[h]) : x = RingAt(s, h, k)
  BY <1>1, <1>2
<1>4. \E k \in 0 .. Len(s[h]) : x = RingAt(s, h, k + 1)
  <2>1. CASE x = h
    <3>1. Len(s[h]) \in 0 .. Len(s[h])
      BY <1>2
    <3> QED
      BY <1>2, <2>1, <3>1
  <2>2. ASSUME NEW k \in 1 .. Len(s[h]), x = s[h][k] PROVE \E j \in 0 .. Len(s[h]) : x = RingAt(s, h, j + 1)
    <3>1. k - 1 \in 0 .. Len(s[h]) /\ (k - 1) + 1 = k
      BY <1>2
    <3>2. x = RingAt(s, h, (k - 1) + 1)
      BY <1>2, <2>2, <3>1
    <3> QED
      BY <3>1, <3>2
  <2> QED
    BY <1>1, <2>1, <2>2
<1>5. \A k \in 0 .. Len(s[h]) : /\ nx[RingAt(s, h, k)] = RingAt(s, h, k + 1)
                               /\ pv[RingAt(s, h, k + 1)] = RingAt(s, h, k)
  BY DEF Rings
<1>6. ASSUME NEW k \in 0 .. Len(s[h])
      PROVE  /\ RingAt(s, h, k) \in lk /\ RingAt(s, h, k + 1) \in lk /\ RingAt(s, h, k) \in Entries
  <2>1. k + 1 \in 0 .. Len(s[h]) \/ k + 1 = Len(s[h]) + 1
    BY <1>2
  <2>2. h \in lk
    BY DEF Rings
  <2> QED
    BY <1>2, <2>1, <2>2, RingOnce
<1> QED
  BY <1>3, <1>4, <1>5, <1>6

\* A linked node: its place, and that it is not its own neighbour.
LEMMA NodePlace ==
  ASSUME NEW nx, NEW pv, NEW lk, NEW s, Rings(nx, pv, lk, s), NEW e \in lk, e \in Nodes
  PROVE  /\ \E h \in Heads : \E k \in 1 .. Len(s[h]) :
              e = s[h][k] /\ nx[e] = RingAt(s, h, k + 1) /\ pv[e] = RingAt(s, h, k - 1)
         /\ nx[e] # e /\ pv[e] # e
<1>1. PICK h \in Heads : \E k \in 1 .. Len(s[h]) : e = s[h][k]
  BY ListConstants DEF Rings
<1>2. PICK k \in 1 .. Len(s[h]) : e = s[h][k]
  BY <1>1
<1>3. Len(s[h]) \in Nat /\ RingAt(s, h, k) = e /\ h # e
  BY <1>2, RingOnce, ListConstants DEF RingAt
<1>4. /\ k \in 0 .. Len(s[h]) /\ k - 1 \in 0 .. Len(s[h]) /\ (k - 1) + 1 = k /\ k - 1 # k /\ k + 1 # k
      /\ (k + 1 \in 0 .. Len(s[h]) \/ k + 1 = Len(s[h]) + 1)
  BY <1>3
<1>5. nx[e] = RingAt(s, h, k + 1) /\ pv[e] = RingAt(s, h, k - 1)
  <2>1. \A j \in 0 .. Len(s[h]) : /\ nx[RingAt(s, h, j)] = RingAt(s, h, j + 1)
                                 /\ pv[RingAt(s, h, j + 1)] = RingAt(s, h, j)
    BY DEF Rings
  <2>2. pv[RingAt(s, h, (k - 1) + 1)] = RingAt(s, h, k - 1)
    BY <1>4, <2>1
  <2> QED
    BY <1>3, <1>4, <2>1, <2>2
<1>6. RingAt(s, h, k + 1) # e /\ RingAt(s, h, k - 1) # e
  BY <1>3, <1>4, RingOnce
<1> QED
  BY <1>2, <1>5, <1>6

-----------------------------------------------------------------------------
\* Each function of list.h turns the rings of s into those of a changed s.
LEMMA AfterStep ==
  ASSUME NEW s, Rings(next, prev, linked, s), NEW x, NEW e \in Nodes, list_add_after(x, e)
  PROVE  \E h \in Heads : \E k \in 0 .. Len(s[h]) :
           /\ x = RingAt(s, h, k)
           /\ Rings(next', prev', linked', [s EXCEPT ![h] = InsertAt(s[h], k + 1, e)])
<1>1. x \in linked /\ e \notin linked /\ linked' = linked \cup {e}
  BY DEF list_add_after
<1>2. PICK h \in Heads : \E k \in 0 .. Len(s[h]) : x = RingAt(s, h, k) /\ next[x] = RingAt(s, h, k + 1)
  BY <1>1, Place
<1>3. PICK k \in 0 .. Len(s[h]) : x = RingAt(s, h, k) /\ next[x] = RingAt(s, h, k + 1)
  BY <1>2
<1>4. /\ next' = [next EXCEPT ![RingAt(s, h, k)] = e, ![e] = RingAt(s, h, k + 1)]
      /\ prev' = [prev EXCEPT ![RingAt(s, h, k + 1)] = e, ![e] = RingAt(s, h, k)]
  BY <1>3, Zenon DEF list_add_after, AddLink
<1>5. Rings(next', prev', linked \cup {e}, [s EXCEPT ![h] = InsertAt(s[h], k + 1, e)])
  BY <1>1, <1>4, InsertRep
<1> QED
  BY <1>1, <1>3, <1>5

LEMMA BeforeStep ==
  ASSUME NEW s, Rings(next, prev, linked, s), NEW x, NEW e \in Nodes, list_add_before(x, e)
  PROVE  \E h \in Heads : \E k \in 0 .. Len(s[h]) :
           /\ x = RingAt(s, h, k + 1)
           /\ Rings(next', prev', linked', [s EXCEPT ![h] = InsertAt(s[h], k + 1, e)])
<1>1. x \in linked /\ e \notin linked /\ linked' = linked \cup {e}
  BY DEF list_add_before
<1>2. PICK h \in Heads : \E k \in 0 .. Len(s[h]) : x = RingAt(s, h, k + 1) /\ prev[x] = RingAt(s, h, k)
  BY <1>1, Place
<1>3. PICK k \in 0 .. Len(s[h]) : x = RingAt(s, h, k + 1) /\ prev[x] = RingAt(s, h, k)
  BY <1>2
<1>4. /\ next' = [next EXCEPT ![RingAt(s, h, k)] = e, ![e] = RingAt(s, h, k + 1)]
      /\ prev' = [prev EXCEPT ![RingAt(s, h, k + 1)] = e, ![e] = RingAt(s, h, k)]
  BY <1>3, Zenon DEF list_add_before, AddLink
<1>5. Rings(next', prev', linked \cup {e}, [s EXCEPT ![h] = InsertAt(s[h], k + 1, e)])
  BY <1>1, <1>4, InsertRep
<1> QED
  BY <1>1, <1>3, <1>5

LEMMA DelStep ==
  ASSUME NEW s, Rings(next, prev, linked, s), NEW e \in Nodes, list_del(e) \/ list_del_init(e)
  PROVE  \E h \in Heads : \E k \in 1 .. Len(s[h]) :
           /\ e = s[h][k]
           /\ Rings(next', prev', linked', [s EXCEPT ![h] = RemoveAt(s[h], k)])
<1>1. e \in linked /\ linked' = linked \ {e}
  BY DEF list_del, list_del_init
<1>2. PICK h \in Heads : \E k \in 1 .. Len(s[h]) :
        e = s[h][k] /\ next[e] = RingAt(s, h, k + 1) /\ prev[e] = RingAt(s, h, k - 1)
  BY <1>1, NodePlace
<1>3. PICK k \in 1 .. Len(s[h]) :
        e = s[h][k] /\ next[e] = RingAt(s, h, k + 1) /\ prev[e] = RingAt(s, h, k - 1)
  BY <1>2
<1>4. /\ next \in [Entries -> Entries] /\ prev \in [Entries -> Entries]
      /\ next[e] \in Entries /\ prev[e] \in Entries /\ e \in Entries
  <2>1. next \in [Entries -> Entries] /\ prev \in [Entries -> Entries] /\ e \in Entries
    BY DEF Rings, Entries
  <2> QED
    BY <2>1
<1>5. /\ next' \in [Entries -> Entries] /\ prev' \in [Entries -> Entries]
      /\ \A x \in Entries : x # e =>
           /\ next'[x] = IF x = prev[e] THEN next[e] ELSE next[x]
           /\ prev'[x] = IF x = next[e] THEN prev[e] ELSE prev[x]
  <2>1. CASE list_del(e)
    BY <1>4, <2>1 DEF list_del, DelLink
  <2>2. CASE list_del_init(e)
    BY <1>4, <2>2 DEF list_del_init
  <2> QED
    BY <2>1, <2>2
<1>6. Rings(next', prev', linked \ {e}, [s EXCEPT ![h] = RemoveAt(s[h], k)])
  BY <1>3, <1>5, DeleteRep
<1> QED
  BY <1>1, <1>3, <1>6

LEMMA InitStep ==
  ASSUME NEW s, Rings(next, prev, linked, s), NEW e \in Nodes, list_init(e)
  PROVE  Rings(next', prev', linked', s)
  BY InitRep DEF list_init

-----------------------------------------------------------------------------
\* In the beginning every list is empty.
LEMMA InitRings == Init => Rings(next, prev, linked, [h \in Heads |-> <<>>])
<1> SUFFICES ASSUME Init PROVE Rings(next, prev, linked, [h \in Heads |-> <<>>])
  OBVIOUS
<1> DEFINE s == [h \in Heads |-> <<>>]
<1>1. s \in [Heads -> Seq(Nodes)] /\ \A h \in Heads : s[h] = <<>> /\ Len(s[h]) = 0
  OBVIOUS
<1> HIDE DEF s
<1>2. \A h \in Heads : \A k : RingAt(s, h, k) = h
  BY <1>1 DEF RingAt
<1>3. next \in [Entries -> Entries] /\ prev \in [Entries -> Entries]
  BY DEF Init
<1>4. \A h \in Heads : next[h] = h /\ prev[h] = h
  BY DEF Init, Entries
<1>5. \A x : x \in linked <=> x \in Heads \/ \E h \in Heads : \E k \in 1 .. Len(s[h]) : x = s[h][k]
  BY <1>1 DEF Init
<1>6. \A g, h \in Heads : \A u \in 1 .. Len(s[g]), j \in 1 .. Len(s[h]) :
        s[g][u] = s[h][j] => g = h /\ u = j
  BY <1>1
<1>7. Rings(next, prev, linked, s)
  BY <1>1, <1>2, <1>3, <1>4, <1>5, <1>6 DEF Rings
<1> QED
  BY <1>7 DEF s

\* Every step preserves FreshInv: a deleted entry keeps a link to another
\* entry, and no later step touches the links of an entry outside the lists
\* but list_init.
LEMMA FreshStep ==
  ASSUME NEW s, Rings(next, prev, linked, s), FreshInv, [Next]_vars
  PROVE  FreshInv'
<1> USE DEF FreshInv
<1>1. next \in [Entries -> Entries] /\ \A x \in Nodes : x \in Entries
  BY DEF Rings, Entries
<1>2. ASSUME NEW x, NEW e \in Nodes, list_add_after(x, e) \/ list_add_before(x, e) PROVE FreshInv'
  <2>0. PICK p \in linked : \E n : next' = [next EXCEPT ![p] = e, ![e] = n]
    <3>1. CASE list_add_after(x, e)
      BY <3>1 DEF list_add_after, AddLink
    <3>2. CASE list_add_before(x, e)
      BY <3>2, Place DEF list_add_before, AddLink
    <3> QED
      BY <1>2, <3>1, <3>2
  <2>1. PICK n : next' = [next EXCEPT ![p] = e, ![e] = n]
    BY <2>0
  <2>2. linked' = linked \cup {e} /\ fresh' = fresh \ {e} /\ e \notin linked
    BY <1>2 DEF list_add_after, list_add_before
  <2>3. \A y \in Nodes : y # e /\ y \notin linked => next'[y] = next[y]
    BY <1>1, <2>1
  <2> QED
    BY <2>2, <2>3
<1>3. ASSUME NEW e \in Nodes, list_del(e) PROVE FreshInv'
  <2>1. e \in linked /\ linked' = linked \ {e} /\ fresh' = fresh /\ next' = [next EXCEPT ![prev[e]] = next[e]]
    BY <1>3 DEF list_del, DelLink
  <2>2. prev[e] \in linked /\ prev[e] # e /\ next[e] # e
    BY <2>1, Place, NodePlace
  <2>3. \A y \in Nodes : y = e \/ y \notin linked => next'[y] = next[y]
    BY <1>1, <2>1, <2>2
  <2> QED
    BY <2>1, <2>2, <2>3
<1>4. ASSUME NEW e \in Nodes, list_del_init(e) PROVE FreshInv'
  <2>1. /\ e \in linked /\ linked' = linked \ {e} /\ fresh' = fresh \cup {e}
        /\ next' = [next EXCEPT ![prev[e]] = next[e], ![e] = e]
    BY <1>4 DEF list_del_init
  <2>2. prev[e] \in linked
    BY <2>1, Place
  <2>3. next'[e] = e /\ \A y \in Nodes : y # e /\ y \notin linked => next'[y] = next[y]
    BY <1>1, <2>1, <2>2
  <2> QED
    BY <2>1, <2>2, <2>3
<1>5. ASSUME NEW e \in Nodes, list_init(e) PROVE FreshInv'
  <2>1. /\ e \notin linked /\ linked' = linked /\ fresh' = fresh \cup {e}
        /\ next' = [next EXCEPT ![e] = e]
    BY <1>5 DEF list_init
  <2>2. next'[e] = e /\ \A y \in Nodes : y # e => next'[y] = next[y]
    BY <1>1, <2>1
  <2> QED
    BY <2>1, <2>2
<1>6. CASE UNCHANGED vars
  BY <1>6 DEF vars
<1> QED
  BY <1>2, <1>3, <1>4, <1>5, <1>6 DEF Next

\* The links of list.h are always rings, and list_empty of an entry outside
\* them tells who touched it last.
THEOREM ListsInvariant == Spec => [](RingInv /\ FreshInv)
<1>1. Init => RingInv /\ FreshInv
  <2> SUFFICES ASSUME Init PROVE RingInv /\ FreshInv
    OBVIOUS
  <2>1. RingInv
    BY InitRings DEF RingInv
  <2>2. FreshInv
    BY ListConstants DEF Init, FreshInv, Entries
  <2> QED
    BY <2>1, <2>2
<1>2. RingInv /\ FreshInv /\ [Next]_vars => (RingInv /\ FreshInv)'
  <2> SUFFICES ASSUME RingInv, FreshInv, [Next]_vars PROVE (RingInv /\ FreshInv)'
    OBVIOUS
  <2>1. PICK s : Rings(next, prev, linked, s)
    BY DEF RingInv
  <2>2. FreshInv'
    BY <2>1, FreshStep
  <2>3. \E t : Rings(next', prev', linked', t)
    <3>1. ASSUME NEW x \in Entries, NEW e \in Nodes, list_add_after(x, e) \/ list_add_before(x, e)
          PROVE  \E t : Rings(next', prev', linked', t)
      BY <2>1, <3>1, AfterStep, BeforeStep
    <3>2. ASSUME NEW e \in Nodes, list_del(e) \/ list_del_init(e)
          PROVE  \E t : Rings(next', prev', linked', t)
      BY <2>1, <3>2, DelStep
    <3>3. ASSUME NEW e \in Nodes, list_init(e)
          PROVE  \E t : Rings(next', prev', linked', t)
      BY <2>1, <3>3, InitStep
    <3>4. CASE UNCHANGED vars
      BY <2>1, <3>4 DEF vars
    <3> QED
      BY <3>1, <3>2, <3>3, <3>4 DEF Next
  <2> QED
    BY <2>2, <2>3 DEF RingInv
<1> QED
  BY <1>1, <1>2, PTL DEF Spec

\* list_empty holds for an entry outside all lists exactly after list_init or
\* list_del_init, not after list_del: see EmptyMeansInit in Lists.
THEOREM FreshIsEmpty == Spec => []EmptyMeansInit
<1>1. FreshInv => EmptyMeansInit
  BY DEF FreshInv, EmptyMeansInit, list_empty
<1> QED
  BY <1>1, ListsInvariant, PTL

\* Rings are read the same both ways.
LEMMA RingsMirror ==
  ASSUME NEW s, Rings(next, prev, linked, s)
  PROVE  Mirror
<1>1. ASSUME NEW h \in Heads
      PROVE  /\ Walk(next, h) = s[h] /\ Len(s[h]) \in Nat
             /\ Len(Walk(prev, h)) = Len(s[h])
             /\ \A k \in 1 .. Len(s[h]) : Walk(prev, h)[k] = s[h][Len(s[h]) + 1 - k]
  <2>1. s[h] \in Seq(Nodes) /\ Len(s[h]) \in Nat
    BY DEF Rings
  <2>2. Walk(next, h) = s[h] /\ Walk(prev, h) = [k \in 1 .. Len(s[h]) |-> s[h][Len(s[h]) + 1 - k]]
    BY WalkIs
  <2>3. Len([k \in 1 .. Len(s[h]) |-> s[h][Len(s[h]) + 1 - k]]) = Len(s[h])
    BY <2>1
  <2> QED
    BY <2>1, <2>2, <2>3
<1>2. linked = Heads \cup UNION {{Walk(next, h)[k] : k \in 1 .. Len(Walk(next, h))} : h \in Heads}
  <2>1. \A x : x \in linked <=> x \in Heads \/ \E h \in Heads : \E k \in 1 .. Len(s[h]) : x = s[h][k]
    BY DEF Rings
  <2> QED
    BY <1>1, <2>1
<1> QED
  BY <1>1, <1>2 DEF Mirror

\* list_next and list_prev never disagree, and the lists hold exactly what
\* was put in: see Mirror in Lists.
THEOREM BothWaysAgree == Spec => []Mirror
<1>1. RingInv => Mirror
  BY RingsMirror DEF RingInv
<1> QED
  BY <1>1, ListsInvariant, PTL

\* The refinement mapping gives the sequences of the invariant.
LEMMA SeqsAre ==
  ASSUME NEW nx, NEW pv, NEW lk, NEW s, Rings(nx, pv, lk, s)
  PROVE  [h \in Heads |-> Walk(nx, h)] = s
<1>1. s \in [Heads -> Seq(Nodes)]
  BY DEF Rings
<1>2. \A h \in Heads : Walk(nx, h) = s[h]
  BY WalkIs
<1> QED
  BY <1>1, <1>2

\* ListSpec's operators on sequences are those of this module.
LEMMA SameOperators ==
  /\ \A q, u, e : Abstract!InsertAt(q, u, e) = InsertAt(q, u, e)
  /\ \A q, u : Abstract!RemoveAt(q, u) = RemoveAt(q, u)
  /\ \A q : Abstract!ToSet(q) = ToSet(q)
  BY Zenon DEF InsertAt, Abstract!InsertAt, RemoveAt, Abstract!RemoveAt, ToSet, Abstract!ToSet

(***************************************************************************)
(* The functions of list.h implement ListSpec: under the mapping that      *)
(* reads each ring along next, list_add_after, list_add_before, list_del   *)
(* and list_del_init are its steps on sequences and list_init changes      *)
(* nothing. See ImplementsLists in Lists.                                  *)
(***************************************************************************)
THEOREM RingsAreLists == Spec => ImplementsLists
<1>1. Init => Abstract!Init
  <2> SUFFICES ASSUME Init PROVE Abstract!Init
    OBVIOUS
  <2>1. [h \in Heads |-> Walk(next, h)] = [h \in Heads |-> <<>>]
    BY InitRings, SeqsAre
  <2> QED
    BY <2>1, Zenon DEF Init, Abstract!Init
<1>2. RingInv /\ [Next]_vars => [Abstract!Next]_(Abstract!vars)
  <2> SUFFICES ASSUME RingInv, [Next]_vars PROVE Abstract!Next \/ UNCHANGED Abstract!vars
    OBVIOUS
  <2>1. PICK s : Rings(next, prev, linked, s)
    BY DEF RingInv
  <2>2. [h \in Heads |-> Walk(next, h)] = s
    BY <2>1, SeqsAre
  <2>3. ASSUME NEW t, Rings(next', prev', linked', t) PROVE [h \in Heads |-> Walk(next, h)]' = t
    <3>1. [h \in Heads |-> Walk(next', h)] = t
      BY <2>3, SeqsAre
    <3> QED
      BY <3>1, Zenon
  <2>4. ASSUME NEW e \in Nodes, e \notin linked PROVE e \in Nodes \ Abstract!Listed
    <3>1. \A h \in Heads : \A k \in 1 .. Len(s[h]) : s[h][k] # e
      BY <2>1, <2>4 DEF Rings
    <3>2. e \notin UNION {ToSet(s[h]) : h \in Heads}
      BY <2>1, <3>1 DEF ToSet, Rings
    <3> QED
      BY <2>2, <3>2, SameOperators, Zenon DEF Abstract!Listed
  <2>5. ASSUME NEW x \in Entries, NEW e \in Nodes, list_add_after(x, e) PROVE Abstract!AddAfter(x, e)
    <3>1. PICK h \in Heads : \E k \in 0 .. Len(s[h]) :
            /\ x = RingAt(s, h, k)
            /\ Rings(next', prev', linked', [s EXCEPT ![h] = InsertAt(s[h], k + 1, e)])
      BY <2>1, <2>5, AfterStep
    <3>2. PICK k \in 0 .. Len(s[h]) :
            /\ x = RingAt(s, h, k)
            /\ Rings(next', prev', linked', [s EXCEPT ![h] = InsertAt(s[h], k + 1, e)])
      BY <3>1
    <3>3. IF k = 0 THEN x = h ELSE s[h][k] = x
      BY <3>2 DEF RingAt
    <3>4. [g \in Heads |-> Walk(next, g)]' = [s EXCEPT ![h] = InsertAt(s[h], k + 1, e)]
      BY <2>3, <3>2
    <3>5. e \in Nodes \ Abstract!Listed /\ op' = <<"after", x, e>>
      BY <2>4, <2>5 DEF list_add_after
    <3> QED
      BY <2>2, <3>3, <3>4, <3>5, SameOperators, Zenon DEF Abstract!AddAfter, Abstract!IsAt, Abstract!Put
  <2>6. ASSUME NEW x \in Entries, NEW e \in Nodes, list_add_before(x, e) PROVE Abstract!AddBefore(x, e)
    <3>1. PICK h \in Heads : \E k \in 0 .. Len(s[h]) :
            /\ x = RingAt(s, h, k + 1)
            /\ Rings(next', prev', linked', [s EXCEPT ![h] = InsertAt(s[h], k + 1, e)])
      BY <2>1, <2>6, BeforeStep
    <3>2. PICK k \in 0 .. Len(s[h]) :
            /\ x = RingAt(s, h, k + 1)
            /\ Rings(next', prev', linked', [s EXCEPT ![h] = InsertAt(s[h], k + 1, e)])
      BY <3>1
    <3>3. [g \in Heads |-> Walk(next, g)]' = [s EXCEPT ![h] = InsertAt(s[h], k + 1, e)]
      BY <2>3, <3>2
    <3>4. e \in Nodes \ Abstract!Listed /\ op' = <<"before", x, e>>
      BY <2>4, <2>6 DEF list_add_before
    <3>5. Len(s[h]) \in Nat
      BY <2>1 DEF Rings
    <3>6. CASE k = Len(s[h])
      <4>1. x = h
        BY <3>2, <3>5, <3>6 DEF RingAt
      <4> QED
        BY <2>2, <3>3, <3>4, <3>6, <4>1, SameOperators, Zenon DEF Abstract!AddBefore, Abstract!Put
    <3>7. CASE k # Len(s[h])
      <4>1. k + 1 \in 1 .. Len(s[h]) /\ k + 1 # 0
        BY <3>5, <3>7
      <4>2. IF k + 1 = 0 THEN x = h ELSE s[h][k + 1] = x
        BY <3>2, <4>1 DEF RingAt
      <4> QED
        BY <2>2, <3>3, <3>4, <4>1, <4>2, SameOperators, Zenon DEF Abstract!AddBefore, Abstract!IsAt, Abstract!Put
    <3> QED
      BY <3>6, <3>7
  <2>7. ASSUME NEW e \in Nodes, list_del(e) \/ list_del_init(e) PROVE Abstract!Delete(e)
    <3>1. PICK h \in Heads : \E k \in 1 .. Len(s[h]) :
            /\ e = s[h][k]
            /\ Rings(next', prev', linked', [s EXCEPT ![h] = RemoveAt(s[h], k)])
      BY <2>1, <2>7, DelStep
    <3>2. PICK k \in 1 .. Len(s[h]) :
            /\ e = s[h][k]
            /\ Rings(next', prev', linked', [s EXCEPT ![h] = RemoveAt(s[h], k)])
      BY <3>1
    <3>3. IF k = 0 THEN e = h ELSE s[h][k] = e
      BY <3>2
    <3>4. [g \in Heads |-> Walk(next, g)]' = [s EXCEPT ![h] = RemoveAt(s[h], k)]
      BY <2>3, <3>2
    <3>5. op' = <<"del", e>>
      BY <2>7 DEF list_del, list_del_init
    <3> QED
      BY <2>2, <3>3, <3>4, <3>5, SameOperators, Zenon DEF Abstract!Delete, Abstract!IsAt
  <2>8. ASSUME NEW e \in Nodes, list_init(e) PROVE UNCHANGED Abstract!vars
    <3>1. Rings(next', prev', linked', s) /\ op' = op
      BY <2>1, <2>8, InitStep DEF list_init
    <3>2. [g \in Heads |-> Walk(next, g)]' = s
      BY <2>3, <3>1
    <3> QED
      BY <2>2, <3>1, <3>2, Zenon DEF Abstract!vars
  <2>9. CASE UNCHANGED vars
    <3>1. Rings(next', prev', linked', s) /\ op' = op
      BY <2>1, <2>9 DEF vars
    <3>2. [g \in Heads |-> Walk(next, g)]' = s
      BY <2>3, <3>1
    <3> QED
      BY <2>2, <3>1, <3>2, Zenon DEF Abstract!vars
  <2> QED
    BY <2>5, <2>6, <2>7, <2>8, <2>9, Zenon DEF Next, Abstract!Next, Entries
<1> QED
  BY <1>1, <1>2, ListsInvariant, PTL DEF Spec, ImplementsLists, Abstract!Spec

-----------------------------------------------------------------------------
(***************************************************************************)
(* AtomicBits, for every number of words and of bits in a word. The        *)
(* invariant adds to OperationsAtomic what an actor has in its registers   *)
(* between two instructions.                                               *)
(***************************************************************************)

\* Where an actor can be in an operation.
Labels == {"idle", "mask", "shift", "return"} \cup Functions

\* The types of the array and of the actors' registers.
BitsType ==
  /\ addr \in [0 .. NWORDS - 1 -> Long]
  /\ cpu \in [Actors -> [pc : Labels, nr : Bits, __res : Long, ret : BOOLEAN]]
  /\ was \in [Actors -> BOOLEAN]

\* test_bit gets a bit of the first word, and the word that an actor has read
\* still holds, at its bit, what its operation found, although memory may
\* have changed since.
FoundInv ==
  \A a \in Actors :
    /\ cpu[a].pc \in {"test_bit", "shift"} => cpu[a].nr < BITS_PER_LONG
    /\ cpu[a].pc \in {"mask", "shift"} => (was[a] <=> cpu[a].nr % BITS_PER_LONG \in cpu[a].__res)

BitsInv == BitsType /\ FoundInv /\ OperationsAtomic

\* BIT_WORD and BIT_MASK take a bit number apart into a word of the array and
\* a bit of that word.
LEMMA WordAndBit ==
  ASSUME NEW nr \in Bits
  PROVE  /\ BIT_WORD(nr) \in 0 .. NWORDS - 1 /\ nr % BITS_PER_LONG \in 0 .. BITS_PER_LONG - 1
         /\ nr = BITS_PER_LONG * BIT_WORD(nr) + (nr % BITS_PER_LONG)
         /\ nr < BITS_PER_LONG => nr % BITS_PER_LONG = nr /\ BIT_WORD(nr) = 0
<1> USE BitsConstants
<1> DEFINE b == BITS_PER_LONG
           w == BIT_WORD(nr)
           m == nr % BITS_PER_LONG
<1>1. b \in Nat \ {0} /\ NWORDS \in Nat \ {0} /\ nr \in Nat /\ nr < NWORDS * b
  BY DEF Bits
<1>2. w \in Int /\ m \in 0 .. b - 1 /\ nr = b * w + m
  BY <1>1 DEF BIT_WORD
<1> HIDE DEF b, w, m
<1>3. w >= 0
  BY <1>1, <1>2
<1>4. w < NWORDS
  BY <1>1, <1>2
<1>5. ASSUME nr < b PROVE w = 0 /\ m = nr
  BY <1>1, <1>2, <1>3, <1>5
<1>6. w \in 0 .. NWORDS - 1 /\ m \in 0 .. b - 1 /\ nr = b * w + m /\ (nr < b => m = nr /\ w = 0)
  BY <1>1, <1>2, <1>3, <1>4, <1>5
<1> QED
  BY <1>6 DEF b, w, m

\* Two bit numbers that agree in both parts are the same.
LEMMA SameBit ==
  ASSUME NEW k \in Bits, NEW nr \in Bits, BIT_WORD(k) = BIT_WORD(nr),
         k % BITS_PER_LONG = nr % BITS_PER_LONG
  PROVE  k = nr
<1>1. k = BITS_PER_LONG * BIT_WORD(k) + (k % BITS_PER_LONG)
  BY WordAndBit
<1>2. nr = BITS_PER_LONG * BIT_WORD(nr) + (nr % BITS_PER_LONG)
  BY WordAndBit
<1>3. BITS_PER_LONG * BIT_WORD(k) + (k % BITS_PER_LONG) = BITS_PER_LONG * BIT_WORD(nr) + (nr % BITS_PER_LONG)
  BY Zenon
<1> QED
  BY ONLY <1>1, <1>2, <1>3, Zenon

\* An operation on bit nr leaves all bits but nr
LEMMA OpChanges ==
  ASSUME addr \in [0 .. NWORDS - 1 -> Long], NEW nr \in Bits, NEW after,
         NEW word \in Long,
         addr' = [addr EXCEPT ![BIT_WORD(nr)] = word],
         \A j \in 0 .. BITS_PER_LONG - 1 : j # nr % BITS_PER_LONG => (j \in word <=> j \in addr[BIT_WORD(nr)]),
         \A k \in Bits : k # nr => (k \in after <=> k \in bits),
         nr % BITS_PER_LONG \in word <=> nr \in after,
         \A k \in Bits : k \in bits <=> IsOne(k),
         bits' = after
  PROVE  /\ addr' \in [0 .. NWORDS - 1 -> Long]
         /\ \A k \in Bits : k \in bits' <=> IsOne(k)'
<1>1. ASSUME NEW k \in Bits PROVE k \in bits' <=> k % BITS_PER_LONG \in addr'[BIT_WORD(k)]
  <2>1. CASE k = nr
    BY <2>1, WordAndBit
  <2>2. CASE k # nr /\ BIT_WORD(k) = BIT_WORD(nr)
    <3>1. k % BITS_PER_LONG # nr % BITS_PER_LONG /\ k % BITS_PER_LONG \in 0 .. BITS_PER_LONG - 1
      BY <2>2, SameBit, WordAndBit
    <3> QED
      BY <2>2, <3>1, WordAndBit DEF IsOne, BIT_WORD
  <2>3. CASE BIT_WORD(k) # BIT_WORD(nr)
    <3>1. addr'[BIT_WORD(k)] = addr[BIT_WORD(k)]
      BY <2>3, WordAndBit
    <3> QED
      BY <2>3, <3>1 DEF IsOne, BIT_WORD
  <2> QED
    BY <2>1, <2>2, <2>3
<1> QED
  BY <1>1, WordAndBit DEF IsOne, BIT_WORD

\* What an AMO stores in the word of bit nr.
LEMMA AmoWord ==
  ASSUME BitsType, NEW nr \in Bits, NEW amo \in {"or", "and", "xor"}, NEW operand \in Long
  PROVE  __AMO(amo, addr[BIT_WORD(nr)], operand) \in Long
<1>1. addr[BIT_WORD(nr)] \in Long
  BY WordAndBit DEF BitsType
<1> QED
  BY <1>1 DEF __AMO, Long

\* The three AMOs and the bits they leave.
LEMMA AmoBits ==
  ASSUME BitsType, OperationsAtomic, NEW nr \in Bits, NEW amo, NEW operand \in Long, NEW after,
         addr' = [addr EXCEPT ![BIT_WORD(nr)] = __AMO(amo, @, operand)],
         bits' = after,
         \/ amo = "or" /\ operand = __NOP(BIT_MASK(nr)) /\ after = bits \cup {nr}
         \/ amo = "and" /\ operand = __NOT(BIT_MASK(nr)) /\ after = bits \ {nr}
         \/ /\ amo = "xor" /\ operand = __NOP(BIT_MASK(nr))
            /\ after = IF nr \in bits THEN bits \ {nr} ELSE bits \cup {nr}
  PROVE  /\ addr' \in [0 .. NWORDS - 1 -> Long]
         /\ \A k \in Bits : k \in bits' <=> IsOne(k)'
<1> DEFINE word == __AMO(amo, addr[BIT_WORD(nr)], operand)
           old  == addr[BIT_WORD(nr)]
<1>1. word \in Long
  BY AmoWord
<1>2. BIT_WORD(nr) \in 0 .. NWORDS - 1 /\ nr % BITS_PER_LONG \in 0 .. BITS_PER_LONG - 1
  BY WordAndBit
<1>3. old \in Long
  BY <1>2 DEF BitsType
<1>4. nr \in bits <=> nr % BITS_PER_LONG \in old
  BY DEF OperationsAtomic, IsOne, BIT_WORD
<1>5. addr' = [addr EXCEPT ![BIT_WORD(nr)] = word]
  OBVIOUS
<1>6. \A j \in 0 .. BITS_PER_LONG - 1 : j # nr % BITS_PER_LONG => (j \in word <=> j \in old)
  BY DEF __AMO, __NOP, __NOT, BIT_MASK
<1>7. nr % BITS_PER_LONG \in word <=> nr \in after
  BY <1>2, <1>4 DEF __AMO, __NOP, __NOT, BIT_MASK
<1>8. \A k \in Bits : k # nr => (k \in after <=> k \in bits)
  OBVIOUS
<1>9. addr \in [0 .. NWORDS - 1 -> Long] /\ (\A k \in Bits : k \in bits <=> IsOne(k))
  BY DEF BitsType, OperationsAtomic
<1> HIDE DEF word, old
<1> QED
  BY <1>1, <1>5, <1>6, <1>7, <1>8, <1>9, OpChanges DEF old

\* The operands of the AMOs are words.
LEMMA Masks ==
  ASSUME NEW nr \in Bits
  PROVE  __NOP(BIT_MASK(nr)) \in Long /\ __NOT(BIT_MASK(nr)) \in Long
BY WordAndBit DEF __NOP, __NOT, BIT_MASK, Long

\* The history starts with the bits of the array.
LEMMA BitsInitially == BitsInit => BitsInv
<1> SUFFICES ASSUME BitsInit PROVE BitsInv
  OBVIOUS
<1>1. 0 \in Bits
  BY BitsConstants DEF Bits
<1>2. Idle \in [pc : Labels, nr : Bits, __res : Long, ret : BOOLEAN]
  BY <1>1 DEF Idle, Labels, Long
<1>3. BitsType
  BY <1>2 DEF BitsType, BitsInit
<1>4. \A a \in Actors : cpu[a].pc = "idle"
  BY DEF BitsInit, Idle
<1> QED
  BY <1>3, <1>4 DEF BitsInv, FoundInv, OperationsAtomic, BitsInit

\* No step of thread or handler disturbs the invariant: an operation of the
\* handler between two instructions of the thread changes memory and history
\* alike, and the thread's result was fixed by its AMO.
LEMMA BitsStep == BitsInv /\ [BitsNext]_bits_vars => BitsInv'
<1> SUFFICES ASSUME BitsInv, [BitsNext]_bits_vars PROVE BitsInv'
  OBVIOUS
<1> DEFINE Cpu == [pc : Labels, nr : Bits, __res : Long, ret : BOOLEAN]
<1>1. BitsType /\ FoundInv /\ OperationsAtomic
  BY DEF BitsInv
<1>2. 0 \in Bits
  BY BitsConstants DEF Bits
<1>3. Idle \in Cpu /\ Idle.pc = "idle"
  BY <1>2 DEF Idle, Labels, Long
<1>4. CASE UNCHANGED bits_vars
  BY <1>1, <1>4 DEF bits_vars, BitsInv, BitsType, FoundInv, OperationsAtomic, IsOne
<1>5. ASSUME NEW a \in Actors, NEW f \in Functions, NEW nr \in Bits, CallBitOp(a, f, nr)
      PROVE  BitsInv'
  <2>1. cpu' \in [Actors -> Cpu]
    BY <1>1, <1>3, <1>5 DEF CallBitOp, BitsType, Labels, Idle
  <2>2. \A b \in Actors : IF b = a THEN cpu'[b].pc = f /\ cpu'[b].nr = nr ELSE cpu'[b] = cpu[b]
    BY <1>1, <1>5 DEF CallBitOp, BitsType, Idle
  <2>3. f \notin {"return", "mask", "shift"}
    BY DEF Functions
  <2>4. UNCHANGED <<addr, bits, was>> /\ (f = "test_bit" => nr < BITS_PER_LONG)
    BY <1>5 DEF CallBitOp
  <2> QED
    BY <1>1, <2>1, <2>2, <2>3, <2>4 DEF BitsInv, BitsType, FoundInv, OperationsAtomic, IsOne
<1>6. ASSUME NEW a \in Actors, set_bit(a) \/ clear_bit(a) \/ change_bit(a)
      PROVE  BitsInv'
  <2>1. cpu[a].nr \in Bits
    BY <1>1 DEF BitsType
  <2>2. PICK amo, operand, after :
          /\ __op_bit(a, amo, operand) /\ Took(a, after)
          /\ \/ amo = "or" /\ operand = __NOP(BIT_MASK(cpu[a].nr)) /\ after = bits \cup {cpu[a].nr}
             \/ amo = "and" /\ operand = __NOT(BIT_MASK(cpu[a].nr)) /\ after = bits \ {cpu[a].nr}
             \/ /\ amo = "xor" /\ operand = __NOP(BIT_MASK(cpu[a].nr))
                /\ after = IF cpu[a].nr \in bits THEN bits \ {cpu[a].nr} ELSE bits \cup {cpu[a].nr}
    BY <1>6 DEF set_bit, clear_bit, change_bit
  <2>3. operand \in Long
    BY <2>1, <2>2, Masks
  <2>4. addr' = [addr EXCEPT ![BIT_WORD(cpu[a].nr)] = __AMO(amo, @, operand)] /\ bits' = after
    BY <2>2 DEF __op_bit, Took
  <2>5. /\ addr' \in [0 .. NWORDS - 1 -> Long]
        /\ \A k \in Bits : k \in bits' <=> IsOne(k)'
    BY <1>1, <2>1, <2>2, <2>3, <2>4, AmoBits
  <2>6. cpu' = [cpu EXCEPT ![a] = Idle] /\ was' = [was EXCEPT ![a] = cpu[a].nr \in bits]
    BY <2>2 DEF __op_bit, Took
  <2>7. cpu' \in [Actors -> Cpu] /\ was' \in [Actors -> BOOLEAN]
    BY <1>1, <1>3, <2>6 DEF BitsType
  <2>8. \A b \in Actors : IF b = a THEN cpu'[b].pc = "idle" ELSE cpu'[b] = cpu[b] /\ was'[b] = was[b]
    BY <1>1, <1>3, <2>6 DEF BitsType
  <2> QED
    BY <1>1, <2>5, <2>7, <2>8 DEF BitsInv, BitsType, FoundInv, OperationsAtomic
<1>7. ASSUME NEW a \in Actors, test_and_set_bit(a) \/ test_and_clear_bit(a)
      PROVE  BitsInv'
  <2>1. cpu[a].nr \in Bits
    BY <1>1 DEF BitsType
  <2>2. PICK amo, operand, after :
          /\ __test_and_op_bit(a, amo, operand) /\ Took(a, after)
          /\ \/ amo = "or" /\ operand = __NOP(BIT_MASK(cpu[a].nr)) /\ after = bits \cup {cpu[a].nr}
             \/ amo = "and" /\ operand = __NOT(BIT_MASK(cpu[a].nr)) /\ after = bits \ {cpu[a].nr}
    BY <1>7 DEF test_and_set_bit, test_and_clear_bit
  <2>3. operand \in Long
    BY <2>1, <2>2, Masks
  <2>4. addr' = [addr EXCEPT ![BIT_WORD(cpu[a].nr)] = __AMO(amo, @, operand)] /\ bits' = after
    BY <2>2 DEF __test_and_op_bit, Took
  <2>5. /\ addr' \in [0 .. NWORDS - 1 -> Long]
        /\ \A k \in Bits : k \in bits' <=> IsOne(k)'
    BY <1>1, <2>1, <2>2, <2>3, <2>4, AmoBits
  <2>6. /\ cpu' = [cpu EXCEPT ![a].__res = addr[BIT_WORD(cpu[a].nr)], ![a].pc = "mask"]
        /\ was' = [was EXCEPT ![a] = cpu[a].nr \in bits]
    BY <2>2 DEF __test_and_op_bit, Took
  <2>7. addr[BIT_WORD(cpu[a].nr)] \in Long
    BY <1>1, <2>1, WordAndBit DEF BitsType
  <2>8. cpu' \in [Actors -> Cpu] /\ was' \in [Actors -> BOOLEAN]
    <3>1. was' \in [Actors -> BOOLEAN]
      <4> DEFINE h == cpu[a].nr \in bits
      <4>1. h \in BOOLEAN /\ was' = [was EXCEPT ![a] = h]
        BY <2>6
      <4> HIDE DEF h
      <4> QED
        BY <1>1, <4>1 DEF BitsType
    <3> QED
      BY <1>1, <2>6, <2>7, <3>1 DEF BitsType, Labels
  <2>9. \A b \in Actors : IF b = a
                          THEN /\ cpu'[b].pc = "mask" /\ cpu'[b].nr = cpu[a].nr
                               /\ cpu'[b].__res = addr[BIT_WORD(cpu[a].nr)]
                               /\ was'[b] = (cpu[a].nr \in bits)
                          ELSE cpu'[b] = cpu[b] /\ was'[b] = was[b]
    BY <1>1, <2>6 DEF BitsType
  <2>10. cpu[a].nr \in bits <=> cpu[a].nr % BITS_PER_LONG \in addr[BIT_WORD(cpu[a].nr)]
    BY <1>1, <2>1 DEF OperationsAtomic, IsOne, BIT_WORD
  <2> QED
    BY <1>1, <2>5, <2>8, <2>9, <2>10 DEF BitsInv, BitsType, FoundInv, OperationsAtomic
<1>8. ASSUME NEW a \in Actors, test_bit(a)
      PROVE  BitsInv'
  <2>1. cpu[a].nr \in Bits /\ cpu[a].__res \in Long
    BY <1>1 DEF BitsType
  <2>2. CASE cpu[a].pc = "test_bit"
    <3>1. /\ cpu' = [cpu EXCEPT ![a].__res = addr[0], ![a].pc = "shift"]
          /\ was' = [was EXCEPT ![a] = cpu[a].nr \in bits] /\ bits' = bits /\ addr' = addr
      BY <1>8, <2>2 DEF test_bit, Executes, Took
    <3>2. cpu[a].nr < BITS_PER_LONG /\ BIT_WORD(cpu[a].nr) = 0
      BY <1>1, <2>1, <2>2, WordAndBit DEF FoundInv
    <3>3. addr[0] \in Long
      BY <1>1, BitsConstants DEF BitsType
    <3>4. cpu' \in [Actors -> Cpu] /\ was' \in [Actors -> BOOLEAN]
      <4>1. was' \in [Actors -> BOOLEAN]
        <5> DEFINE h == cpu[a].nr \in bits
        <5>1. h \in BOOLEAN /\ was' = [was EXCEPT ![a] = h]
          BY <3>1
        <5> HIDE DEF h
        <5> QED
          BY <1>1, <5>1 DEF BitsType
      <4> QED
        BY <1>1, <3>1, <3>3, <4>1 DEF BitsType, Labels
    <3>5. \A b \in Actors : IF b = a
                            THEN /\ cpu'[b].pc = "shift" /\ cpu'[b].nr = cpu[a].nr
                                 /\ cpu'[b].__res = addr[0]
                                 /\ was'[b] = (cpu[a].nr \in bits)
                            ELSE cpu'[b] = cpu[b] /\ was'[b] = was[b]
      BY <1>1, <3>1 DEF BitsType
    <3>6. cpu[a].nr \in bits <=> cpu[a].nr % BITS_PER_LONG \in addr[0]
      BY <1>1, <2>1, <3>2 DEF OperationsAtomic, IsOne, BIT_WORD
    <3> QED
      BY <1>1, <3>1, <3>2, <3>4, <3>5, <3>6 DEF BitsInv, BitsType, FoundInv, OperationsAtomic, IsOne
  <2>3. CASE cpu[a].pc = "shift"
    <3> DEFINE r == 0 \in ShiftRight(cpu[a].__res, cpu[a].nr)
    <3>1. /\ cpu' = [cpu EXCEPT ![a].ret = r, ![a].pc = "return"]
          /\ UNCHANGED <<addr, bits, was>>
      BY <1>8, <2>3 DEF test_bit, Executes
    <3>2. cpu[a].nr % BITS_PER_LONG = cpu[a].nr
      BY <1>1, <2>1, <2>3, WordAndBit DEF FoundInv
    <3>3. r <=> cpu[a].nr \in cpu[a].__res
      <4>1. cpu[a].nr \in Int /\ \A j \in cpu[a].__res : j \in Int
        BY <2>1, BitsConstants DEF Bits, Long
      <4> QED
        BY <4>1 DEF ShiftRight
    <3>4. r = was[a]
      BY <1>1, <2>3, <3>2, <3>3 DEF FoundInv, BitsType
    <3> HIDE DEF r
    <3>5. r \in BOOLEAN
      BY DEF r
    <3>6. cpu' \in [Actors -> Cpu]
      BY <1>1, <3>1, <3>5 DEF BitsType, Labels
    <3>7. \A b \in Actors : IF b = a
                            THEN cpu'[b].pc = "return" /\ cpu'[b].ret = r
                            ELSE cpu'[b] = cpu[b]
      BY <1>1, <3>1 DEF BitsType
    <3> QED
      BY <1>1, <3>1, <3>4, <3>6, <3>7 DEF BitsInv, BitsType, FoundInv, OperationsAtomic, IsOne
  <2> QED
    BY <1>8, <2>2, <2>3 DEF test_bit, Executes
<1>9. ASSUME NEW a \in Actors, Mask(a)
      PROVE  BitsInv'
  <2> DEFINE r == cpu[a].__res \cap BIT_MASK(cpu[a].nr) # {}
  <2>1. /\ cpu' = [cpu EXCEPT ![a].ret = r, ![a].pc = "return"]
        /\ UNCHANGED <<addr, bits, was>> /\ cpu[a].pc = "mask"
    BY <1>9 DEF Mask, Executes
  <2>2. r = was[a]
    <3>1. r <=> cpu[a].nr % BITS_PER_LONG \in cpu[a].__res
      BY DEF BIT_MASK
    <3> QED
      BY <1>1, <2>1, <3>1 DEF FoundInv, BitsType
  <2> HIDE DEF r
  <2>3. r \in BOOLEAN
    BY DEF r
  <2>4. cpu' \in [Actors -> Cpu]
    BY <1>1, <2>1, <2>3 DEF BitsType, Labels
  <2>5. \A b \in Actors : IF b = a
                          THEN cpu'[b].pc = "return" /\ cpu'[b].ret = r
                          ELSE cpu'[b] = cpu[b]
    BY <1>1, <2>1 DEF BitsType
  <2> QED
    BY <1>1, <2>1, <2>2, <2>4, <2>5 DEF BitsInv, BitsType, FoundInv, OperationsAtomic, IsOne
<1>10. ASSUME NEW a \in Actors, Return(a)
       PROVE  BitsInv'
  <2>1. cpu' = [cpu EXCEPT ![a] = Idle] /\ UNCHANGED <<addr, bits, was>>
    BY <1>10 DEF Return
  <2>2. cpu' \in [Actors -> Cpu]
    BY <1>1, <1>3, <2>1 DEF BitsType
  <2>3. \A b \in Actors : IF b = a THEN cpu'[b].pc = "idle" ELSE cpu'[b] = cpu[b]
    BY <1>1, <1>3, <2>1 DEF BitsType
  <2> QED
    BY <1>1, <2>1, <2>2, <2>3 DEF BitsInv, BitsType, FoundInv, OperationsAtomic, IsOne
<1> QED
  BY <1>4, <1>5, <1>6, <1>7, <1>8, <1>9, <1>10 DEF BitsNext

(***************************************************************************)
(* The operations of libs/atomic.h are atomic for every number of words    *)
(* and every word size: however thread and trap handler interleave, no     *)
(* change is lost and none touches another bit or word, and each test      *)
(* returns the bit that its own operation found.                           *)
(***************************************************************************)
THEOREM BitOperationsAtomic == BitsSpec => []OperationsAtomic
<1>1. BitsInv => OperationsAtomic
  BY DEF BitsInv
<1> QED
  BY <1>1, BitsInitially, BitsStep, PTL DEF BitsSpec

-----------------------------------------------------------------------------
(***************************************************************************)
(* PrintFmt, for every word size, format length, argument and buffer size. *)
(* Two inductions carry it: printnum's recursion prints the digits of its  *)
(* number behind the padding that the width leaves, and strtol's loop over *)
(* these digits computes the number again. The invariant relates the       *)
(* output to the part of the format that was read until the first          *)
(* conversion, and to the last conversion afterwards.                      *)
(***************************************************************************)

\* The same with all smaller numbers as hypothesis.
LEMMA StrongInduct ==
  ASSUME NEW S, \A k \in Nat : (\A j \in 0 .. k - 1 : j \in S) => k \in S
  PROVE  Nat \subseteq S
<1> DEFINE T == Nat \ S
<1> SUFFICES ASSUME T # {} PROVE FALSE
  OBVIOUS
<1>1. PICK k \in T : \A j \in T : k <= j
  BY Least
<1>2. \A j \in 0 .. k - 1 : j \notin T
  BY <1>1
<1> QED
  BY <1>1, <1>2

-----------------------------------------------------------------------------
\* The characters. All of them are strings; the provers do not know it of literals.
Chr == STRING \cup {"%", "t", NUL, "-", "?", " ", "error", "message", "(", "n", "u", "l", ")",
               "x", "o", "p", "s", "*", ".", "#"}
              \cup {"0", "1", "2", "3", "4", "5", "6", "7", "8", "9", "a", "b", "c", "d", "e", "f"}

\* The entries of the digit table one by one, for the provers.
LEMMA DigitTable ==
  /\ DigitChar[1] = "0" /\ DigitChar[2] = "1" /\ DigitChar[3] = "2" /\ DigitChar[4] = "3"
  /\ DigitChar[5] = "4" /\ DigitChar[6] = "5" /\ DigitChar[7] = "6" /\ DigitChar[8] = "7"
  /\ DigitChar[9] = "8" /\ DigitChar[10] = "9" /\ DigitChar[11] = "a" /\ DigitChar[12] = "b"
  /\ DigitChar[13] = "c" /\ DigitChar[14] = "d" /\ DigitChar[15] = "e" /\ DigitChar[16] = "f"
BY DEF DigitChar

\* The indices of the table one by one.
LEMMA Sixteen ==
  ASSUME NEW d \in 1 .. 16
  PROVE  d = 1 \/ d = 2 \/ d = 3 \/ d = 4 \/ d = 5 \/ d = 6 \/ d = 7 \/ d = 8
         \/ d = 9 \/ d = 10 \/ d = 11 \/ d = 12 \/ d = 13 \/ d = 14 \/ d = 15 \/ d = 16
OBVIOUS

\* The digits are characters.
LEMMA DigitCharIs ==
  ASSUME NEW d \in 1 .. 16
  PROVE  DigitChar[d] \in Chr
<1>1. DigitChar[d] \in {"0", "1", "2", "3", "4", "5", "6", "7", "8", "9", "a", "b", "c", "d", "e", "f"}
  BY DigitTable, Sixteen
<1> QED
  BY <1>1 DEF Chr

\* Padding is a sequence of its length, and is empty for a width that is used
\* up.
LEMMA RepeatIs ==
  ASSUME NEW ch \in Chr, NEW k \in Int
  PROVE  /\ Repeat(ch, k) \in Seq(Chr)
         /\ Len(Repeat(ch, k)) = MaxOf(k, 0)
         /\ \A j \in 1 .. k : Repeat(ch, k)[j] = ch
<1> DEFINE r == Repeat(ch, k)
<1>1. r \in [1 .. k -> Chr] /\ \A j \in 1 .. k : r[j] = ch
  BY DEF Repeat
<1> HIDE DEF r
<1>2. ASSUME k >= 0 PROVE r \in Seq(Chr) /\ Len(r) = MaxOf(k, 0)
  <2>1. k \in Nat
    BY <1>2
  <2>2. r \in Seq(Chr)
    BY <1>1, <2>1
  <2>3. Len(r) = k
    BY <1>1, <2>1, <2>2
  <2> QED
    BY <1>2, <2>2, <2>3 DEF MaxOf
<1>3. ASSUME k < 0 PROVE r \in Seq(Chr) /\ Len(r) = MaxOf(k, 0)
  <2>1. 1 .. k = {} /\ 1 .. 0 = {}
    BY <1>3
  <2>2. r \in [1 .. 0 -> Chr]
    BY <1>1, <2>1
  <2>3. r \in Seq(Chr) /\ Len(r) = 0
    BY <2>2
  <2> QED
    BY <1>3, <2>3 DEF MaxOf
<1>4. r \in Seq(Chr) /\ Len(r) = MaxOf(k, 0) /\ \A j \in 1 .. k : r[j] = ch
  BY <1>1, <1>2, <1>3
<1> QED
  BY <1>4 DEF r

-----------------------------------------------------------------------------
\* What printnum's recursion says of the digits of k, given those of k \div base.
DigitsBody(P, k, base, pad) ==
  [v \in Int |-> (IF k >= base THEN P[k \div base][v - 1] ELSE Repeat(pad, v - 1))
                   \o <<DigitChar[(k % base) + 1]>>]

\* printnum's recursion, for all numbers.
IsDigits(P, base, pad) == P = [k \in Nat |-> DigitsBody(P, k, base, pad)]

\* Up to n only.
DigitsUpTo(P, n, base, pad) == P = [k \in 0 .. n |-> DigitsBody(P, k, base, pad)]

\* The division of printnum's recursion ends: the quotient is smaller.
LEMMA Quotient ==
  ASSUME NEW k \in Nat, NEW base \in Nat, base >= 2
  PROVE  /\ k \div base \in Nat /\ k % base \in 0 .. base - 1
         /\ k >= base => k \div base < k
         /\ k = base * (k \div base) + (k % base)
<1> DEFINE m == k \div base
           r == k % base
<1>1. m \in Int /\ r \in 0 .. base - 1 /\ k = base * m + r
  OBVIOUS
<1> HIDE DEF m, r
<1>2. m >= 0
  BY <1>1
<1>3. ASSUME k >= base PROVE m < k
  BY <1>1, <1>2, <1>3
<1>4. m \in Nat
  BY <1>1, <1>2
<1> QED
  BY <1>1, <1>3, <1>4 DEF m, r

\* The digits of k depend only on those of k \div base.
LEMMA SameBody ==
  ASSUME NEW P, NEW R, NEW k, NEW base, NEW pad,
         k >= base => P[k \div base] = R[k \div base]
  PROVE  DigitsBody(P, k, base, pad) = DigitsBody(R, k, base, pad)
BY DEF DigitsBody

\* A function that describes the digits up to n does so at each of these numbers.
LEMMA DigitsAt ==
  ASSUME NEW P, NEW n, NEW base, NEW pad, DigitsUpTo(P, n, base, pad), NEW k \in 0 .. n
  PROVE  P[k] = DigitsBody(P, k, base, pad)
BY DEF DigitsUpTo

\* Two functions that describe the digits agree wherever both do.
LEMMA DigitsUnique ==
  ASSUME NEW base \in Nat, base >= 2, NEW pad, NEW n \in Nat, NEW m \in Nat, NEW P, NEW R,
         DigitsUpTo(P, n, base, pad), DigitsUpTo(R, m, base, pad)
  PROVE  \A k \in Nat : k <= n /\ k <= m => P[k] = R[k]
<1> DEFINE S == {k \in Nat : k <= n /\ k <= m => P[k] = R[k]}
<1>1. ASSUME NEW k \in Nat, \A j \in 0 .. k - 1 : j \in S PROVE k \in S
  <2> SUFFICES ASSUME k <= n, k <= m PROVE P[k] = R[k]
    OBVIOUS
  <2>1. P[k] = DigitsBody(P, k, base, pad) /\ R[k] = DigitsBody(R, k, base, pad)
    <3>1. k \in 0 .. n /\ k \in 0 .. m
      OBVIOUS
    <3> HIDE DEF S
    <3>2. P[k] = DigitsBody(P, k, base, pad)
      BY <3>1, DigitsAt
    <3>3. R[k] = DigitsBody(R, k, base, pad)
      BY <3>1, DigitsAt
    <3> QED
      BY <3>2, <3>3
  <2>2. k >= base => P[k \div base] = R[k \div base]
    <3> SUFFICES ASSUME k >= base PROVE P[k \div base] = R[k \div base]
      OBVIOUS
    <3>1. k \div base \in 0 .. k - 1
      <4>1. k \div base \in Nat /\ k \div base < k
        BY Quotient
      <4> HIDE DEF S
      <4> QED
        BY ONLY <4>1, k \in Nat
    <3>2. k \div base <= n /\ k \div base <= m
      BY <3>1
    <3> QED
      BY <1>1, <3>1, <3>2
  <2> QED
    BY <2>1, <2>2, SameBody
<1>2. Nat \subseteq S
  <2> HIDE DEF S
  <2> QED
    BY <1>1, StrongInduct
<1> QED
  BY <1>2

\* There is a function for the digits of the numbers up to n.
LEMMA DigitsFinite ==
  ASSUME NEW base \in Nat, base >= 2, NEW pad
  PROVE  \A n \in Nat : \E P : DigitsUpTo(P, n, base, pad)
<1> DEFINE S == {n \in Nat : \E P : DigitsUpTo(P, n, base, pad)}
<1>1. 0 \in S
  <2> DEFINE P == [k \in 0 .. 0 |-> DigitsBody(<<>>, k, base, pad)]
  <2>1. \A k \in 0 .. 0 : DigitsBody(P, k, base, pad) = DigitsBody(<<>>, k, base, pad)
    <3> HIDE DEF P
    <3> QED
      BY SameBody
  <2>2. P = [k \in 0 .. 0 |-> DigitsBody(P, k, base, pad)]
    BY <2>1
  <2> HIDE DEF P
  <2>3. DigitsUpTo(P, 0, base, pad)
    BY <2>2 DEF DigitsUpTo
  <2> QED
    BY <2>3
<1>2. ASSUME NEW n \in Nat, n \in S PROVE n + 1 \in S
  <2>1. PICK P : DigitsUpTo(P, n, base, pad)
    BY <1>2
  <2> DEFINE R == [k \in 0 .. n + 1 |-> IF k <= n THEN P[k] ELSE DigitsBody(P, k, base, pad)]
  <2>2. \A k \in 0 .. n : R[k] = P[k]
    OBVIOUS
  <2>3. \A k \in 0 .. n + 1 : R[k] = IF k <= n THEN P[k] ELSE DigitsBody(P, k, base, pad)
    OBVIOUS
  <2>4. R = [k \in 0 .. n + 1 |-> R[k]]
    OBVIOUS
  <2> HIDE DEF R
  <2>5. ASSUME NEW k \in 0 .. n + 1 PROVE R[k] = DigitsBody(R, k, base, pad)
    <3>1. k >= base => k \div base \in 0 .. n
      BY Quotient
    <3>2. DigitsBody(R, k, base, pad) = DigitsBody(P, k, base, pad)
      BY <2>2, <3>1, SameBody
    <3>3. k <= n => P[k] = DigitsBody(P, k, base, pad)
      BY <2>1 DEF DigitsUpTo
    <3> QED
      BY <2>3, <3>2, <3>3
  <2>6. DigitsUpTo(R, n + 1, base, pad)
    BY <2>4, <2>5 DEF DigitsUpTo
  <2> QED
    BY <2>6
<1>3. Nat \subseteq S
  <2> HIDE DEF S
  <2> QED
    BY <1>1, <1>2, Induct
<1> QED
  BY <1>3

\* The recursive definition of printnum defines something: the functions for
\* all n fit together.
LEMMA DigitsExist ==
  ASSUME NEW base \in Nat, base >= 2, NEW pad
  PROVE  \E P : IsDigits(P, base, pad)
<1> DEFINE A(n) == CHOOSE P : DigitsUpTo(P, n, base, pad)
           P == [k \in Nat |-> A(k)[k]]
<1>1. ASSUME NEW n \in Nat PROVE DigitsUpTo(A(n), n, base, pad)
  BY DigitsFinite
<1>2. \A k \in Nat : P[k] = A(k)[k]
  OBVIOUS
<1>3. P = [k \in Nat |-> P[k]]
  OBVIOUS
<1> HIDE DEF P, A
<1>4. ASSUME NEW k \in Nat PROVE P[k] = DigitsBody(P, k, base, pad)
  <2>1. A(k)[k] = DigitsBody(A(k), k, base, pad)
    BY <1>1 DEF DigitsUpTo
  <2>2. ASSUME k >= base PROVE A(k)[k \div base] = P[k \div base]
    <3>1. k \div base \in Nat /\ k \div base <= k
      BY <2>2, Quotient
    <3>2. A(k \div base)[k \div base] = A(k)[k \div base]
      <4> DEFINE q == k \div base
      <4>1. DigitsUpTo(A(q), q, base, pad) /\ DigitsUpTo(A(k), k, base, pad) /\ q \in Nat /\ q <= q /\ q <= k
        BY <1>1, <3>1
      <4> HIDE DEF q
      <4>2. \A j \in Nat : j <= q /\ j <= k => A(q)[j] = A(k)[j]
        BY <4>1, DigitsUnique
      <4>3. A(q)[q] = A(k)[q]
        BY <4>1, <4>2
      <4> QED
        BY <4>3 DEF q
    <3> QED
      BY <1>2, <3>1, <3>2
  <2>3. DigitsBody(A(k), k, base, pad) = DigitsBody(P, k, base, pad)
    BY <2>2, SameBody
  <2> QED
    BY <1>2, <2>1, <2>3
<1>5. IsDigits(P, base, pad)
  BY <1>3, <1>4 DEF IsDigits
<1> QED
  BY <1>5

\* The function that printnum's recursion defines.
DigitsFun(base, pad) == CHOOSE P : IsDigits(P, base, pad)

\* What printnum's recursion computes satisfies its equation.
LEMMA DigitsAre ==
  ASSUME NEW base \in Nat, base >= 2, NEW pad
  PROVE  \A k \in Nat : DigitsFun(base, pad)[k] = DigitsBody(DigitsFun(base, pad), k, base, pad)
<1>1. IsDigits(DigitsFun(base, pad), base, pad)
  BY DigitsExist, Zenon DEF DigitsFun
<1>2. ASSUME NEW P, IsDigits(P, base, pad) PROVE \A k \in Nat : P[k] = DigitsBody(P, k, base, pad)
  BY <1>2 DEF IsDigits
<1> QED
  BY <1>1, <1>2

\* printnum is that function.
LEMMA PrintnumIs ==
  ASSUME NEW num, NEW base, NEW w, NEW pad
  PROVE  printnum(num, base, w, pad) = DigitsFun(base, pad)[num][w]
BY Zenon DEF printnum, DigitsFun, IsDigits, DigitsBody

\* No padding where the width is used up.
LEMMA NoPadding ==
  ASSUME NEW ch \in Chr, NEW k \in Int, k <= 0
  PROVE  Repeat(ch, k) = <<>>
<1>1. Repeat(ch, k) \in Seq(Chr) /\ Len(Repeat(ch, k)) = 0
  BY RepeatIs DEF MaxOf
<1> QED
  BY <1>1, EmptySeq

\* The digits of k alone, without padding, and the last of them.
Bare(k, base, pad) == DigitsFun(base, pad)[k][0]
LastDigit(k, base) == DigitChar[(k % base) + 1]

\* The equation of the recursion, for one number and one width.
LEMMA BodyIs ==
  ASSUME NEW base \in 2 .. 16, NEW pad, NEW k \in Nat, NEW v \in Int
  PROVE  DigitsFun(base, pad)[k][v] =
           (IF k >= base THEN DigitsFun(base, pad)[k \div base][v - 1] ELSE Repeat(pad, v - 1))
             \o <<LastDigit(k, base)>>
<1>1. DigitsFun(base, pad)[k] = DigitsBody(DigitsFun(base, pad), k, base, pad)
  BY DigitsAre
<1> QED
  BY <1>1 DEF DigitsBody, LastDigit

\* The last digit is a character.
LEMMA LastDigitIs ==
  ASSUME NEW base \in 2 .. 16, NEW k \in Nat
  PROVE  LastDigit(k, base) \in Chr
<1>1. k % base \in 0 .. base - 1
  OBVIOUS
<1>2. (k % base) + 1 \in 1 .. 16
  BY <1>1
<1> QED
  BY <1>2, DigitCharIs DEF LastDigit

\* What printnum prints: the padding that is left, then the digits.
PaddedDigits(k, base, pad) ==
  /\ Bare(k, base, pad) \in Seq(Chr) /\ Len(Bare(k, base, pad)) >= 1
  /\ \A v \in Int : DigitsFun(base, pad)[k][v] =
                      Repeat(pad, v - Len(Bare(k, base, pad))) \o Bare(k, base, pad)

\* The innermost call of printnum prints all the padding and one digit.
LEMMA OneDigit ==
  ASSUME NEW base \in 2 .. 16, NEW pad \in Chr, NEW k \in Nat, k < base
  PROVE  PaddedDigits(k, base, pad) /\ Bare(k, base, pad) = <<LastDigit(k, base)>>
<1> DEFINE ch == LastDigit(k, base)
<1>1. ch \in Chr /\ <<ch>> \in Seq(Chr) /\ Len(<<ch>>) = 1
  BY LastDigitIs
<1>2. ASSUME NEW v \in Int PROVE DigitsFun(base, pad)[k][v] = Repeat(pad, v - 1) \o <<ch>>
  <2>1. ~(k >= base)
    BY SMTT(30)
  <2>2. DigitsFun(base, pad)[k][v] =
           (IF k >= base THEN DigitsFun(base, pad)[k \div base][v - 1] ELSE Repeat(pad, v - 1)) \o <<ch>>
    BY BodyIs
  <2> QED
    BY <2>1, <2>2, Zenon
<1>3. Bare(k, base, pad) = <<ch>>
  <2>1. Repeat(pad, 0 - 1) = <<>>
    BY NoPadding
  <2>2. <<>> \o <<ch>> = <<ch>>
    BY <1>1, ConcatEmptySeq
  <2>3. 0 \in Int
    OBVIOUS
  <2>4. DigitsFun(base, pad)[k][0] = Repeat(pad, 0 - 1) \o <<ch>>
    BY <1>2, <2>3, Zenon
  <2> QED
    BY <2>1, <2>2, <2>4, Zenon DEF Bare
<1> HIDE DEF ch
<1>4. Len(<<ch>>) >= 1
  BY <1>1
<1>5. \A v \in Int : DigitsFun(base, pad)[k][v] = Repeat(pad, v - Len(<<ch>>)) \o <<ch>>
  BY <1>1, <1>2, Zenon
<1>6. PaddedDigits(k, base, pad)
  BY <1>1, <1>3, <1>4, <1>5, Zenon DEF PaddedDigits
<1> QED
  BY <1>3, <1>6 DEF ch

\* Each outer call adds a digit to what the inner one printed with a width
\* smaller by one.
LEMMA MoreDigits ==
  ASSUME NEW base \in 2 .. 16, NEW pad \in Chr, NEW k \in Nat, k >= base, 
         PaddedDigits(k \div base, base, pad)
  PROVE  /\ PaddedDigits(k, base, pad)
         /\ Bare(k, base, pad) = Bare(k \div base, base, pad) \o <<LastDigit(k, base)>>
<1> DEFINE ch == LastDigit(k, base)
           q  == k \div base
           d  == Bare(q, base, pad)
<1>1. ch \in Chr /\ <<ch>> \in Seq(Chr) /\ Len(<<ch>>) = 1
  BY LastDigitIs
<1>2. d \in Seq(Chr) /\ Len(d) >= 1 /\ Len(d) \in Nat
  BY SMTT(30) DEF PaddedDigits
<1>3. ASSUME NEW v \in Int PROVE DigitsFun(base, pad)[k][v] = DigitsFun(base, pad)[q][v - 1] \o <<ch>>
  BY BodyIs
<1>4. ASSUME NEW v \in Int PROVE DigitsFun(base, pad)[q][v] = Repeat(pad, v - Len(d)) \o d
  BY DEF PaddedDigits
<1> HIDE DEF ch, q, d
<1>5. d \o <<ch>> \in Seq(Chr) /\ Len(d \o <<ch>>) = Len(d) + 1
  BY <1>1, <1>2, ConcatProperties
<1>6. ASSUME NEW v \in Int
      PROVE  DigitsFun(base, pad)[k][v] = Repeat(pad, v - Len(d \o <<ch>>)) \o (d \o <<ch>>)
  <2>1. v - Len(d \o <<ch>>) = (v - 1) - Len(d) /\ v - 1 \in Int /\ (v - 1) - Len(d) \in Int
    BY <1>2, <1>5
  <2>2. Repeat(pad, (v - 1) - Len(d)) \in Seq(Chr)
    BY <2>1, RepeatIs
  <2>3. (Repeat(pad, (v - 1) - Len(d)) \o d) \o <<ch>> = Repeat(pad, (v - 1) - Len(d)) \o (d \o <<ch>>)
    BY <1>1, <1>2, <2>2, ConcatAssociative, SMTT(30)
  <2> QED
    BY <1>3, <1>4, <2>1, <2>3
<1>7. Bare(k, base, pad) = d \o <<ch>>
  <2>1. Repeat(pad, 0 - Len(d \o <<ch>>)) = <<>>
    BY <1>2, <1>5, NoPadding
  <2>2. <<>> \o (d \o <<ch>>) = d \o <<ch>>
    BY <1>5, ConcatEmptySeq
  <2>3. DigitsFun(base, pad)[k][0] = Repeat(pad, 0 - Len(d \o <<ch>>)) \o (d \o <<ch>>)
    <3>1. 0 \in Int
      OBVIOUS
    <3> QED
      BY <1>6, <3>1, Zenon
  <2> QED
    BY <2>1, <2>2, <2>3, Zenon DEF Bare
<1>8. PaddedDigits(k, base, pad)
  <2>1. Len(d \o <<ch>>) >= 1
    BY <1>2, <1>5
  <2> QED
    BY <1>5, <1>6, <1>7, <2>1, Zenon DEF PaddedDigits
<1> QED
  BY <1>7, <1>8 DEF ch, q, d

\* By induction over the number: printnum pads as PaddedDigits says.
LEMMA AllPadded ==
  ASSUME NEW base \in 2 .. 16, NEW pad \in Chr
  PROVE  \A k \in Nat : PaddedDigits(k, base, pad)
<1> DEFINE S == {k \in Nat : PaddedDigits(k, base, pad)}
<1>1. ASSUME NEW k \in Nat, \A j \in 0 .. k - 1 : j \in S PROVE k \in S
  <2>1. CASE k < base
    BY <2>1, OneDigit
  <2>2. CASE k >= base
    <3>1. k \div base \in Nat /\ k \div base < k
      BY <2>2, Quotient
    <3>2. k \div base \in 0 .. k - 1
      BY ONLY <3>1, k \in Nat
    <3>3. PaddedDigits(k \div base, base, pad)
      BY <1>1, <3>2
    <3> HIDE DEF S
    <3>4. PaddedDigits(k, base, pad)
      BY <2>2, <3>3, MoreDigits
    <3> QED
      BY <3>4 DEF S
  <2> QED
    BY <2>1, <2>2
<1>2. Nat \subseteq S
  <2> HIDE DEF S
  <2> QED
    BY <1>1, StrongInduct
<1> QED
  BY <1>2

\* printnum prints its digits padded on the left to its width, and as many
\* characters as the width and the digits demand.
LEMMA PrintnumPads ==
  ASSUME NEW num \in Nat, NEW base \in 2 .. 16, NEW w \in Int, NEW pad \in Chr
  PROVE  /\ Bare(num, base, pad) \in Seq(Chr) /\ Len(Bare(num, base, pad)) >= 1
         /\ printnum(num, base, w, pad) = Repeat(pad, w - Len(Bare(num, base, pad))) \o Bare(num, base, pad)
         /\ printnum(num, base, w, pad) \in Seq(Chr)
         /\ Len(printnum(num, base, w, pad)) = MaxOf(w, Len(Bare(num, base, pad)))
<1> DEFINE d == Bare(num, base, pad)
<1>1. PaddedDigits(num, base, pad)
  BY AllPadded
<1>2. d \in Seq(Chr) /\ Len(d) >= 1 /\ Len(d) \in Nat
  BY <1>1 DEF PaddedDigits
<1>3. printnum(num, base, w, pad) = Repeat(pad, w - Len(d)) \o d
  BY <1>1, PrintnumIs DEF PaddedDigits
<1> HIDE DEF d
<1> DEFINE r == Repeat(pad, w - Len(d))
<1>4. r \in Seq(Chr) /\ Len(r) = MaxOf(w - Len(d), 0)
  BY <1>2, RepeatIs
<1> HIDE DEF r
<1>5. r \o d \in Seq(Chr) /\ Len(r \o d) = Len(r) + Len(d)
  BY <1>2, <1>4, ConcatProperties
<1>6. Len(r \o d) = MaxOf(w, Len(d))
  BY <1>2, <1>4, <1>5 DEF MaxOf
<1> QED
  BY <1>2, <1>3, <1>5, <1>6 DEF r, d

\* FoldLeft of sprintputch over s from b on, as SequencesExt defines it: a
\* function of the sets of indices that are done; and the same for the first
\* n indices.
IsStored(it, b, s) ==
  it = [T \in SUBSET DOMAIN s |-> IF T = {} THEN b ELSE sprintputch(it[T \ {Max(T)}], s[Max(T)])]

StoredUpTo(it, b, s, n) ==
  it = [T \in SUBSET (1 .. n) |-> IF T = {} THEN b ELSE sprintputch(it[T \ {Max(T)}], s[Max(T)])]

\* The buffer after the first k characters.
Stored(b, s, k) == (CHOOSE it : IsStored(it, b, s))[1 .. k]

\* The last index of a set of indices, which FoldLeft takes off.
LEMMA MaxIs ==
  ASSUME NEW n \in Nat, NEW T \in SUBSET (1 .. n + 1), n + 1 \in T
  PROVE  Max(T) = n + 1 /\ T \ {n + 1} \in SUBSET (1 .. n)
<1>1. n + 1 \in T /\ \A y \in T : n + 1 >= y
  OBVIOUS
<1>2. \A x \in T : (\A y \in T : x >= y) => x = n + 1
  OBVIOUS
<1>3. Max(T) = n + 1
  BY <1>1, <1>2 DEF Max
<1>4. T \ {n + 1} \in SUBSET (1 .. n)
  OBVIOUS
<1> QED
  BY <1>3, <1>4

\* The fold has a value for sequences of every length.
LEMMA StoredExists ==
  ASSUME NEW b, NEW s
  PROVE  \A n \in Nat : \E it : StoredUpTo(it, b, s, n)
<1> DEFINE S == {n \in Nat : \E it : StoredUpTo(it, b, s, n)}
<1>1. 0 \in S
  <2> DEFINE it == [T \in SUBSET (1 .. 0) |-> b]
  <2>1. \A T \in SUBSET (1 .. 0) : T = {}
    OBVIOUS
  <2>2. StoredUpTo(it, b, s, 0)
    BY <2>1 DEF StoredUpTo
  <2> HIDE DEF it
  <2> QED
    BY <2>2
<1>2. ASSUME NEW n \in Nat, n \in S PROVE n + 1 \in S
  <2>1. PICK it : StoredUpTo(it, b, s, n)
    BY <1>2
  <2> DEFINE r == [T \in SUBSET (1 .. n + 1) |-> IF n + 1 \in T THEN sprintputch(it[T \ {n + 1}], s[n + 1])
                                                                ELSE it[T]]
  <2>2. \A T \in SUBSET (1 .. n + 1) : r[T] = IF n + 1 \in T THEN sprintputch(it[T \ {n + 1}], s[n + 1])
                                                           ELSE it[T]
    OBVIOUS
  <2>3. r = [T \in SUBSET (1 .. n + 1) |-> r[T]]
    OBVIOUS
  <2>4. \A T \in SUBSET (1 .. n) : it[T] = IF T = {} THEN b ELSE sprintputch(it[T \ {Max(T)}], s[Max(T)])
    BY <2>1 DEF StoredUpTo
  <2> HIDE DEF r
  <2>5. ASSUME NEW T \in SUBSET (1 .. n)
        PROVE  T \in SUBSET (1 .. n + 1) /\ n + 1 \notin T /\ r[T] = it[T]
    BY <2>2
  <2>6. ASSUME NEW T \in SUBSET (1 .. n + 1)
        PROVE  r[T] = IF T = {} THEN b ELSE sprintputch(r[T \ {Max(T)}], s[Max(T)])
    <3>1. CASE n + 1 \in T
      <4>1. Max(T) = n + 1 /\ T \ {n + 1} \in SUBSET (1 .. n) /\ T # {}
        BY <3>1, MaxIs
      <4>2. r[T] = sprintputch(it[T \ {n + 1}], s[n + 1])
        BY <2>2, <3>1
      <4>3. r[T \ {n + 1}] = it[T \ {n + 1}]
        BY <2>5, <4>1
      <4> QED
        BY <4>1, <4>2, <4>3
    <3>2. CASE n + 1 \notin T
      <4>1. T \in SUBSET (1 .. n)
        BY <3>2
      <4>2. T \ {Max(T)} \in SUBSET (1 .. n)
        BY <4>1
      <4>3. r[T] = it[T] /\ r[T \ {Max(T)}] = it[T \ {Max(T)}]
        BY <2>5, <4>1, <4>2
      <4> QED
        BY <2>4, <4>1, <4>3
    <3> QED
      BY <3>1, <3>2
  <2>7. StoredUpTo(r, b, s, n + 1)
    BY <2>3, <2>6 DEF StoredUpTo
  <2> QED
    BY <2>7
<1>3. Nat \subseteq S
  <2> HIDE DEF S
  <2> QED
    BY <1>1, <1>2, Induct
<1> QED
  BY <1>3

\* vsnprintf's output one character at a time: FoldLeft calls sprintputch for
\* each character in turn.
LEMMA StoredAre ==
  ASSUME NEW b, NEW s, NEW n \in Nat, DOMAIN s = 1 .. n
  PROVE  /\ FoldLeft(sprintputch, b, s) = Stored(b, s, n)
         /\ Stored(b, s, 0) = b
         /\ \A k \in 0 .. n - 1 : Stored(b, s, k + 1) = sprintputch(Stored(b, s, k), s[k + 1])
<1> DEFINE it == CHOOSE f : IsStored(f, b, s)
<1>1. \E f : IsStored(f, b, s)
  <2>1. PICK f : StoredUpTo(f, b, s, n)
    BY StoredExists
  <2> QED
    BY <2>1, Zenon DEF IsStored, StoredUpTo
<1>2. IsStored(it, b, s)
  BY <1>1, Zenon
<1>3. FoldLeft(sprintputch, b, s) = it[DOMAIN s]
  BY Zenon DEF FoldLeft, MapThenFoldSet, IsStored
<1>4. \A k : Stored(b, s, k) = it[1 .. k]
  BY DEF Stored
<1> HIDE DEF it
<1>5. \A T \in SUBSET (1 .. n) : it[T] = IF T = {} THEN b ELSE sprintputch(it[T \ {Max(T)}], s[Max(T)])
  BY <1>2 DEF IsStored
<1>6. it[1 .. 0] = b
  <2>1. 1 .. 0 = {} /\ 1 .. 0 \in SUBSET (1 .. n)
    OBVIOUS
  <2> QED
    BY <1>5, <2>1
<1>7. ASSUME NEW k \in 0 .. n - 1 PROVE it[1 .. k + 1] = sprintputch(it[1 .. k], s[k + 1])
  <2>1. k \in Nat /\ 1 .. k + 1 \in SUBSET (1 .. n) /\ 1 .. k + 1 # {} /\ k + 1 \in 1 .. k + 1
    <3>1. k \in Nat /\ k + 1 <= n
      OBVIOUS
    <3>2. k + 1 \in 1 .. k + 1
      BY <3>1
    <3>3. \A x \in 1 .. k + 1 : x \in 1 .. n
      BY <3>1
    <3> QED
      BY <3>1, <3>2, <3>3, Zenon
  <2>2. Max(1 .. k + 1) = k + 1
    BY <2>1, MaxIs
  <2>3. (1 .. k + 1) \ {k + 1} = 1 .. k
    BY <2>1
  <2> QED
    BY <1>5, <2>1, <2>2, <2>3
<1> QED
  BY <1>3, <1>4, <1>6, <1>7

\* What the buffer holds of t: as much as fits.
Fits(t) == SubSeq(t, 1, MinOf(Len(t), size - 1))

\* The part that fits, as a sequence.
LEMMA FitsIs ==
  ASSUME NEW t \in Seq(Chr), size \in Nat, size > 0
  PROVE  /\ Fits(t) \in Seq(Chr) /\ Len(Fits(t)) = MinOf(Len(t), size - 1)
         /\ \A k \in 1 .. MinOf(Len(t), size - 1) : Fits(t)[k] = t[k]
<1> DEFINE m == MinOf(Len(t), size - 1)
<1>1. m \in Nat /\ m <= Len(t) /\ Len(t) \in Nat
  BY DEF MinOf
<1>2. \A k \in 1 .. m : t[k] \in Chr
  BY <1>1
<1> HIDE DEF m
<1>3. /\ SubSeq(t, 1, m) \in Seq(Chr)
      /\ Len(SubSeq(t, 1, m)) = IF 1 <= m THEN m - 1 + 1 ELSE 0
      /\ \A k \in 1 .. m - 1 + 1 : SubSeq(t, 1, m)[k] = t[1 + k - 1]
  BY <1>1, <1>2, SubSeqProperties
<1>4. Len(SubSeq(t, 1, m)) = m /\ \A k \in 1 .. m : SubSeq(t, 1, m)[k] = t[k]
  BY <1>1, <1>3
<1> QED
  BY <1>3, <1>4 DEF Fits, m

\* sprintputch keeps the buffer at what fits, also once it is full.
LEMMA PutOne ==
  ASSUME NEW t \in Seq(Chr), NEW ch \in Chr, size \in Nat, size > 0
  PROVE  sprintputch(Fits(t), ch) = Fits(Append(t, ch))
<1> DEFINE u == Append(t, ch)
<1>1. u \in Seq(Chr) /\ Len(u) = Len(t) + 1 /\ u[Len(t) + 1] = ch /\ \A k \in 1 .. Len(t) : u[k] = t[k]
  BY AppendProperties
<1> HIDE DEF u
<1>2. Len(t) \in Nat
  OBVIOUS
<1>3. /\ Fits(t) \in Seq(Chr) /\ Len(Fits(t)) = MinOf(Len(t), size - 1)
      /\ \A k \in 1 .. MinOf(Len(t), size - 1) : Fits(t)[k] = t[k]
  BY FitsIs
<1>4. /\ Fits(u) \in Seq(Chr) /\ Len(Fits(u)) = MinOf(Len(u), size - 1)
      /\ \A k \in 1 .. MinOf(Len(u), size - 1) : Fits(u)[k] = u[k]
  BY <1>1, FitsIs
<1>5. CASE Len(t) < size - 1
  <2> DEFINE a == Append(Fits(t), ch)
  <2>1. MinOf(Len(t), size - 1) = Len(t) /\ MinOf(Len(u), size - 1) = Len(t) + 1
    BY <1>1, <1>2, <1>5 DEF MinOf
  <2>2. /\ a \in Seq(Chr) /\ Len(a) = Len(t) + 1 /\ a[Len(t) + 1] = ch
        /\ \A k \in 1 .. Len(t) : a[k] = Fits(t)[k]
    BY <1>3, <2>1, AppendProperties
  <2>3. sprintputch(Fits(t), ch) = a
    BY <1>3, <1>5, <2>1 DEF sprintputch
  <2> HIDE DEF a
  <2>4. \A k \in 1 .. Len(a) : a[k] = Fits(u)[k]
    BY <1>1, <1>2, <1>3, <1>4, <2>1, <2>2
  <2>5. a = Fits(u)
    BY <1>1, <1>4, <2>1, <2>2, <2>4, SeqEqual
  <2> QED
    BY <2>3, <2>5 DEF u
<1>6. CASE ~(Len(t) < size - 1)
  <2>1. MinOf(Len(t), size - 1) = size - 1 /\ MinOf(Len(u), size - 1) = size - 1
    BY <1>1, <1>2, <1>6 DEF MinOf
  <2>2. sprintputch(Fits(t), ch) = Fits(t)
    BY <1>3, <2>1 DEF sprintputch
  <2>3. \A k \in 1 .. Len(Fits(t)) : Fits(t)[k] = Fits(u)[k]
    BY <1>1, <1>2, <1>3, <1>4, <1>6, <2>1
  <2>4. Fits(t) = Fits(u)
    BY <1>3, <1>4, <2>1, <2>3, SeqEqual
  <2> QED
    BY <2>2, <2>4 DEF u
<1> QED
  BY <1>5, <1>6

\* The first k characters of s after t.
LEMMA PrefixAfter ==
  ASSUME NEW t \in Seq(Chr), NEW s \in Seq(Chr), NEW k \in 0 .. Len(s)
  PROVE  /\ SubSeq(s, 1, k) \in Seq(Chr)
         /\ t \o SubSeq(s, 1, k) \in Seq(Chr)
         /\ k < Len(s) => t \o SubSeq(s, 1, k + 1) = Append(t \o SubSeq(s, 1, k), s[k + 1])
<1>1. Len(s) \in Nat /\ k \in Nat /\ \A j \in 1 .. Len(s) : s[j] \in Chr
  OBVIOUS
<1> DEFINE a == SubSeq(s, 1, k)
           c == SubSeq(s, 1, k + 1)
<1>2. a \in Seq(Chr)
  BY <1>1, SubSeqProperties
<1>3. t \o a \in Seq(Chr)
  BY <1>2, ConcatProperties
<1>4. ASSUME k < Len(s) PROVE t \o c = Append(t \o a, s[k + 1])
  <2>1. c = a \o <<s[k + 1]>>
    <3>1. k + 1 \in 1 .. Len(s) /\ 1 \in 1 .. Len(s) /\ (k + 1) - 1 = k
      BY <1>1, <1>4
    <3>2. SubSeq(s, 1, k + 1) = SubSeq(s, 1, (k + 1) - 1) \o << s[k + 1] >>
      BY <3>1, SubSeqRecursiveSecond
    <3> QED
      BY <3>1, <3>2
  <2>2. s[k + 1] \in Chr /\ <<s[k + 1]>> \in Seq(Chr)
    BY <1>1, <1>4
  <2> HIDE DEF a, c
  <2>3. (t \o a) \o <<s[k + 1]>> = t \o (a \o <<s[k + 1]>>)
    BY <1>2, <2>2, ConcatAssociative, SMTT(30)
  <2>4. Append(t \o a, s[k + 1]) = (t \o a) \o <<s[k + 1]>>
    BY <1>3, <2>2, AppendIsConcat
  <2> QED
    BY <2>1, <2>3, <2>4
<1> QED
  BY <1>2, <1>3, <1>4

\* A whole string given to sprintputch leaves in the buffer what fits of
\* everything printed.
LEMMA PutAll ==
  ASSUME NEW t \in Seq(Chr), NEW s \in Seq(Chr), size \in Nat, size > 0
  PROVE  FoldLeft(sprintputch, Fits(t), s) = Fits(t \o s)
<1> DEFINE b == Fits(t)
           n == Len(s)
           S == {k \in Nat : k <= n => Stored(b, s, k) = Fits(t \o SubSeq(s, 1, k))}
<1>1. n \in Nat /\ DOMAIN s = 1 .. n
  OBVIOUS
<1>2. /\ FoldLeft(sprintputch, b, s) = Stored(b, s, n)
      /\ Stored(b, s, 0) = b
      /\ \A k \in 0 .. n - 1 : Stored(b, s, k + 1) = sprintputch(Stored(b, s, k), s[k + 1])
  <2> HIDE DEF b, n
  <2> QED
    BY <1>1, StoredAre
<1>3. 0 \in S
  <2>1. SubSeq(s, 1, 0) = <<>>
    BY SubSeqEmpty
  <2>2. t \o <<>> = t
    BY ConcatEmptySeq
  <2> QED
    BY <1>2, <2>1, <2>2
<1>4. ASSUME NEW k \in Nat, k \in S PROVE k + 1 \in S
  <2> SUFFICES ASSUME k + 1 <= n PROVE Stored(b, s, k + 1) = Fits(t \o SubSeq(s, 1, k + 1))
    OBVIOUS
  <2>1. k \in 0 .. n - 1 /\ k <= n /\ k < n /\ k \in 0 .. n
    BY <1>1
  <2>2. Stored(b, s, k) = Fits(t \o SubSeq(s, 1, k))
    BY <1>4, <2>1
  <2>3. s[k + 1] \in Chr
    BY <1>1, <2>1
  <2>4. t \o SubSeq(s, 1, k) \in Seq(Chr) /\ t \o SubSeq(s, 1, k + 1) = Append(t \o SubSeq(s, 1, k), s[k + 1])
    <3>1. k \in 0 .. Len(s) /\ k < Len(s)
      BY <2>1
    <3> HIDE DEF S
    <3> QED
      BY <3>1, PrefixAfter
  <2>5. sprintputch(Fits(t \o SubSeq(s, 1, k)), s[k + 1]) = Fits(Append(t \o SubSeq(s, 1, k), s[k + 1]))
    BY <2>3, <2>4, PutOne
  <2>6. Stored(b, s, k + 1) = sprintputch(Stored(b, s, k), s[k + 1])
    BY <1>2, <2>1
  <2> QED
    BY <2>2, <2>4, <2>5, <2>6
<1>5. Nat \subseteq S
  <2> HIDE DEF S
  <2> QED
    BY <1>3, <1>4, Induct
<1>6. Stored(b, s, n) = Fits(t \o SubSeq(s, 1, n))
  BY <1>1, <1>5
<1>7. SubSeq(s, 1, n) = s
  BY SubSeqFull
<1> QED
  BY <1>2, <1>6, <1>7

\* The types of vprintfmt's state; cnt counts the output.
FmtType ==
  /\ fmt \in Seq(Chr) /\ i \in Nat \ {0}
  /\ pc \in {"call", "text", "escape", "width", "done"}
  /\ padc \in Chr /\ width \in Int /\ precision \in Int
  /\ sink \in {"console", "buffer"} /\ size \in Nat
  /\ out \in Seq(Chr) /\ buf \in Seq(Chr) /\ cnt = Len(out) /\ ret \in Int

\* The first n characters are the same.
SamePrefix(s, t, n) == \A k \in 1 .. n : s[k] = t[k]

\* What was read of the format: a '\0' only at its end, and fmt at most
\* behind the last character, never behind the '\0'.
FmtRead ==
  /\ \A k \in 1 .. Len(fmt) - 1 : fmt[k] # NUL
  /\ pc # "done" => i <= Len(fmt) + 1 /\ (i = Len(fmt) + 1 => \A k \in 1 .. Len(fmt) : fmt[k] # NUL)
  /\ pc = "call" => fmt = <<>> /\ i = 1 /\ out = <<>> /\ buf = <<>> /\ conv = NoConv

\* The escape sequence begins at j.
EscapeAt(j) ==
  /\ fmt[j] = "%" /\ \A h \in j + 1 .. i - 1 : fmt[h] # "%"
  /\ conv = NoConv => Len(out) = j - 1 /\ SamePrefix(out, fmt, j - 1)

\* Before the first conversion the output is the format up to the character
\* that is read, or up to the '%' of the escape sequence that is read.
EscapeInv ==
  /\ pc = "text" /\ conv = NoConv => Len(out) = i - 1 /\ SamePrefix(out, fmt, i - 1)
  /\ pc \in {"escape", "width"} => \E j \in 1 .. i - 1 : EscapeAt(j)
  /\ pc = "done" /\ conv = NoConv /\ ret >= 0 => Append(out, NUL) = fmt

\* The buffer holds what fits of the output.
BufInv ==
  /\ sink = "buffer" /\ pc \notin {"call", "done"} => size > 0 /\ buf = Fits(out)
  /\ BufferHoldsPrefix

\* The invariant of vprintfmt, but for the last conversion.
FmtInv == FmtType /\ FmtRead /\ EscapeInv /\ BufInv

\* What reading one character of the format does: the format holds it at i,
\* no '\0' comes before the end, and nothing after a '\0' is read.
LEMMA Fetched ==
  ASSUME FmtType, FmtRead, pc # "done", NEW ch \in Chr, NEW choices, Fetch(ch, choices)
  PROVE  /\ fmt' \in Seq(Chr) /\ i \in 1 .. Len(fmt') /\ fmt'[i] = ch
         /\ Len(fmt) <= Len(fmt') /\ SamePrefix(fmt', fmt, Len(fmt)) /\ i - 1 <= Len(fmt)
         /\ \A k \in 1 .. Len(fmt') - 1 : fmt'[k] # NUL
         /\ ch # NUL /\ i = Len(fmt') => \A k \in 1 .. Len(fmt') : fmt'[k] # NUL
         /\ ch = NUL => i = Len(fmt')
<1>1. fmt \in Seq(Chr) /\ i \in Nat \ {0} /\ Len(fmt) \in Nat /\ i <= Len(fmt) + 1
  BY DEF FmtType, FmtRead
<1>2. \A k \in 1 .. Len(fmt) - 1 : fmt[k] # NUL
  BY DEF FmtRead
<1>3. CASE i <= Len(fmt)
  <2>1. ch = fmt[i] /\ fmt' = fmt
    BY <1>3 DEF Fetch
  <2>2. i \in 1 .. Len(fmt)
    BY <1>1, <1>3
  <2>3. ASSUME ch # NUL, i = Len(fmt), NEW k \in 1 .. Len(fmt) PROVE fmt[k] # NUL
    <3>1. k = i \/ k \in 1 .. Len(fmt) - 1
      BY <1>1, <2>3
    <3> QED
      BY <1>2, <2>1, <2>3, <3>1
  <2>4. ASSUME ch = NUL PROVE i = Len(fmt)
    <3>1. i = Len(fmt) \/ i \in 1 .. Len(fmt) - 1
      BY <1>1, <2>2
    <3> QED
      BY <1>2, <2>1, <2>4, <3>1
  <2> QED
    BY <1>1, <1>2, <2>1, <2>2, <2>3, <2>4 DEF SamePrefix
<1>4. CASE ~(i <= Len(fmt))
  <2>1. fmt' = Append(fmt, ch) /\ i = Len(fmt) + 1
    BY <1>1, <1>4 DEF Fetch
  <2>2. \A k \in 1 .. Len(fmt) : fmt[k] # NUL
    BY <2>1 DEF FmtRead
  <2>3. /\ fmt' \in Seq(Chr) /\ Len(fmt') = Len(fmt) + 1
        /\ \A k \in 1 .. Len(fmt) : fmt'[k] = fmt[k] /\ fmt'[Len(fmt) + 1] = ch
    BY <1>1, <2>1, AppendProperties
  <2>4. fmt'[i] = ch
    BY <1>1, <2>1, AppendProperties
  <2>5. ASSUME NEW k \in 1 .. Len(fmt') PROVE k = i \/ k \in 1 .. Len(fmt)
    BY <1>1, <2>1, <2>3
  <2>6. ASSUME NEW k \in 1 .. Len(fmt') - 1 PROVE fmt'[k] # NUL
    BY <1>1, <2>2, <2>3
  <2>7. ASSUME ch # NUL, NEW k \in 1 .. Len(fmt') PROVE fmt'[k] # NUL
    BY <1>1, <2>2, <2>3, <2>4, <2>5, <2>7
  <2>8. i \in 1 .. Len(fmt') /\ i = Len(fmt') /\ i - 1 <= Len(fmt) /\ Len(fmt) <= Len(fmt')
    BY <1>1, <2>1, <2>3
  <2> QED
    BY <2>3, <2>4, <2>6, <2>7, <2>8 DEF SamePrefix
<1> QED
  BY <1>3, <1>4

\* What putch leaves: the output grows by s, the count follows and the buffer
\* holds what fits.
LEMMA Put ==
  ASSUME FmtType, BufInv, pc \notin {"call", "done"}, NEW s \in Seq(Chr), putch(s)
  PROVE  /\ out' \in Seq(Chr) /\ cnt' = Len(out') /\ Len(out') = Len(out) + Len(s)
         /\ SamePrefix(out', out, Len(out)) /\ \A k \in 1 .. Len(s) : out'[Len(out) + k] = s[k]
         /\ buf' \in Seq(Chr)
         /\ sink = "buffer" => size > 0 /\ buf' = Fits(out')
<1>1. out \in Seq(Chr) /\ Len(out) \in Nat /\ Len(s) \in Nat /\ cnt = Len(out) /\ buf \in Seq(Chr)
  BY DEF FmtType
<1>2. out' = out \o s /\ cnt' = cnt + Len(s)
  BY DEF putch
<1>3. /\ out' \in Seq(Chr) /\ Len(out') = Len(out) + Len(s)
      /\ \A k \in 1 .. Len(out) + Len(s) : out'[k] = IF k <= Len(out) THEN out[k] ELSE s[k - Len(out)]
  BY <1>1, <1>2, ConcatProperties
<1>4. SamePrefix(out', out, Len(out))
  BY <1>1, <1>3 DEF SamePrefix
<1>5. ASSUME NEW k \in 1 .. Len(s) PROVE out'[Len(out) + k] = s[k]
  <2>1. Len(out) + k \in 1 .. Len(out) + Len(s) /\ ~(Len(out) + k <= Len(out)) /\ (Len(out) + k) - Len(out) = k
    BY <1>1
  <2> QED
    BY <1>3, <2>1
<1>6. CASE sink = "buffer"
  <2>1. size \in Nat /\ size > 0 /\ buf = Fits(out)
    BY <1>6 DEF BufInv, FmtType
  <2>2. buf' = FoldLeft(sprintputch, buf, s)
    BY <1>6 DEF putch
  <2>3. buf' = Fits(out')
    BY <1>1, <1>2, <2>1, <2>2, PutAll
  <2>4. buf' \in Seq(Chr)
    BY <1>3, <2>1, <2>3, FitsIs
  <2> QED
    BY <1>1, <1>2, <1>3, <1>4, <1>5, <2>1, <2>3, <2>4
<1>7. CASE sink # "buffer"
  BY <1>1, <1>2, <1>3, <1>4, <1>5, <1>7 DEF putch
<1> QED
  BY <1>6, <1>7

\* An action on pc "escape" or "width" that prints nothing.
LEMMA EscapeStep ==
  ASSUME FmtInv, pc \in {"escape", "width"}, pc' \in {"escape", "width"},
         NEW ch \in Chr, Fetch(ch, Escapes),
         i' = i \/ (i' = i + 1 /\ ch \notin {NUL, "%"}),
         padc' \in Chr, width' \in Int, precision' \in Int,
         UNCHANGED <<sink, size, ret, buf, cnt, out, conv>>
  PROVE  FmtInv'
<1>1. FmtType /\ FmtRead /\ EscapeInv /\ BufInv /\ pc # "done"
  BY DEF FmtInv
<1>2. /\ fmt' \in Seq(Chr) /\ i \in 1 .. Len(fmt') /\ fmt'[i] = ch
      /\ Len(fmt) <= Len(fmt') /\ SamePrefix(fmt', fmt, Len(fmt)) /\ i - 1 <= Len(fmt)
      /\ \A k \in 1 .. Len(fmt') - 1 : fmt'[k] # NUL
      /\ ch # NUL /\ i = Len(fmt') => \A k \in 1 .. Len(fmt') : fmt'[k] # NUL
  BY <1>1, Fetched
<1>3. fmt \in Seq(Chr) /\ Len(fmt) \in Nat /\ Len(fmt') \in Nat /\ i \in Nat \ {0}
  BY <1>1, <1>2 DEF FmtType
<1>4. FmtType'
  BY <1>1, <1>2, <1>3 DEF FmtType
<1>5. FmtRead'
  BY <1>2, <1>3 DEF FmtRead
<1>6. EscapeInv'
  <2>1. PICK j \in 1 .. i - 1 : EscapeAt(j)
    BY <1>1 DEF EscapeInv
  <2>2. j \in 1 .. i' - 1 /\ j \in Nat /\ j <= Len(fmt)
    BY <1>2, <1>3
  <2>3. \A k \in 1 .. j : fmt'[k] = fmt[k]
    BY <1>2, <1>3, <2>2 DEF SamePrefix
  <2>4. ASSUME NEW h \in j + 1 .. i' - 1 PROVE fmt'[h] # "%"
    <3>1. CASE h = i
      <4>1. i' = i + 1
        BY <1>3, <3>1
      <4> QED
        BY <1>2, <1>3, <3>1, <4>1
    <3>2. CASE h # i
      <4>1. h \in j + 1 .. i - 1 /\ h \in 1 .. Len(fmt)
        BY <1>2, <1>3, <2>2, <3>2
      <4> QED
        BY <1>2, <2>1, <4>1 DEF EscapeAt, SamePrefix
    <3> QED
      BY <3>1, <3>2
  <2>5. EscapeAt(j)'
    BY <2>1, <2>2, <2>3, <2>4 DEF EscapeAt, SamePrefix
  <2> QED
    BY <2>2, <2>5 DEF EscapeInv
<1>7. BufInv'
  BY <1>1 DEF BufInv, BufferHoldsPrefix, Fits
<1> QED
  BY <1>4, <1>5, <1>6, <1>7 DEF FmtInv

\* The conversions.
LEMMA ConvertedStep ==
  ASSUME FmtInv, NEW ch \in Chr, ch # NUL, InEscape(ch), NEW kind, kind # "none", NEW s \in Seq(Chr), NEW about,
         Converted(kind, s, about)
  PROVE  FmtInv'
<1>1. FmtType /\ FmtRead /\ EscapeInv /\ BufInv /\ pc = "escape" /\ pc # "done" /\ pc \notin {"call", "done"}
  BY DEF FmtInv, InEscape
<1>2. /\ fmt' \in Seq(Chr) /\ i \in 1 .. Len(fmt') /\ fmt'[i] = ch
      /\ \A k \in 1 .. Len(fmt') - 1 : fmt'[k] # NUL
      /\ ch # NUL /\ i = Len(fmt') => \A k \in 1 .. Len(fmt') : fmt'[k] # NUL
  BY <1>1, Fetched DEF InEscape
<1>3. /\ out' \in Seq(Chr) /\ cnt' = Len(out')
      /\ buf' \in Seq(Chr)
      /\ sink = "buffer" => size > 0 /\ buf' = Fits(out')
  BY <1>1, Put DEF Converted
<1>4. pc' = "text" /\ i' = i + 1 /\ UNCHANGED <<padc, width, precision, sink, size, ret>>
  BY DEF Converted, escape, target
<1>5. conv'.kind = kind
  BY DEF Converted
<1>6. conv' # NoConv
  BY <1>5 DEF NoConv
<1>7. FmtType'
  BY <1>1, <1>2, <1>3, <1>4 DEF FmtType
<1>8. FmtRead'
  BY <1>1, <1>2, <1>4 DEF FmtRead, FmtType
<1>9. EscapeInv'
  BY <1>4, <1>6 DEF EscapeInv
<1>10. BufInv'
  BY <1>3, <1>4 DEF BufInv, BufferHoldsPrefix, Fits
<1> QED
  BY <1>7, <1>8, <1>9, <1>10 DEF FmtInv

\* The assumptions on the constants, one by one.
LEMMA FmtConstants ==
  /\ INT \in Nat \ {0} /\ LONG \in Nat \ {0} /\ INT % 2 = 0 /\ LONG % INT = 0
  /\ \A w \in Words : w \in 0 .. LONG - 1
  /\ \A z \in Sizes : z \in Nat
  /\ \A ch \in Escapes : ch \in Chr
  /\ \A p \in Strs : p \in Seq(STRING)
<1>1. INT \in Nat \ {0} /\ LONG \in Nat \ {0} /\ INT % 2 = 0 /\ LONG % INT = 0
  BY FormatConstants
<1>2. /\ \A w \in Words : w \in 0 .. LONG - 1
      /\ \A z \in Sizes : z \in Nat
      /\ \A p \in Strs : p \in Seq(STRING)
  BY FormatConstants, Zenon
<1>3. \A ch \in Escapes : ch \in STRING
  BY FormatConstants, Zenon
<1> QED
  BY <1>1, <1>2, <1>3 DEF Chr

\* The state before the call of vsnprintf or vcprintf.
LEMMA FmtInitially == FmtInit => FmtInv
<1> SUFFICES ASSUME FmtInit PROVE FmtInv
  OBVIOUS
<1>1. FmtType
  <2>1. " " \in Chr
    BY DEF Chr
  <2>2. size \in Nat /\ sink \in {"console", "buffer"}
    <3>1. \A z \in Sizes : z \in Nat
      BY FmtConstants, Zenon
    <3>2. (sink = "console" /\ size = 0) \/ (sink = "buffer" /\ size \in Sizes)
      BY DEF FmtInit
    <3> QED
      BY <3>1, <3>2
  <2>3. <<>> \in Seq(Chr) /\ Len(<<>>) = 0
    BY EmptySeq
  <2> QED
    <3>1. /\ fmt = <<>> /\ i = 1 /\ pc = "call" /\ padc = " " /\ width = -1 /\ precision = -1
          /\ buf = <<>> /\ cnt = 0 /\ ret = 0 /\ out = <<>>
      BY Zenon DEF FmtInit
    <3>2. width = -1 /\ precision = -1 /\ i = 1 /\ cnt = 0 /\ ret = 0 /\ pc = "call"
      BY <3>1, Zenon
    <3>3. fmt \in Seq(Chr) /\ out \in Seq(Chr) /\ buf \in Seq(Chr) /\ padc \in Chr
      BY <2>1, <2>3, <3>1, Zenon
    <3>4. Len(out) = 0
      BY <2>3, <3>1, Zenon
    <3> QED
      BY <2>2, <3>2, <3>3, <3>4 DEF FmtType
<1>2. FmtRead
  <2>1. Len(<<>>) = 0 /\ 1 .. 0 - 1 = {} /\ 1 .. 0 = {}
    BY EmptySeq
  <2>2. fmt = <<>> /\ i = 1 /\ pc = "call" /\ out = <<>> /\ buf = <<>> /\ conv = NoConv
    BY DEF FmtInit
  <2> QED
    BY <2>1, <2>2 DEF FmtRead
<1>3. EscapeInv /\ BufInv
  BY DEF FmtInit, EscapeInv, BufInv, BufferHoldsPrefix
<1> QED
  BY <1>1, <1>2, <1>3 DEF FmtInv

\* The call itself: a buffer without room for the '\0' is turned away.
LEMMA CallStep ==
  ASSUME FmtInv, Call
  PROVE  FmtInv'
<1>1. FmtType /\ FmtRead /\ EscapeInv /\ BufInv /\ pc = "call"
  BY DEF FmtInv, Call
<1>2. fmt = <<>> /\ i = 1 /\ out = <<>> /\ buf = <<>> /\ conv = NoConv /\ Len(out) = 0 /\ Len(fmt) = 0
  BY <1>1 DEF FmtRead
<1>3. UNCHANGED <<fmt, i, padc, width, precision, sink, size, buf, cnt, out, conv>>
  BY DEF Call, escape, output
<1>4. \/ pc' = "done" /\ ret' = -E_INVAL /\ sink = "buffer" /\ size = 0
      \/ pc' = "text" /\ ret' = ret /\ ~(sink = "buffer" /\ size = 0)
  BY DEF Call
<1>5. FmtType'
  BY <1>1, <1>3, <1>4 DEF FmtType, E_INVAL
<1>6. FmtRead'
  BY <1>1, <1>2, <1>3, <1>4 DEF FmtRead
<1>7. EscapeInv'
  BY <1>2, <1>3, <1>4 DEF EscapeInv, SamePrefix, E_INVAL
<1>8. BufInv'
  <2>1. ASSUME sink = "buffer", size > 0 PROVE Fits(out) = <<>>
    <3>1. size \in Nat /\ out \in Seq(Chr)
      BY <1>1 DEF FmtType
    <3>2. Fits(out) \in Seq(Chr) /\ Len(Fits(out)) = MinOf(Len(out), size - 1)
      BY <2>1, <3>1, FitsIs
    <3>3. Len(Fits(out)) = 0
      BY <1>2, <2>1, <3>1, <3>2 DEF MinOf
    <3> QED
      BY <3>2, <3>3, EmptySeq
  <2>2. size \in Nat
    BY <1>1 DEF FmtType
  <2>3. CASE pc' = "done"
    BY <1>2, <1>3, <1>4, <2>3 DEF BufInv, BufferHoldsPrefix, E_INVAL
  <2>4. CASE pc' = "text"
    <3>1. sink = "buffer" => size > 0
      BY <1>4, <2>2, <2>4
    <3> QED
      BY <1>2, <1>3, <2>1, <2>4, <3>1 DEF BufInv, BufferHoldsPrefix, Fits
  <2> QED
    BY <1>4, <2>3, <2>4
<1> QED
  BY <1>5, <1>6, <1>7, <1>8 DEF FmtInv

\* The end of the format.
LEMMA EndStep ==
  ASSUME FmtInv, pc = "text", Fetch(NUL, {"%", "t"}), pc' = "done", ret' = cnt, i' = i + 1,
         buf' = IF sink = "buffer" THEN Append(buf, NUL) ELSE buf,
         UNCHANGED <<padc, width, precision, cnt, out, sink, size, conv>>
  PROVE  FmtInv'
<1>1. FmtType /\ FmtRead /\ EscapeInv /\ BufInv /\ pc # "done" /\ NUL \in Chr
  BY DEF FmtInv, Chr
<1>2. /\ fmt' \in Seq(Chr) /\ i \in 1 .. Len(fmt') /\ fmt'[i] = NUL
      /\ Len(fmt) <= Len(fmt') /\ SamePrefix(fmt', fmt, Len(fmt)) /\ i - 1 <= Len(fmt)
      /\ \A k \in 1 .. Len(fmt') - 1 : fmt'[k] # NUL
      /\ i = Len(fmt')
  BY <1>1, Fetched
<1>3. out \in Seq(Chr) /\ Len(out) \in Nat /\ i \in Nat \ {0} /\ cnt = Len(out) /\ buf \in Seq(Chr)
  BY <1>1 DEF FmtType
<1>4. Append(buf, NUL) \in Seq(Chr)
  BY <1>1, <1>3, AppendProperties
<1>5. FmtType'
  BY <1>1, <1>2, <1>3, <1>4 DEF FmtType
<1>6. FmtRead'
  BY <1>2 DEF FmtRead
<1>7. EscapeInv'
  <2>1. ASSUME conv = NoConv PROVE Append(out, NUL) = fmt'
    <3> DEFINE a == Append(out, NUL)
    <3>1. Len(out) = i - 1 /\ SamePrefix(out, fmt, i - 1)
      BY <1>1, <2>1 DEF EscapeInv
    <3>2. a \in Seq(Chr) /\ Len(a) = Len(out) + 1 /\ a[Len(out) + 1] = NUL /\ \A k \in 1 .. Len(out) : a[k] = out[k]
      BY <1>1, <1>3, AppendProperties
    <3> HIDE DEF a
    <3>3. Len(a) = Len(fmt') /\ Len(a) = i
      BY <1>2, <1>3, <3>1, <3>2
    <3>4. ASSUME NEW k \in 1 .. Len(a) PROVE a[k] = fmt'[k]
      <4>1. CASE k = i
        BY <1>2, <1>3, <3>1, <3>2, <4>1
      <4>2. CASE k # i
        <5>1. k \in 1 .. i - 1 /\ k \in 1 .. Len(out) /\ k \in 1 .. Len(fmt)
          BY <1>2, <1>3, <3>1, <3>3, <4>2
        <5> QED
          BY <1>2, <3>1, <3>2, <5>1 DEF SamePrefix
      <4> QED
        BY <4>1, <4>2
    <3>5. a = fmt'
      BY <1>2, <3>2, <3>3, <3>4, SeqEqual
    <3> QED
      BY <3>5 DEF a
  <2> QED
    BY <2>1 DEF EscapeInv
<1>8. BufInv'
  <2>1. sink = "buffer" => size > 0 /\ buf = Fits(out)
    BY <1>1 DEF BufInv
  <2>2. ~(sink = "buffer" /\ size = 0)
    BY <1>1, <2>1 DEF FmtType
  <2>3. sink = "buffer" => buf' = Append(SubSeq(out, 1, MinOf(Len(out), size - 1)), NUL)
    BY <2>1 DEF Fits
  <2> QED
    BY <1>3, <2>2, <2>3 DEF BufInv, BufferHoldsPrefix
<1> QED
  BY <1>5, <1>6, <1>7, <1>8 DEF FmtInv

\* A '%' outside an escape sequence.
LEMMA BeginStep ==
  ASSUME FmtInv, pc = "text", Fetch("%", {"%", "t"}), pc' = "escape", i' = i + 1,
         padc' \in Chr, width' \in Int, precision' \in Int,
         UNCHANGED <<buf, cnt, out, ret, sink, size, conv>>
  PROVE  FmtInv'
<1>1. FmtType /\ FmtRead /\ EscapeInv /\ BufInv /\ pc # "done" /\ "%" \in Chr /\ "%" # NUL
  BY DEF FmtInv, Chr, NUL
<1>2. /\ fmt' \in Seq(Chr) /\ i \in 1 .. Len(fmt') /\ fmt'[i] = "%"
      /\ Len(fmt) <= Len(fmt') /\ SamePrefix(fmt', fmt, Len(fmt)) /\ i - 1 <= Len(fmt)
      /\ \A k \in 1 .. Len(fmt') - 1 : fmt'[k] # NUL
      /\ i = Len(fmt') => \A k \in 1 .. Len(fmt') : fmt'[k] # NUL
  BY <1>1, Fetched
<1>3. out \in Seq(Chr) /\ Len(out) \in Nat /\ i \in Nat \ {0} /\ Len(fmt) \in Nat /\ Len(fmt') \in Nat
  BY <1>1, <1>2 DEF FmtType
<1>4. FmtType'
  BY <1>1, <1>2, <1>3 DEF FmtType
<1>5. FmtRead'
  BY <1>2, <1>3 DEF FmtRead
<1>6. EscapeInv'
  <2>1. i \in 1 .. i' - 1 /\ i + 1 .. i' - 1 = {}
    BY <1>3
  <2>2. conv = NoConv => Len(out) = i - 1 /\ SamePrefix(out, fmt', i - 1)
    BY <1>1, <1>2, <1>3 DEF EscapeInv, SamePrefix
  <2>3. \E j \in 1 .. i' - 1 : EscapeAt(j)'
    <3>1. /\ fmt'[i] = "%" /\ \A h \in i + 1 .. i' - 1 : fmt'[h] # "%"
          /\ conv' = NoConv => Len(out') = i - 1 /\ SamePrefix(out', fmt', i - 1)
      BY <1>2, <2>1, <2>2
    <3> QED
      BY <2>1, <3>1 DEF EscapeAt, SamePrefix
  <2> QED
    BY <2>3 DEF EscapeInv
<1>7. BufInv'
  BY <1>1 DEF BufInv, BufferHoldsPrefix, Fits
<1> QED
  BY <1>4, <1>5, <1>6, <1>7 DEF FmtInv

\* Any other character.
LEMMA CharStep ==
  ASSUME FmtInv, pc = "text", NEW ch \in Chr, ch # NUL, Fetch(ch, {"%", "t"}), putch(<<ch>>), i' = i + 1,
         UNCHANGED <<pc, padc, width, precision, ret, sink, size, conv>>
  PROVE  FmtInv'
<1>1. FmtType /\ FmtRead /\ EscapeInv /\ BufInv /\ pc # "done" /\ pc \notin {"call", "done"}
  BY DEF FmtInv
<1>2. /\ fmt' \in Seq(Chr) /\ i \in 1 .. Len(fmt') /\ fmt'[i] = ch
      /\ Len(fmt) <= Len(fmt') /\ SamePrefix(fmt', fmt, Len(fmt)) /\ i - 1 <= Len(fmt)
      /\ \A k \in 1 .. Len(fmt') - 1 : fmt'[k] # NUL
      /\ i = Len(fmt') => \A k \in 1 .. Len(fmt') : fmt'[k] # NUL
  BY <1>1, Fetched
<1>3. <<ch>> \in Seq(Chr) /\ Len(<<ch>>) = 1 /\ <<ch>>[1] = ch
  OBVIOUS
<1>4. /\ out' \in Seq(Chr) /\ cnt' = Len(out') /\ Len(out') = Len(out) + Len(<<ch>>)
      /\ SamePrefix(out', out, Len(out)) /\ \A k \in 1 .. Len(<<ch>>) : out'[Len(out) + k] = <<ch>>[k]
      /\ buf' \in Seq(Chr)
      /\ sink = "buffer" => size > 0 /\ buf' = Fits(out')
  BY <1>1, <1>3, Put
<1>5. Len(out') = Len(out) + 1 /\ out'[Len(out) + 1] = ch
  BY <1>3, <1>4
<1>6. out \in Seq(Chr) /\ Len(out) \in Nat /\ i \in Nat \ {0} /\ Len(fmt) \in Nat /\ Len(fmt') \in Nat
  BY <1>1, <1>2, SMTT(30) DEF FmtType
<1>7. FmtType'
  BY <1>1, <1>2, <1>4, <1>6, SMTT(30) DEF FmtType
<1>8. FmtRead'
  BY <1>2, <1>6 DEF FmtRead
<1>9. EscapeInv'
  <2>1. ASSUME conv = NoConv PROVE Len(out') = i /\ SamePrefix(out', fmt', i)
    <3>1. Len(out) = i - 1 /\ SamePrefix(out, fmt, i - 1)
      BY <1>1, <2>1 DEF EscapeInv
    <3>2. ASSUME NEW k \in 1 .. i PROVE out'[k] = fmt'[k]
      <4>1. CASE k = i
        BY <1>2, <1>5, <1>6, <3>1, <4>1
      <4>2. CASE k # i
        <5>1. k \in 1 .. i - 1 /\ k \in 1 .. Len(out) /\ k \in 1 .. Len(fmt)
          BY <1>2, <1>6, <3>1, <4>2
        <5> QED
          BY <1>2, <1>4, <3>1, <5>1 DEF SamePrefix
      <4> QED
        BY <4>1, <4>2
    <3> QED
      BY <1>5, <1>6, <3>1, <3>2 DEF SamePrefix
  <2>2. i' - 1 = i
    BY <1>6
  <2> QED
    BY <1>1, <2>1, <2>2 DEF EscapeInv, SamePrefix
<1>10. BufInv'
  BY <1>1, <1>4 DEF BufInv, BufferHoldsPrefix, Fits
<1> QED
  BY <1>7, <1>8, <1>9, <1>10 DEF FmtInv

\* The characters outside escape sequences: the three cases above.
LEMMA TextStep ==
  ASSUME FmtInv, Text
  PROVE  FmtInv'
<1>1. PICK ch \in Escapes \cup {"%", "t", NUL} :
       /\ Fetch(ch, {"%", "t"})
       /\ \/ /\ ch = NUL
             /\ pc' = "done" /\ ret' = cnt
             /\ buf' = IF sink = "buffer" THEN Append(buf, NUL) ELSE buf
             /\ UNCHANGED <<escape, cnt, out>>
          \/ /\ ch = "%"
             /\ pc' = "escape"
             /\ padc' = " " /\ width' = -1 /\ precision' = -1 /\ lflag' = 0 /\ altflag' = FALSE
             /\ UNCHANGED <<output, ret>>
          \/ /\ ch \notin {NUL, "%"}
             /\ putch(<<ch>>)
             /\ UNCHANGED <<pc, escape, ret>>
  BY DEF Text
<1>2. pc = "text" /\ i' = i + 1 /\ UNCHANGED <<sink, size, conv>>
  BY DEF Text
<1>3. ch \in Chr /\ " " \in Chr /\ -1 \in Int
  <2>1. \A c \in Escapes : c \in Chr
    BY FmtConstants, Zenon
  <2>2. " " \in Chr /\ "%" \in Chr /\ "t" \in Chr /\ NUL \in Chr
    BY DEF Chr
  <2>3. ch \in Chr
    BY <2>1, <2>2
  <2>4. -1 \in Int
    OBVIOUS
  <2> QED
    BY <2>2, <2>3, <2>4, Zenon
<1>4. CASE ch = NUL
  <2>1. "%" # NUL
    BY DEF NUL
  <2> QED
    BY <1>1, <1>2, <1>4, <2>1, EndStep DEF escape
<1>5. CASE ch = "%"
  <2>1. "%" # NUL
    BY DEF NUL
  <2> QED
    BY <1>1, <1>2, <1>3, <1>5, <2>1, BeginStep DEF output
<1>6. CASE ch \notin {NUL, "%"}
  BY <1>1, <1>2, <1>3, <1>6, CharStep DEF escape
<1> QED
  BY <1>4, <1>5, <1>6

\* An unknown escape sequence: going back to the character after the '%'
\* leaves output and format in step.
LEMMA UnknownStep ==
  ASSUME FmtInv, Unknown
  PROVE  FmtInv'
<1>1. PICK ch \in (Escapes \cup {NUL}) \ Known : InEscape(ch)
  BY DEF Unknown
<1>2. FmtType /\ FmtRead /\ EscapeInv /\ BufInv /\ pc = "escape" /\ pc # "done" /\ pc \notin {"call", "done"}
  BY <1>1 DEF FmtInv, InEscape
<1>3. ch \in Chr /\ Fetch(ch, Escapes) /\ "%" \in Chr
  BY <1>1, FmtConstants DEF Chr, InEscape
<1>4. /\ fmt' \in Seq(Chr) /\ i \in 1 .. Len(fmt') /\ fmt'[i] = ch
      /\ Len(fmt) <= Len(fmt') /\ SamePrefix(fmt', fmt, Len(fmt)) /\ i - 1 <= Len(fmt)
      /\ \A k \in 1 .. Len(fmt') - 1 : fmt'[k] # NUL
  BY <1>2, <1>3, Fetched
<1>5. <<"%">> \in Seq(Chr) /\ Len(<<"%">>) = 1 /\ <<"%">>[1] = "%"
  BY <1>3
<1>6. putch(<<"%">>) /\ pc' = "text" /\ UNCHANGED <<padc, width, precision, sink, size, ret, conv>>
  BY DEF Unknown, escape, target
<1>7. /\ out' \in Seq(Chr) /\ cnt' = Len(out') /\ Len(out') = Len(out) + Len(<<"%">>)
      /\ SamePrefix(out', out, Len(out)) /\ \A k \in 1 .. Len(<<"%">>) : out'[Len(out) + k] = <<"%">>[k]
      /\ buf' \in Seq(Chr)
      /\ sink = "buffer" => size > 0 /\ buf' = Fits(out')
  BY <1>2, <1>5, <1>6, Put
<1>8. Len(out') = Len(out) + 1 /\ out'[Len(out) + 1] = "%"
  BY <1>5, <1>7
<1>9. out \in Seq(Chr) /\ Len(out) \in Nat /\ i \in Nat \ {0} /\ Len(fmt) \in Nat /\ Len(fmt') \in Nat
  BY <1>2, <1>4 DEF FmtType
<1>10. PICK j \in 1 .. i - 1 : EscapeAt(j)
  BY <1>2 DEF EscapeInv
<1>11. j \in Nat /\ 1 <= j /\ j <= i - 1 /\ j <= Len(fmt)
  BY <1>4, <1>9
<1>12. i' = j + 1
  <2> DEFINE L(h) == fmt[h] = "%" /\ \A k \in h + 1 .. i - 1 : fmt[k] # "%"
  <2>1. L(j)
    BY <1>10 DEF EscapeAt
  <2>2. ASSUME NEW h \in 1 .. i - 1, L(h) PROVE h = j
    <3>1. CASE h < j
      BY <1>9, <1>11, <2>1, <2>2, <3>1
    <3>2. CASE h > j
      BY <1>9, <1>11, <2>1, <2>2, <3>2
    <3> QED
      BY <1>9, <1>11, <3>1, <3>2
  <2>3. i' = 1 + CHOOSE h \in 1 .. i - 1 : L(h)
    BY DEF Unknown
  <2>4. (CHOOSE h \in 1 .. i - 1 : L(h)) = j
    <3> HIDE DEF L
    <3> QED
      BY <1>10, <2>1, <2>2
  <2> DEFINE c == CHOOSE h \in 1 .. i - 1 : L(h)
  <2>5. i' = 1 + c /\ c = j
    BY <2>3, <2>4
  <2> HIDE DEF c
  <2> QED
    BY <1>11, <2>5
<1>13. i' \in Nat \ {0} /\ i' <= i /\ i' <= Len(fmt')
  BY <1>4, <1>9, <1>11, <1>12
<1>14. FmtType'
  BY <1>2, <1>4, <1>6, <1>7, <1>13 DEF FmtType
<1>15. FmtRead'
  BY <1>4, <1>6, <1>9, <1>13 DEF FmtRead
<1>16. EscapeInv'
  <2>1. ASSUME conv = NoConv PROVE Len(out') = j /\ SamePrefix(out', fmt', j)
    <3>1. Len(out) = j - 1 /\ SamePrefix(out, fmt, j - 1) /\ fmt[j] = "%"
      BY <1>10, <2>1 DEF EscapeAt
    <3>2. ASSUME NEW k \in 1 .. j PROVE out'[k] = fmt'[k]
      <4>1. fmt'[k] = fmt[k]
        BY <1>4, <1>11 DEF SamePrefix
      <4>2. CASE k = j
        BY <1>8, <1>9, <1>11, <3>1, <4>1, <4>2
      <4>3. CASE k # j
        <5>1. k \in 1 .. j - 1 /\ k \in 1 .. Len(out)
          BY <1>11, <3>1, <4>3
        <5> QED
          BY <1>7, <3>1, <4>1, <5>1 DEF SamePrefix
      <4> QED
        BY <4>2, <4>3
    <3> QED
      BY <1>8, <1>9, <1>11, <3>1, <3>2 DEF SamePrefix
  <2>2. i' - 1 = j
    BY <1>11, <1>12
  <2> QED
    BY <1>6, <2>1, <2>2 DEF EscapeInv, SamePrefix
<1>17. BufInv'
  BY <1>6, <1>7 DEF BufInv, BufferHoldsPrefix, Fits
<1> QED
  BY <1>14, <1>15, <1>16, <1>17 DEF FmtInv

\* The powers of b, all or up to the n-th.
IsPower(f, b) == f = [k \in Nat |-> IF k = 0 THEN 1 ELSE b * f[k - 1]]
PowerUpTo(f, b, n) == f = [k \in 0 .. n |-> IF k = 0 THEN 1 ELSE b * f[k - 1]]

\* The powers of b up to the n-th are defined.
LEMMA PowerFinite ==
  ASSUME NEW b \in Nat
  PROVE  \A n \in Nat : \E f : PowerUpTo(f, b, n)
<1> DEFINE S == {n \in Nat : \E f : PowerUpTo(f, b, n)}
<1>1. 0 \in S
  <2> DEFINE f == [k \in 0 .. 0 |-> 1]
  <2>1. PowerUpTo(f, b, 0)
    BY DEF PowerUpTo
  <2> HIDE DEF f
  <2> QED
    BY <2>1
<1>2. ASSUME NEW n \in Nat, n \in S PROVE n + 1 \in S
  <2>1. PICK f : PowerUpTo(f, b, n)
    BY <1>2
  <2> DEFINE g == [k \in 0 .. n + 1 |-> IF k = n + 1 THEN b * f[n] ELSE f[k]]
  <2>2. \A k \in 0 .. n : g[k] = f[k]
    OBVIOUS
  <2>3. \A k \in 0 .. n : f[k] = IF k = 0 THEN 1 ELSE b * f[k - 1]
    BY <2>1 DEF PowerUpTo
  <2>4. g[n + 1] = b * g[n]
    BY <2>2
  <2>5. g = [k \in 0 .. n + 1 |-> g[k]]
    OBVIOUS
  <2> HIDE DEF g
  <2>6. ASSUME NEW k \in 0 .. n + 1 PROVE g[k] = IF k = 0 THEN 1 ELSE b * g[k - 1]
    <3>1. CASE k = n + 1
      <4>1. k # 0 /\ k - 1 = n
        BY <3>1
      <4> QED
        BY <2>4, <3>1, <4>1
    <3>2. CASE k # n + 1
      <4>1. k \in 0 .. n /\ (k # 0 => k - 1 \in 0 .. n)
        BY <3>2
      <4>2. k # 0 => g[k - 1] = f[k - 1]
        BY <2>2, <4>1
      <4> QED
        BY <2>2, <2>3, <4>1, <4>2
    <3> QED
      BY <3>1, <3>2
  <2>7. PowerUpTo(g, b, n + 1)
    BY <2>5, <2>6 DEF PowerUpTo
  <2> QED
    BY <2>7
<1>3. Nat \subseteq S
  <2> HIDE DEF S
  <2> QED
    BY <1>1, <1>2, Induct
<1> QED
  BY <1>3

\* Two functions for the powers of b agree.
LEMMA PowerUnique ==
  ASSUME NEW b \in Nat, NEW m \in Nat, NEW n \in Nat, NEW f, NEW g, PowerUpTo(f, b, m), PowerUpTo(g, b, n)
  PROVE  \A k \in Nat : k <= m /\ k <= n => f[k] = g[k]
<1> DEFINE S == {k \in Nat : k <= m /\ k <= n => f[k] = g[k]}
<1>1. \A k \in 0 .. m : f[k] = IF k = 0 THEN 1 ELSE b * f[k - 1]
  BY DEF PowerUpTo
<1>2. \A k \in 0 .. n : g[k] = IF k = 0 THEN 1 ELSE b * g[k - 1]
  BY DEF PowerUpTo
<1>3. 0 \in S
  BY <1>1, <1>2
<1>4. ASSUME NEW k \in Nat, k \in S PROVE k + 1 \in S
  <2> SUFFICES ASSUME k + 1 <= m, k + 1 <= n PROVE f[k + 1] = g[k + 1]
    OBVIOUS
  <2>1. k + 1 \in 0 .. m /\ k + 1 \in 0 .. n /\ k + 1 # 0 /\ (k + 1) - 1 = k /\ k <= m /\ k <= n
    OBVIOUS
  <2>2. f[k] = g[k]
    BY <1>4, <2>1
  <2>3. f[k + 1] = b * f[k] /\ g[k + 1] = b * g[k]
    BY <1>1, <1>2, <2>1
  <2> QED
    BY <2>2, <2>3
<1>5. Nat \subseteq S
  <2> HIDE DEF S
  <2> QED
    BY <1>3, <1>4, Induct
<1> QED
  BY <1>5

\* b to the power of.
Power(b) == CHOOSE f : IsPower(f, b)

\* The recursive definition of the powers defines something.
LEMMA PowerExists ==
  ASSUME NEW b \in Nat
  PROVE  IsPower(Power(b), b)
<1> DEFINE A(n) == CHOOSE f : PowerUpTo(f, b, n)
           p == [k \in Nat |-> A(k)[k]]
<1>1. ASSUME NEW n \in Nat PROVE PowerUpTo(A(n), b, n)
  BY PowerFinite
<1>2. \A k \in Nat : p[k] = A(k)[k]
  OBVIOUS
<1>3. p = [k \in Nat |-> p[k]]
  OBVIOUS
<1> HIDE DEF p, A
<1>4. ASSUME NEW k \in Nat PROVE p[k] = IF k = 0 THEN 1 ELSE b * p[k - 1]
  <2>1. A(k)[k] = IF k = 0 THEN 1 ELSE b * A(k)[k - 1]
    BY <1>1 DEF PowerUpTo
  <2>2. ASSUME k # 0 PROVE A(k)[k - 1] = p[k - 1]
    <3> DEFINE q == k - 1
    <3>1. q \in Nat /\ q <= k /\ q <= q
      BY <2>2
    <3>2. PowerUpTo(A(k), b, k) /\ PowerUpTo(A(q), b, q)
      BY <1>1, <3>1
    <3> HIDE DEF q
    <3>3. \A j \in Nat : j <= k /\ j <= q => A(k)[j] = A(q)[j]
      BY <3>1, <3>2, PowerUnique
    <3>4. A(k)[q] = p[q]
      BY <1>2, <3>1, <3>3
    <3> QED
      BY <3>4 DEF q
  <2> QED
    BY <1>2, <2>1, <2>2
<1>5. IsPower(p, b)
  BY <1>3, <1>4 DEF IsPower
<1> QED
  BY <1>5, Zenon DEF Power

\* The powers of a base of at least two: positive, and none smaller than the
\* one before.
LEMMA PowerIs ==
  ASSUME NEW b \in Nat, b >= 2
  PROVE  /\ Power(b)[0] = 1 /\ Power(b)[1] = b
         /\ \A k \in Nat : Power(b)[k + 1] = b * Power(b)[k]
         /\ \A k \in Nat : Power(b)[k] \in Nat \ {0} /\ Power(b)[k] <= Power(b)[k + 1]
<1> DEFINE p == Power(b)
           S == {k \in Nat : p[k] \in Nat \ {0}}
<1>1. \A k \in Nat : p[k] = IF k = 0 THEN 1 ELSE b * p[k - 1]
  <2>1. ASSUME NEW f, IsPower(f, b) PROVE \A k \in Nat : f[k] = IF k = 0 THEN 1 ELSE b * f[k - 1]
    BY <2>1 DEF IsPower
  <2> QED
    BY <2>1, PowerExists
<1> HIDE DEF p
<1>2. p[0] = 1
  BY <1>1
<1>3. ASSUME NEW k \in Nat PROVE p[k + 1] = b * p[k]
  <2>1. k + 1 \in Nat /\ k + 1 # 0 /\ (k + 1) - 1 = k
    OBVIOUS
  <2> QED
    BY <1>1, <2>1
<1>4. p[1] = b
  <2>1. p[0 + 1] = b * p[0] /\ 0 + 1 = 1
    BY <1>3
  <2> QED
    BY <1>2, <2>1
<1>5. Nat \subseteq S
  <2>1. 0 \in S
    BY <1>2
  <2>2. ASSUME NEW k \in Nat, k \in S PROVE k + 1 \in S
    <3>1. p[k] \in Nat /\ p[k] > 0 /\ p[k + 1] = b * p[k]
      BY <1>3, <2>2
    <3>2. b * p[k] \in Nat /\ b * p[k] > 0
      BY <3>1
    <3> QED
      BY <3>1, <3>2
  <2> HIDE DEF S
  <2> QED
    BY <2>1, <2>2, Induct
<1>6. ASSUME NEW k \in Nat PROVE p[k] \in Nat \ {0} /\ p[k] <= p[k + 1]
  <2>1. p[k] \in Nat \ {0} /\ p[k + 1] = b * p[k]
    BY <1>3, <1>5
  <2>2. b * p[k] >= p[k]
    BY <2>1
  <2> QED
    BY <2>1, <2>2
<1> QED
  BY <1>2, <1>3, <1>4, <1>6 DEF p

\* A higher power is no smaller.
LEMMA PowerGrows ==
  ASSUME NEW b \in Nat, b >= 2, NEW m \in Nat
  PROVE  \A n \in Nat : Power(b)[m] <= Power(b)[m + n]
<1> DEFINE p == Power(b)
           S == {n \in Nat : p[m] <= p[m + n]}
<1>1. \A k \in Nat : p[k] \in Nat \ {0} /\ p[k] <= p[k + 1]
  BY PowerIs
<1> HIDE DEF p
<1>2. 0 \in S
  <2>1. m + 0 = m /\ p[m] \in Nat
    BY <1>1
  <2> QED
    BY <2>1
<1>3. ASSUME NEW n \in Nat, n \in S PROVE n + 1 \in S
  <2>1. m + (n + 1) = (m + n) + 1 /\ m + n \in Nat /\ (m + n) + 1 \in Nat
    OBVIOUS
  <2>2. p[m + n] <= p[(m + n) + 1] /\ p[m + n] \in Nat /\ p[(m + n) + 1] \in Nat /\ p[m] \in Nat
    BY <1>1, <2>1
  <2>3. p[m] <= p[m + n]
    BY <1>3
  <2>4. p[m] <= p[(m + n) + 1]
    BY <2>2, <2>3
  <2> QED
    BY <2>1, <2>4
<1>4. Nat \subseteq S
  <2> HIDE DEF S
  <2> QED
    BY <1>2, <1>3, Induct
<1> QED
  BY <1>4 DEF p

\* Dividing by b and comparing with x is comparing with b * x.
LEMMA DivLess ==
  ASSUME NEW v \in Nat, NEW b \in Nat, b >= 2, NEW x \in Nat
  PROVE  v \div b < x <=> v < b * x
<1> DEFINE q == v \div b
           r == v % b
<1>1. q \in Nat /\ r \in 0 .. b - 1 /\ v = b * q + r
  BY Quotient
<1> HIDE DEF q, r
<1>2. ASSUME q < x PROVE v < b * x
  <2>1. b * (q + 1) <= b * x
    BY <1>1, <1>2
  <2>2. b * (q + 1) = b * q + b
    BY <1>1
  <2> QED
    BY <1>1, <2>1, <2>2
<1>3. ASSUME q >= x PROVE v >= b * x
  <2>1. b * q >= b * x
    BY <1>1, <1>3
  <2> QED
    BY <1>1, <2>1
<1>4. q < x <=> v < b * x
  BY <1>1, <1>2, <1>3
<1> QED
  BY <1>4 DEF q

\* k has n digits.
HasDigits(k, b, n) == k < Power(b)[n] /\ (n = 1 \/ k >= Power(b)[n - 1])

\* A number has only one number of digits.
LEMMA DigitsOnce ==
  ASSUME NEW k \in Nat, NEW b \in Nat, b >= 2, NEW m \in Nat \ {0}, NEW n \in Nat \ {0},
         HasDigits(k, b, m), HasDigits(k, b, n)
  PROVE  m = n
<1> DEFINE p == Power(b)
<1>1. \A j \in Nat : p[j] \in Nat
  BY PowerIs
<1>2. ASSUME NEW x \in Nat \ {0}, NEW y \in Nat \ {0}, HasDigits(k, b, x), HasDigits(k, b, y), x < y PROVE FALSE
  <2>1. y # 1 /\ y - 1 \in Nat /\ y - 1 - x \in Nat /\ x + (y - 1 - x) = y - 1
    BY <1>2
  <2>2. k < p[x] /\ k >= p[y - 1]
    BY <1>2, <2>1 DEF HasDigits
  <2>3. p[x] <= p[x + (y - 1 - x)]
    BY <2>1, PowerGrows
  <2>4. p[x] \in Nat /\ p[y - 1] \in Nat
    BY <1>1, <2>1
  <2> HIDE DEF p
  <2> QED
    BY <2>1, <2>2, <2>3, <2>4
<1>3. ~(m < n) /\ ~(n < m)
  BY <1>2
<1> QED
  BY <1>3

\* By induction over the number: printnum prints as many digits as the number
\* has, and no more than its value.
LEMMA BareDigits ==
  ASSUME NEW base \in 2 .. 16, NEW pad \in Chr
  PROVE  \A k \in Nat : /\ HasDigits(k, base, Len(Bare(k, base, pad)))
                        /\ Len(Bare(k, base, pad)) \in Nat \ {0}
                        /\ Len(Bare(k, base, pad)) <= MaxOf(1, k)
<1> DEFINE L(k) == Len(Bare(k, base, pad))
           S == {k \in Nat : HasDigits(k, base, L(k)) /\ L(k) \in Nat \ {0} /\ L(k) <= MaxOf(1, k)}
           p == Power(base)
<1>1. /\ p[0] = 1 /\ p[1] = base
      /\ \A k \in Nat : p[k + 1] = base * p[k]
      /\ \A k \in Nat : p[k] \in Nat \ {0} /\ p[k] <= p[k + 1]
  BY PowerIs
<1>2. ASSUME NEW k \in Nat, \A j \in 0 .. k - 1 : j \in S PROVE k \in S
  <2>1. CASE k < base
    <3>1. Bare(k, base, pad) = <<LastDigit(k, base)>>
      BY <2>1, OneDigit
    <3>2. L(k) = 1
      BY <3>1
    <3>3. HasDigits(k, base, 1)
      BY <1>1, <2>1 DEF HasDigits
    <3>4. 1 <= MaxOf(1, k)
      BY DEF MaxOf
    <3> HIDE DEF L, p
    <3> QED
      BY <3>2, <3>3, <3>4
  <2>2. CASE k >= base
    <3> DEFINE q == k \div base
    <3>1. q \in Nat /\ q < k
      BY <2>2, Quotient
    <3>2. q \in 0 .. k - 1
      BY ONLY <3>1, k \in Nat
    <3>3. HasDigits(q, base, L(q)) /\ L(q) \in Nat \ {0} /\ L(q) <= MaxOf(1, q)
      BY <1>2, <3>2
    <3>4. L(k) = L(q) + 1
      <4>1. PaddedDigits(q, base, pad)
        BY <3>1, AllPadded
      <4>2. Bare(k, base, pad) = Bare(q, base, pad) \o <<LastDigit(k, base)>>
        BY <2>2, <4>1, MoreDigits
      <4>3. Bare(q, base, pad) \in Seq(Chr) /\ <<LastDigit(k, base)>> \in Seq(Chr) /\ Len(<<LastDigit(k, base)>>) = 1
        <5>1. LastDigit(k, base) \in Chr
          BY LastDigitIs
        <5>2. Bare(q, base, pad) \in Seq(Chr)
          BY <4>1 DEF PaddedDigits
        <5> HIDE DEF S, L, p, q
        <5> QED
          BY <5>1, <5>2
      <4>4. Len(Bare(q, base, pad) \o <<LastDigit(k, base)>>) = L(q) + 1
        BY <4>3, ConcatProperties
      <4> QED
        BY <4>2, <4>4
    <3>5. \A x \in Nat : q < x <=> k < base * x
      BY DivLess
    <3> DEFINE n == L(q)
    <3>6. n \in Nat \ {0} /\ q < p[n] /\ (n = 1 \/ q >= p[n - 1])
      BY <3>3 DEF HasDigits
    <3>7. k < p[n + 1]
      BY <1>1, <3>5, <3>6
    <3>8. k >= p[n]
      <4>1. CASE n = 1
        BY <1>1, <2>2, <4>1
      <4>2. CASE n # 1
        <5>1. n - 1 \in Nat /\ (n - 1) + 1 = n /\ q >= p[n - 1]
          BY <3>6, <4>2
        <5>2. p[n] = base * p[n - 1] /\ p[n - 1] \in Nat /\ p[n] \in Nat
          BY <1>1, <3>6, <5>1
        <5>3. ~(k < base * p[n - 1])
          BY <3>1, <3>5, <5>1, <5>2
        <5> QED
          BY <5>2, <5>3
      <4> QED
        BY <4>1, <4>2
    <3>9. n + 1 <= MaxOf(1, k)
      <4>1. n <= MaxOf(1, q)
        BY <3>3
      <4> HIDE DEF n, q, L
      <4> QED
        BY <2>2, <3>1, <3>6, <4>1 DEF MaxOf
    <3>10. L(k) = n + 1
      BY <3>4
    <3> HIDE DEF L, n, p, q
    <3>11. HasDigits(k, base, n + 1)
      <4>1. (n + 1) - 1 = n
        BY <3>6
      <4> QED
        BY <3>7, <3>8, <4>1 DEF HasDigits, p
    <3> QED
      BY <3>6, <3>9, <3>10, <3>11
  <2> QED
    BY <2>1, <2>2
<1>3. Nat \subseteq S
  <2> HIDE DEF S
  <2> QED
    BY <1>2, StrongInduct
<1> QED
  BY <1>3

\* NumDigits of the reference definition counts printnum's digits.
LEMMA NumDigitsIs ==
  ASSUME NEW v \in 0 .. LONG, NEW base \in 2 .. 16, NEW pad \in Chr
  PROVE  NumDigits(v, base) = Len(Bare(v, base, pad))
<1> DEFINE n == Len(Bare(v, base, pad))
<1>1. LONG \in Nat \ {0}
  BY FmtConstants, Zenon
<1>2. v \in Nat
  BY <1>1
<1>3. HasDigits(v, base, n) /\ n \in Nat \ {0} /\ n <= MaxOf(1, v)
  BY <1>2, BareDigits
<1> HIDE DEF n
<1>4. n \in 1 .. LONG
  BY <1>1, <1>3 DEF MaxOf
<1>5. NumDigits(v, base) = CHOOSE k \in 1 .. LONG : HasDigits(v, base, k)
  BY Zenon DEF NumDigits, HasDigits, Power, IsPower
<1>6. ASSUME NEW k \in 1 .. LONG, HasDigits(v, base, k) PROVE k = n
  <2>1. k \in Nat \ {0}
    BY <1>1
  <2> QED
    BY <1>2, <1>3, <1>6, <2>1, DigitsOnce
<1>7. (CHOOSE k \in 1 .. LONG : HasDigits(v, base, k)) = n
  BY <1>3, <1>4, <1>6
<1> QED
  BY <1>5, <1>7 DEF n

\* printnum prints exactly its width, or its digits if they are more.
LEMMA PrintnumLen ==
  ASSUME NEW num \in 0 .. LONG, NEW base \in 2 .. 16, NEW w \in Int, NEW pad \in Chr
  PROVE  /\ printnum(num, base, w, pad) \in Seq(Chr)
         /\ Len(printnum(num, base, w, pad)) = MaxOf(w, NumDigits(num, base))
<1>1. num \in Nat
  BY FmtConstants
<1>2. /\ printnum(num, base, w, pad) \in Seq(Chr)
      /\ Len(printnum(num, base, w, pad)) = MaxOf(w, Len(Bare(num, base, pad)))
  BY <1>1, PrintnumPads
<1>3. NumDigits(num, base) = Len(Bare(num, base, pad))
  BY NumDigitsIs
<1> QED
  BY <1>2, <1>3

-----------------------------------------------------------------------------
\* An int is no wider than a long and has as many negative values as others.
LEMMA LongHoldsInt == LONG \in Nat /\ INT \in Nat /\ INT > 0 /\ LONG >= INT /\ INT = 2 * (INT \div 2) /\ INT \div 2 \in Nat
<1>1. INT \in Nat \ {0} /\ LONG \in Nat \ {0} /\ INT % 2 = 0 /\ LONG % INT = 0
  BY FmtConstants, Zenon
<1>2. INT = 2 * (INT \div 2) /\ INT \div 2 \in Nat
  BY <1>1
<1>3. LONG >= INT
  <2> DEFINE q == LONG \div INT
  <2>1. q \in Int /\ LONG = INT * q + 0
    BY <1>1
  <2> HIDE DEF q
  <2>2. q # 0
    BY <1>1, <2>1
  <2>3. q > 0
    BY <1>1, <2>1
  <2> QED
    BY <1>1, <2>1, <2>3
<1> QED
  BY <1>1, <1>2, <1>3

\* The range of a word taken as a signed number.
LEMMA SignedIs ==
  ASSUME NEW w \in 0 .. LONG - 1, NEW m \in {INT, LONG}
  PROVE  /\ Signed(w, m) \in Int
         /\ Signed(w, m) >= 0 => Signed(w, m) < m \div 2
         /\ Signed(w, m) < 0 => Signed(w, m) + m \in 0 .. m - 1 /\ Signed(w, m) + m >= m \div 2
         /\ m = LONG => Signed(w, m) = IF w >= LONG \div 2 THEN w - LONG ELSE w
<1> DEFINE low == w % m
<1>1. m \in Nat \ {0} /\ LONG \in Nat \ {0}
  BY LongHoldsInt
<1>2. low \in 0 .. m - 1
  BY <1>1
<1>3. m = LONG => low = w
  BY <1>1
<1>4. Signed(w, m) = IF low >= m \div 2 THEN low - m ELSE low
  BY DEF Signed
<1>5. m \div 2 \in Nat
  BY <1>1
<1> HIDE DEF low
<1> QED
  BY <1>1, <1>2, <1>3, <1>4, <1>5

\* The magnitude and the sign that %d prints.
LEMMA DecimalValue ==
  ASSUME NEW w \in 0 .. LONG - 1
  PROVE  LET num == getint(w)
             neg == num >= LONG \div 2
             abs == IF neg THEN LONG - num ELSE num
             v   == Signed(w, IF lflag > 0 THEN LONG ELSE INT)
         IN  /\ v \in Int /\ abs \in 0 .. LONG - 1 /\ (neg <=> v < 0) /\ abs = IF v < 0 THEN -v ELSE v
             /\ num = v % LONG
<1> DEFINE num == getint(w)
           neg == num >= LONG \div 2
           abs == IF neg THEN LONG - num ELSE num
           v   == Signed(w, IF lflag > 0 THEN LONG ELSE INT)
<1>1. LONG \in Nat /\ INT \in Nat /\ INT > 0 /\ LONG >= INT /\ INT = 2 * (INT \div 2) /\ INT \div 2 \in Nat
  BY LongHoldsInt
<1>2. LONG \div 2 \in Nat \ {0} /\ INT \div 2 <= LONG \div 2 /\ LONG \div 2 + INT \div 2 <= LONG
  BY <1>1
<1>3. CASE lflag > 0
  <2>1. num = w /\ v = Signed(w, LONG)
    BY <1>3 DEF getint
  <2>2. v = IF w >= LONG \div 2 THEN w - LONG ELSE w
    BY <2>1, SignedIs
  <2>3. v \in Int /\ abs \in 0 .. LONG - 1 /\ (neg <=> v < 0) /\ abs = (IF v < 0 THEN -v ELSE v)
    BY <1>1, <1>2, <2>1, <2>2
  <2>4. v % LONG = w
    BY <1>1, <2>2
  <2> QED
    BY <2>1, <2>3, <2>4
<1>4. CASE ~(lflag > 0)
  <2>1. num = v % LONG /\ v = Signed(w, INT)
    BY <1>4 DEF getint, AsInt
  <2>2. /\ v \in Int
        /\ v >= 0 => v < INT \div 2
        /\ v < 0 => v + INT \in 0 .. INT - 1 /\ v + INT >= INT \div 2
    BY <2>1, SignedIs
  <2>3. v >= 0 => v % LONG = v
    <3> HIDE DEF v
    <3> QED
      BY <1>1, <1>2, <2>2
  <2>4. v < 0 => v % LONG = v + LONG
    <3> HIDE DEF v
    <3>1. v < 0 => v + LONG \in 0 .. LONG - 1
      BY <1>1, <1>2, <2>2
    <3> QED
      BY <1>1, <2>2, <3>1
  <2> HIDE DEF v, num
  <2>5. v \in Int /\ abs \in 0 .. LONG - 1 /\ (neg <=> v < 0) /\ abs = (IF v < 0 THEN -v ELSE v)
    BY <1>1, <1>2, <2>1, <2>2, <2>3, <2>4
  <2> QED
    BY <2>1, <2>5 DEF v, num
<1> QED
  BY <1>3, <1>4

\* One round of strtol's loop.
ReadDigit(v, ch, base) == (v * base + DigitOf(ch)) % LONG

\* FoldLeft of strtol's loop over s: a function of the sets of indices that
\* are done; and the same for the first n indices.
IsRead(it, s, base) ==
  it = [T \in SUBSET DOMAIN s |-> IF T = {} THEN 0 ELSE ReadDigit(it[T \ {Max(T)}], s[Max(T)], base)]

ReadUpTo(it, s, base, n) ==
  it = [T \in SUBSET (1 .. n) |-> IF T = {} THEN 0 ELSE ReadDigit(it[T \ {Max(T)}], s[Max(T)], base)]

\* The value that strtol's loop computes.
ReadValue(s, base) == (CHOOSE it : IsRead(it, s, base))[DOMAIN s]

\* strtol's fold over digits has a value for sequences of every length.
LEMMA ReadExists ==
  ASSUME NEW s, NEW base
  PROVE  \A n \in Nat : \E it : ReadUpTo(it, s, base, n)
<1> DEFINE S == {n \in Nat : \E it : ReadUpTo(it, s, base, n)}
<1>1. 0 \in S
  <2> DEFINE it == [T \in SUBSET (1 .. 0) |-> 0]
  <2>1. \A T \in SUBSET (1 .. 0) : T = {}
    OBVIOUS
  <2>2. ReadUpTo(it, s, base, 0)
    BY <2>1 DEF ReadUpTo
  <2> HIDE DEF it
  <2> QED
    BY <2>2
<1>2. ASSUME NEW n \in Nat, n \in S PROVE n + 1 \in S
  <2>1. PICK it : ReadUpTo(it, s, base, n)
    BY <1>2
  <2> DEFINE r == [T \in SUBSET (1 .. n + 1) |-> IF n + 1 \in T THEN ReadDigit(it[T \ {n + 1}], s[n + 1], base)
                                                                ELSE it[T]]
  <2>2. \A T \in SUBSET (1 .. n + 1) : r[T] = IF n + 1 \in T THEN ReadDigit(it[T \ {n + 1}], s[n + 1], base)
                                                           ELSE it[T]
    OBVIOUS
  <2>3. r = [T \in SUBSET (1 .. n + 1) |-> r[T]]
    OBVIOUS
  <2>4. \A T \in SUBSET (1 .. n) : it[T] = IF T = {} THEN 0 ELSE ReadDigit(it[T \ {Max(T)}], s[Max(T)], base)
    BY <2>1 DEF ReadUpTo
  <2> HIDE DEF r
  <2>5. ASSUME NEW T \in SUBSET (1 .. n)
        PROVE  T \in SUBSET (1 .. n + 1) /\ n + 1 \notin T /\ r[T] = it[T]
    BY <2>2
  <2>6. ASSUME NEW T \in SUBSET (1 .. n + 1)
        PROVE  r[T] = IF T = {} THEN 0 ELSE ReadDigit(r[T \ {Max(T)}], s[Max(T)], base)
    <3>1. CASE n + 1 \in T
      <4>1. Max(T) = n + 1 /\ T \ {n + 1} \in SUBSET (1 .. n) /\ T # {}
        BY <3>1, MaxIs
      <4>2. r[T] = ReadDigit(it[T \ {n + 1}], s[n + 1], base)
        BY <2>2, <3>1
      <4>3. r[T \ {n + 1}] = it[T \ {n + 1}]
        BY <2>5, <4>1
      <4> QED
        BY <4>1, <4>2, <4>3
    <3>2. CASE n + 1 \notin T
      <4>1. T \in SUBSET (1 .. n)
        BY <3>2
      <4>2. T \ {Max(T)} \in SUBSET (1 .. n)
        BY <4>1
      <4>3. r[T] = it[T] /\ r[T \ {Max(T)}] = it[T \ {Max(T)}]
        BY <2>5, <4>1, <4>2
      <4> QED
        BY <2>4, <4>1, <4>3
    <3> QED
      BY <3>1, <3>2
  <2>7. ReadUpTo(r, s, base, n + 1)
    BY <2>3, <2>6 DEF ReadUpTo
  <2> QED
    BY <2>7
<1>3. Nat \subseteq S
  <2> HIDE DEF S
  <2> QED
    BY <1>1, <1>2, Induct
<1> QED
  BY <1>3

\* It depends only on the digits.
LEMMA ReadUnique ==
  ASSUME NEW s, NEW t, NEW base, NEW m \in Nat, NEW n \in Nat, m <= n, NEW f, NEW g,
         ReadUpTo(f, s, base, m), ReadUpTo(g, t, base, n), \A k \in 1 .. m : s[k] = t[k]
  PROVE  f[1 .. m] = g[1 .. m]
<1> DEFINE S == {k \in Nat : k <= m => f[1 .. k] = g[1 .. k]}
<1>1. \A T \in SUBSET (1 .. m) : f[T] = IF T = {} THEN 0 ELSE ReadDigit(f[T \ {Max(T)}], s[Max(T)], base)
  BY DEF ReadUpTo
<1>2. \A T \in SUBSET (1 .. n) : g[T] = IF T = {} THEN 0 ELSE ReadDigit(g[T \ {Max(T)}], t[Max(T)], base)
  BY DEF ReadUpTo
<1>3. 0 \in S
  <2>1. 1 .. 0 = {} /\ 1 .. 0 \in SUBSET (1 .. m) /\ 1 .. 0 \in SUBSET (1 .. n)
    OBVIOUS
  <2> QED
    BY <1>1, <1>2, <2>1
<1>4. ASSUME NEW k \in Nat, k \in S PROVE k + 1 \in S
  <2> SUFFICES ASSUME k + 1 <= m PROVE f[1 .. k + 1] = g[1 .. k + 1]
    OBVIOUS
  <2>1. k + 1 \in 1 .. k + 1 /\ k + 1 \in 1 .. m /\ k <= m /\ 1 .. k + 1 \in SUBSET (1 .. k + 1)
    OBVIOUS
  <2>2. (\A x \in 1 .. k + 1 : x \in 1 .. m) /\ (\A x \in 1 .. k + 1 : x \in 1 .. n)
    OBVIOUS
  <2>3. 1 .. k + 1 \in SUBSET (1 .. m) /\ 1 .. k + 1 \in SUBSET (1 .. n) /\ 1 .. k + 1 # {}
    BY <2>1, <2>2, Zenon
  <2>4. Max(1 .. k + 1) = k + 1
    BY <2>1, MaxIs
  <2>5. (1 .. k + 1) \ {k + 1} = 1 .. k
    OBVIOUS
  <2>6. f[1 .. k + 1] = ReadDigit(f[1 .. k], s[k + 1], base)
    BY <1>1, <2>3, <2>4, <2>5
  <2>7. g[1 .. k + 1] = ReadDigit(g[1 .. k], t[k + 1], base)
    BY <1>2, <2>3, <2>4, <2>5
  <2>8. f[1 .. k] = g[1 .. k] /\ s[k + 1] = t[k + 1]
    BY <1>4, <2>1
  <2> QED
    BY <2>6, <2>7, <2>8
<1>5. Nat \subseteq S
  <2> HIDE DEF S
  <2> QED
    BY <1>3, <1>4, Induct
<1> QED
  BY <1>5

\* strtol's loop computes ReadValue.
LEMMA ReadFold ==
  ASSUME NEW s, NEW base
  PROVE  FoldLeft(LAMBDA v, ch : (v * base + DigitOf(ch)) % LONG, 0, s) = ReadValue(s, base)
BY Zenon DEF FoldLeft, MapThenFoldSet, ReadValue, IsRead, ReadDigit

\* ReadValue by its equation.
LEMMA ReadChosen ==
  ASSUME NEW s, NEW base, NEW n \in Nat, DOMAIN s = 1 .. n
  PROVE  \E f : ReadUpTo(f, s, base, n) /\ ReadValue(s, base) = f[1 .. n]
<1> DEFINE f == CHOOSE it : IsRead(it, s, base)
<1>1. PICK g : ReadUpTo(g, s, base, n)
  BY ReadExists
<1>2. IsRead(g, s, base)
  BY <1>1, Zenon DEF IsRead, ReadUpTo
<1>3. IsRead(f, s, base)
  BY <1>2, Zenon
<1>4. ReadValue(s, base) = f[1 .. n]
  BY Zenon DEF ReadValue
<1> HIDE DEF f
<1>5. ReadUpTo(f, s, base, n)
  BY <1>3, Zenon DEF IsRead, ReadUpTo
<1> QED
  BY <1>4, <1>5

\* One more digit.
LEMMA ReadAppend ==
  ASSUME NEW t \in Seq(Chr), NEW ch \in Chr, NEW base
  PROVE  ReadValue(Append(t, ch), base) = ReadDigit(ReadValue(t, base), ch, base)
<1> DEFINE s == Append(t, ch)
           n == Len(t)
<1>1. n \in Nat /\ DOMAIN t = 1 .. n
  OBVIOUS
<1>2. /\ s \in Seq(Chr) /\ Len(s) = n + 1 /\ s[n + 1] = ch
      /\ \A k \in 1 .. n : t[k] = s[k]
  BY AppendProperties
<1>3. DOMAIN s = 1 .. n + 1
  BY <1>2, LenProperties
<1> HIDE DEF s, n
<1>4. PICK f : ReadUpTo(f, t, base, n) /\ ReadValue(t, base) = f[1 .. n]
  BY <1>1, ReadChosen
<1>5. n + 1 \in Nat /\ n <= n + 1
  BY <1>1
<1>6. PICK g : ReadUpTo(g, s, base, n + 1) /\ ReadValue(s, base) = g[1 .. n + 1]
  BY <1>3, <1>5, ReadChosen
<1>7. f[1 .. n] = g[1 .. n]
  BY <1>1, <1>2, <1>4, <1>5, <1>6, ReadUnique
<1>8. g[1 .. n + 1] = ReadDigit(g[1 .. n], s[n + 1], base)
  <2>1. \A T \in SUBSET (1 .. n + 1) : g[T] = IF T = {} THEN 0 ELSE ReadDigit(g[T \ {Max(T)}], s[Max(T)], base)
    BY <1>6 DEF ReadUpTo
  <2>2. 1 .. n + 1 \in SUBSET (1 .. n + 1) /\ n + 1 \in 1 .. n + 1
    BY <1>1
  <2>3. Max(1 .. n + 1) = n + 1
    BY <1>1, <2>2, MaxIs
  <2>4. (1 .. n + 1) \ {n + 1} = 1 .. n
    BY <1>1
  <2> QED
    BY <2>1, <2>2, <2>3, <2>4
<1> QED
  BY <1>2, <1>4, <1>6, <1>7, <1>8 DEF s

\* No digits, no value.
LEMMA ReadNothing ==
  ASSUME NEW base
  PROVE  ReadValue(<<>>, base) = 0
<1>1. DOMAIN <<>> = 1 .. 0 /\ 0 \in Nat
  OBVIOUS
<1>2. PICK f : ReadUpTo(f, <<>>, base, 0) /\ ReadValue(<<>>, base) = f[1 .. 0]
  BY <1>1, ReadChosen
<1>3. 1 .. 0 \in SUBSET (1 .. 0) /\ 1 .. 0 = {}
  OBVIOUS
<1> QED
  BY <1>2, <1>3 DEF ReadUpTo

\* strtol takes every digit for the value that printnum printed it for.
LEMMA DigitOfIs ==
  ASSUME NEW d \in 1 .. 16
  PROVE  DigitOf(DigitChar[d]) = d - 1
<1>1. ASSUME NEW e \in 1 .. 16, DigitChar[e] = DigitChar[d] PROVE e = d
  BY <1>1, DigitTable, Sixteen
<1> QED
  BY <1>1 DEF DigitOf

\* The padding '0' is the digit of zero.
LEMMA ZeroDigit == "0" \in Chr /\ DigitOf("0") = 0 /\ DigitChar[1] = "0"
<1>1. DigitChar[1] = "0" /\ 1 \in 1 .. 16
  BY DigitTable
<1>2. DigitOf(DigitChar[1]) = 1 - 1
  BY <1>1, DigitOfIs
<1> QED
  BY <1>1, <1>2 DEF Chr

\* Leading zeros do not count.
LEMMA ZerosRead ==
  ASSUME NEW base \in 2 .. 16
  PROVE  \A m \in Nat : ReadValue(Repeat("0", m), base) = 0
<1> DEFINE S == {m \in Nat : ReadValue(Repeat("0", m), base) = 0}
<1>1. 0 \in S
  BY NoPadding, ZeroDigit, ReadNothing
<1>2. ASSUME NEW m \in Nat, m \in S PROVE m + 1 \in S
  <2> DEFINE r == Repeat("0", m)
             q == Repeat("0", m + 1)
             a == Append(r, "0")
  <2>1. r \in Seq(Chr) /\ Len(r) = m /\ \A j \in 1 .. m : r[j] = "0"
    BY RepeatIs, ZeroDigit DEF MaxOf
  <2>2. q \in Seq(Chr) /\ Len(q) = m + 1 /\ \A j \in 1 .. m + 1 : q[j] = "0"
    BY RepeatIs, ZeroDigit DEF MaxOf
  <2> HIDE DEF r, q
  <2>3. a \in Seq(Chr) /\ Len(a) = m + 1 /\ a[m + 1] = "0" /\ \A j \in 1 .. m : a[j] = r[j]
    BY <2>1, ZeroDigit, AppendProperties
  <2> HIDE DEF a
  <2>4. \A j \in 1 .. m + 1 : a[j] = q[j]
    BY <2>1, <2>2, <2>3
  <2>5. a = q
    BY <2>2, <2>3, <2>4, SeqEqual
  <2>6. ReadValue(a, base) = ReadDigit(ReadValue(r, base), "0", base)
    BY <2>1, ZeroDigit, ReadAppend DEF a
  <2>7. ReadValue(r, base) = 0
    BY <1>2 DEF r
  <2>8. ReadDigit(0, "0", base) = 0
    <3>1. LONG \in Nat \ {0}
      BY FmtConstants, Zenon
    <3>2. 0 * base + 0 = 0 /\ 0 % LONG = 0
      BY <3>1
    <3> QED
      BY <3>2, ZeroDigit DEF ReadDigit
  <2>9. ReadValue(q, base) = 0
    BY <2>5, <2>6, <2>7, <2>8
  <2> QED
    BY <2>9 DEF q
<1>3. Nat \subseteq S
  <2> HIDE DEF S
  <2> QED
    BY <1>1, <1>2, Induct
<1> QED
  BY <1>3

\* Zeros as padding.
LEMMA ZerosAre ==
  ASSUME NEW m \in Nat
  PROVE  Repeat("0", m) \in Seq(Chr) /\ Len(Repeat("0", m)) = m /\ \A j \in 1 .. m : Repeat("0", m)[j] = "0"
BY RepeatIs, ZeroDigit DEF MaxOf

\* The last digit is one of the base and stands for the remainder.
LEMMA LastDigitRead ==
  ASSUME NEW base \in 2 .. 16, NEW k \in Nat
  PROVE  LastDigit(k, base) \in Digits(base) /\ DigitOf(LastDigit(k, base)) = k % base
<1> DEFINE r == k % base
<1>1. r \in 0 .. base - 1
  OBVIOUS
<1> HIDE DEF r
<1>2. r + 1 \in 1 .. base /\ r + 1 \in 1 .. 16 /\ (r + 1) - 1 = r
  BY <1>1
<1>3. DigitOf(DigitChar[r + 1]) = r
  BY <1>2, DigitOfIs
<1> QED
  BY <1>2, <1>3 DEF LastDigit, Digits, r

\* Zeros and the digits of k.
Zeros(m, k, base, pad) == Repeat("0", m) \o Bare(k, base, pad)

\* Digits with leading zeros, the last one taken off.
LEMMA ZerosAppend ==
  ASSUME NEW base \in 2 .. 16, NEW pad \in Chr, NEW k \in Nat, NEW m \in Nat
  PROVE  /\ Repeat("0", m) \in Seq(Chr) /\ Zeros(m, k, base, pad) \in Seq(Chr) /\ Zeros(m, k \div base, base, pad) \in Seq(Chr)
         /\ k < base => Zeros(m, k, base, pad) = Append(Repeat("0", m), LastDigit(k, base))
         /\ k >= base => Zeros(m, k, base, pad) = Append(Zeros(m, k \div base, base, pad), LastDigit(k, base))
<1> DEFINE z == Repeat("0", m)
           q == k \div base
           ch == LastDigit(k, base)
           d == Bare(k, base, pad)
           e == Bare(q, base, pad)
<1>1. z \in Seq(Chr)
  BY RepeatIs, ZeroDigit
<1>2. ch \in Chr
  BY LastDigitIs
<1>3. q \in Nat
  BY Quotient
<1>4. PaddedDigits(k, base, pad) /\ PaddedDigits(q, base, pad)
  BY <1>3, AllPadded
<1>5. d \in Seq(Chr) /\ e \in Seq(Chr)
  BY <1>4 DEF PaddedDigits
<1>6. k < base => d = <<ch>>
  BY OneDigit
<1>7. k >= base => d = e \o <<ch>>
  BY <1>4, MoreDigits
<1>8. Zeros(m, k, base, pad) = z \o d /\ Zeros(m, q, base, pad) = z \o e
  BY DEF Zeros
<1> HIDE DEF z, q, ch, d, e
<1>9. z \o d \in Seq(Chr) /\ z \o e \in Seq(Chr) /\ <<ch>> \in Seq(Chr)
  BY <1>1, <1>2, <1>5, ConcatProperties
<1>10. Append(z, ch) = z \o <<ch>> /\ Append(z \o e, ch) = (z \o e) \o <<ch>>
  BY <1>1, <1>2, <1>9, AppendIsConcat
<1>11. (z \o e) \o <<ch>> = z \o (e \o <<ch>>)
  BY <1>1, <1>5, <1>9, ConcatAssociative
<1>12. /\ z \in Seq(Chr) /\ z \o d \in Seq(Chr) /\ z \o e \in Seq(Chr)
       /\ k < base => z \o d = Append(z, ch)
       /\ k >= base => z \o d = Append(z \o e, ch)
  BY <1>1, <1>6, <1>7, <1>9, <1>10, <1>11, Zenon
<1> QED
  BY <1>8, <1>12, Zenon DEF z, q, ch, d, e

\* strtol reads every digit string back, leading zeros included.
LEMMA DigitsRead ==
  ASSUME NEW base \in 2 .. 16, NEW pad \in Chr, NEW m \in Nat
  PROVE  \A k \in Nat : k < LONG =>
           /\ ReadValue(Zeros(m, k, base, pad), base) = k
           /\ \A j \in 1 .. Len(Zeros(m, k, base, pad)) : Zeros(m, k, base, pad)[j] \in Digits(base)
<1> DEFINE S == {k \in Nat : k < LONG =>
                   /\ ReadValue(Zeros(m, k, base, pad), base) = k
                   /\ \A j \in 1 .. Len(Zeros(m, k, base, pad)) : Zeros(m, k, base, pad)[j] \in Digits(base)}
<1>1. LONG \in Nat \ {0}
  BY FmtConstants, Zenon
<1>2. ASSUME NEW k \in Nat, \A j \in 0 .. k - 1 : j \in S PROVE k \in S
  <2> DEFINE t == IF k < base THEN Repeat("0", m) ELSE Zeros(m, k \div base, base, pad)
             ch == LastDigit(k, base)
             q == k \div base
  <2> SUFFICES ASSUME k < LONG
               PROVE  /\ ReadValue(Zeros(m, k, base, pad), base) = k
                      /\ \A j \in 1 .. Len(Zeros(m, k, base, pad)) : Zeros(m, k, base, pad)[j] \in Digits(base)
    OBVIOUS
  <2>1. t \in Seq(Chr) /\ Zeros(m, k, base, pad) = Append(t, ch)
    <3> HIDE DEF S
    <3>1. /\ Repeat("0", m) \in Seq(Chr) /\ Zeros(m, k \div base, base, pad) \in Seq(Chr)
          /\ k < base => Zeros(m, k, base, pad) = Append(Repeat("0", m), LastDigit(k, base))
          /\ k >= base => Zeros(m, k, base, pad) = Append(Zeros(m, k \div base, base, pad), LastDigit(k, base))
      BY ZerosAppend
    <3>2. k < base \/ k >= base
      OBVIOUS
    <3>3. ~(k < base /\ k >= base)
      OBVIOUS
    <3> QED
      BY <3>1, <3>2, <3>3, Zenon
  <2>2. ch \in Chr /\ ch \in Digits(base) /\ DigitOf(ch) = k % base
    BY LastDigitIs, LastDigitRead
  <2>3. q \in Nat /\ k % base \in 0 .. base - 1 /\ k = base * q + (k % base) /\ (k >= base => q < k)
    BY Quotient
  <2>4. ReadValue(t, base) = q /\ \A j \in 1 .. Len(t) : t[j] \in Digits(base)
    <3>1. CASE k < base
      <4>1. q = 0
        <5> HIDE DEF q
        <5> QED
          BY <2>3, <3>1
      <4>2. ReadValue(Repeat("0", m), base) = 0
        BY ZerosRead
      <4>3. Len(Repeat("0", m)) = m /\ \A j \in 1 .. m : Repeat("0", m)[j] = "0"
        BY ZerosAre
      <4>4. "0" \in Digits(base)
        BY ZeroDigit DEF Digits
      <4> HIDE DEF S, q
      <4>5. t = Repeat("0", m)
        BY <3>1
      <4> HIDE DEF t
      <4> QED
        BY <4>1, <4>2, <4>3, <4>4, <4>5
    <3>2. CASE k >= base
      <4>1. q \in 0 .. k - 1 /\ q < LONG
        <5> HIDE DEF q, S, t
        <5> QED
          BY <1>1, <2>3, <3>2
      <4>2. q \in S
        BY <1>2, <4>1
      <4>3. t = Zeros(m, q, base, pad)
        BY <3>2
      <4>4. /\ ReadValue(Zeros(m, q, base, pad), base) = q
            /\ \A j \in 1 .. Len(Zeros(m, q, base, pad)) : Zeros(m, q, base, pad)[j] \in Digits(base)
        BY <4>1, <4>2
      <4> HIDE DEF S, q, t
      <4> QED
        BY <4>3, <4>4
    <3> QED
      BY <3>1, <3>2
  <2> HIDE DEF S, t, ch, q
  <2>5. ReadValue(Append(t, ch), base) = ReadDigit(q, ch, base)
    BY <2>1, <2>2, <2>4, ReadAppend
  <2>6. q * base + (k % base) = k
    BY <2>3
  <2>7. k % LONG = k
    BY <1>1
  <2>8. ReadDigit(q, ch, base) = k
    BY <2>2, <2>6, <2>7 DEF ReadDigit
  <2>9. /\ Len(Append(t, ch)) = Len(t) + 1 /\ Append(t, ch)[Len(t) + 1] = ch /\ Len(t) \in Nat
        /\ \A j \in 1 .. Len(t) : Append(t, ch)[j] = t[j]
    BY <2>1, <2>2, AppendProperties
  <2>10. ASSUME NEW j \in 1 .. Len(Append(t, ch)) PROVE Append(t, ch)[j] \in Digits(base)
    <3>1. j = Len(t) + 1 \/ j \in 1 .. Len(t)
      BY <2>9
    <3> QED
      BY <2>2, <2>4, <2>9, <3>1
  <2> QED
    BY <2>1, <2>5, <2>8, <2>10
<1>3. Nat \subseteq S
  <2> HIDE DEF S
  <2> QED
    BY <1>2, StrongInduct
<1> QED
  BY <1>3

\* A digit is no blank, no sign, no 'x' and no '\0'.
LEMMA DigitIsNone ==
  ASSUME NEW base \in 2 .. 16, NEW ch \in Digits(base)
  PROVE  ch \in Chr /\ ch \notin Blank /\ ch \notin {"+", "-"} /\ ch # "x" /\ ch # NUL
<1>1. PICK d \in 1 .. base : ch = DigitChar[d]
  BY DEF Digits
<1>2. d \in 1 .. 16
  OBVIOUS
<1>3. ch \in {"0", "1", "2", "3", "4", "5", "6", "7", "8", "9", "a", "b", "c", "d", "e", "f"}
  BY <1>1, <1>2, DigitTable, Sixteen
<1>4. ch \in Chr /\ ch \notin {"+", "-"} /\ ch # "x"
  BY <1>1, <1>2, <1>3, DigitCharIs
<1>5. ch # " " /\ ch # "\t" /\ ch # NUL
  BY <1>3, Zenon DEF NUL
<1>6. ch \notin Blank
  BY <1>5, Zenon DEF Blank
<1> QED
  BY <1>4, <1>5, <1>6

\* The '\0' at the end of a string is no digit.
LEMMA NulIsNone ==
  ASSUME NEW base \in 2 .. 16
  PROVE  NUL \notin Digits(base) /\ NUL # "x" /\ NUL # "0"
<1>1. NUL \notin Digits(base)
  BY DigitIsNone
<1>2. NUL # "x" /\ NUL # "0"
  BY Zenon DEF NUL
<1> QED
  BY <1>1, <1>2

\* Blanks up to a, an optional sign, an optional prefix from b on, digits from c on.
StrtolShape(s, b0, a, b, base, c) ==
  /\ s \in Seq(Chr) /\ a \in 1 .. Len(s) /\ s[a] \notin Blank /\ \A j \in 1 .. a - 1 : s[j] \in Blank
  /\ b \in Nat /\ b = IF s[a] \in {"+", "-"} THEN a + 1 ELSE a
  /\ base \in 2 .. 16 /\ c \in 1 .. Len(s) /\ \A j \in c .. Len(s) : s[j] \in Digits(base)
  /\ \/ /\ b0 \in {0, 16} /\ At(s, b) = "0" /\ At(s, b + 1) = "x"
        /\ base = 16 /\ c = b + 2
     \/ /\ ~(b0 \in {0, 16} /\ At(s, b) = "0" /\ At(s, b + 1) = "x")
        /\ b0 # 0 /\ base = b0 /\ c = b

\* strtol on a string of such a shape: its value is that of the digits,
\* negated after a '-', and endptr is at the end.
LEMMA StrtolReads ==
  ASSUME NEW s, NEW b0, NEW a, NEW b, NEW base, NEW c, StrtolShape(s, b0, a, b, base, c)
  PROVE  strtol(s, b0) = [val |-> IF s[a] = "-" THEN (-ReadValue(SubSeq(s, c, Len(s)), base)) % LONG
                                  ELSE ReadValue(SubSeq(s, c, Len(s)), base),
                          end |-> Len(s) + 1]
<1> USE DEF StrtolShape
<1> DEFINE A == CHOOSE k \in 1 .. Len(s) + 1 : /\ At(s, k) \notin Blank
                                               /\ \A j \in 1 .. k - 1 : s[j] \in Blank
           B == IF At(s, A) \in {"+", "-"} THEN A + 1 ELSE A
           H == b0 \in {0, 16} /\ At(s, B) = "0" /\ At(s, B + 1) = "x"
           O == ~H /\ b0 = 0 /\ At(s, B) = "0"
           R == CASE H -> 16 [] O -> 8 [] OTHER -> IF b0 = 0 THEN 10 ELSE b0
           C == CASE H -> B + 2 [] O -> B + 1 [] OTHER -> B
           E == CHOOSE k \in C .. Len(s) + 1 : /\ At(s, k) \notin Digits(R)
                                               /\ \A j \in C .. k - 1 : s[j] \in Digits(R)
           V == FoldLeft(LAMBDA v, ch : (v * R + DigitOf(ch)) % LONG, 0, SubSeq(s, C, E - 1))
<1>1. strtol(s, b0) = [val |-> IF At(s, A) = "-" THEN (-V) % LONG ELSE V, end |-> E]
  BY Zenon DEF strtol
<1>2. Len(s) \in Nat
  OBVIOUS
<1>3. \A k \in 1 .. Len(s) : At(s, k) = s[k]
  BY DEF At
<1>4. At(s, Len(s) + 1) = NUL
  BY <1>2 DEF At
<1>5. A = a
  <2>1. a \in 1 .. Len(s) + 1 /\ At(s, a) \notin Blank /\ \A j \in 1 .. a - 1 : s[j] \in Blank
    BY <1>2, <1>3
  <2>2. ASSUME NEW k \in 1 .. Len(s) + 1, At(s, k) \notin Blank, \A j \in 1 .. k - 1 : s[j] \in Blank PROVE k = a
    <3>1. CASE k < a
      <4>1. k \in 1 .. a - 1 /\ k \in 1 .. Len(s)
        BY <1>2, <3>1
      <4> QED
        BY <1>3, <2>2, <4>1
    <3>2. CASE k > a
      <4>1. a \in 1 .. k - 1
        BY <1>2, <3>2
      <4> QED
        BY <2>2, <4>1
    <3> QED
      BY <1>2, <3>1, <3>2
  <2> QED
    BY <2>1, <2>2
<1> HIDE DEF A
<1>6. B = b
  BY <1>3, <1>5
<1> HIDE DEF B
<1>7. C = c /\ R = base
  BY <1>6
<1> HIDE DEF H, O, R, C
<1>8. E = Len(s) + 1
  <2>1. /\ Len(s) + 1 \in c .. Len(s) + 1 /\ At(s, Len(s) + 1) \notin Digits(base)
        /\ \A j \in c .. (Len(s) + 1) - 1 : s[j] \in Digits(base)
    <3>1. Len(s) + 1 \in c .. Len(s) + 1 /\ (Len(s) + 1) - 1 = Len(s)
      BY <1>2
    <3>2. At(s, Len(s) + 1) \notin Digits(base)
      BY <1>4, NulIsNone
    <3> QED
      BY <3>1, <3>2
  <2>2. ASSUME NEW k \in c .. Len(s) + 1, At(s, k) \notin Digits(base), \A j \in c .. k - 1 : s[j] \in Digits(base)
        PROVE  k = Len(s) + 1
    <3>1. CASE k <= Len(s)
      <4>1. k \in c .. Len(s) /\ k \in 1 .. Len(s)
        BY <1>2, <3>1
      <4> QED
        BY <1>3, <2>2, <4>1
    <3> QED
      BY <1>2, <3>1
  <2>3. E = CHOOSE k \in c .. Len(s) + 1 : /\ At(s, k) \notin Digits(base)
                                           /\ \A j \in c .. k - 1 : s[j] \in Digits(base)
    BY <1>7, Zenon
  <2> QED
    BY <2>1, <2>2, <2>3
<1> HIDE DEF E
<1>9. V = ReadValue(SubSeq(s, c, Len(s)), base)
  <2>1. V = ReadValue(SubSeq(s, C, E - 1), R)
    BY ReadFold
  <2>2. E - 1 = Len(s)
    BY <1>2, <1>8
  <2> QED
    BY <1>7, <2>1, <2>2
<1> HIDE DEF V
<1>10. At(s, A) = s[a]
  BY <1>3, <1>5
<1> QED
  BY <1>1, <1>8, <1>9, <1>10, Zenon

\* The rest of a string.
LEMMA Rest ==
  ASSUME NEW p \in Seq(Chr), NEW q \in Seq(Chr)
  PROVE  /\ p \o q \in Seq(Chr) /\ Len(p \o q) = Len(p) + Len(q) /\ Len(p) \in Nat /\ Len(q) \in Nat
         /\ \A j \in 1 .. Len(p) : (p \o q)[j] = p[j]
         /\ \A j \in Len(p) + 1 .. Len(p) + Len(q) : (p \o q)[j] = q[j - Len(p)]
         /\ SubSeq(p \o q, Len(p) + 1, Len(p) + Len(q)) = q
<1> DEFINE s == p \o q
           m == Len(p)
           n == Len(q)
           t == SubSeq(s, m + 1, m + n)
<1>1. m \in Nat /\ n \in Nat /\ \A j \in 1 .. n : q[j] \in Chr
  OBVIOUS
<1>2. /\ s \in Seq(Chr) /\ Len(s) = m + n
      /\ \A j \in 1 .. m + n : s[j] = IF j <= m THEN p[j] ELSE q[j - m]
  BY ConcatProperties
<1> HIDE DEF s, m, n
<1>3. /\ \A j \in 1 .. m : s[j] = p[j]
      /\ \A j \in m + 1 .. m + n : s[j] = q[j - m] /\ s[j] \in Chr
  BY <1>1, <1>2
<1>4. /\ t \in Seq(Chr) /\ Len(t) = (IF m + 1 <= m + n THEN m + n - (m + 1) + 1 ELSE 0)
      /\ \A j \in 1 .. m + n - (m + 1) + 1 : t[j] = s[m + 1 + j - 1]
  BY <1>1, <1>3, SubSeqProperties
<1> HIDE DEF t
<1>5. Len(t) = n
  BY <1>1, <1>4
<1>6. ASSUME NEW j \in 1 .. n PROVE t[j] = q[j]
  <2>1. /\ j \in 1 .. m + n - (m + 1) + 1 /\ m + 1 + j - 1 = m + j
        /\ m + j \in m + 1 .. m + n /\ (m + j) - m = j
    BY <1>1
  <2> QED
    BY <1>3, <1>4, <2>1
<1>7. t = q
  BY <1>4, <1>5, <1>6, SeqEqual DEF n
<1> QED
  BY <1>1, <1>2, <1>3, <1>7 DEF s, m, n, t

\* Blanks and digits.
LEMMA BlanksRead ==
  ASSUME NEW p \in Seq(Chr), \A j \in 1 .. Len(p) : p[j] \in Blank,
         NEW z \in Seq(Chr), Len(z) >= 1, NEW base \in 2 .. 16, \A j \in 1 .. Len(z) : z[j] \in Digits(base)
  PROVE  strtol(p \o z, base) = [val |-> ReadValue(z, base), end |-> Len(p \o z) + 1]
<1> DEFINE s == p \o z
           m == Len(p)
           a == m + 1
<1>1. /\ s \in Seq(Chr) /\ Len(s) = m + Len(z) /\ m \in Nat /\ Len(z) \in Nat
      /\ \A j \in 1 .. m : s[j] = p[j]
      /\ \A j \in m + 1 .. m + Len(z) : s[j] = z[j - m]
      /\ SubSeq(s, m + 1, m + Len(z)) = z
  BY Rest
<1> HIDE DEF s
<1>2. a \in 1 .. Len(s) /\ a \in Nat /\ a - 1 = m
  BY <1>1
<1>3. \A j \in a .. Len(s) : s[j] \in Digits(base)
  BY <1>1, SMTT(30)
<1>4. s[a] \in Digits(base)
  BY <1>2, <1>3
<1>5. s[a] \notin Blank /\ s[a] \notin {"+", "-"}
  BY <1>4, DigitIsNone
<1>6. \A j \in 1 .. a - 1 : s[j] \in Blank
  BY <1>1, <1>2
<1>7. At(s, a + 1) # "x"
  <2>1. CASE a + 1 <= Len(s)
    <3>1. a + 1 \in a .. Len(s) /\ At(s, a + 1) = s[a + 1]
      BY <1>1, <1>2, <2>1 DEF At
    <3>2. At(s, a + 1) \in Digits(base)
      BY <1>3, <3>1
    <3> QED
      BY <3>2, DigitIsNone
  <2>2. CASE ~(a + 1 <= Len(s))
    <3>1. At(s, a + 1) = NUL
      BY <2>2 DEF At
    <3> QED
      BY <3>1, NulIsNone
  <2> QED
    BY <2>1, <2>2
<1> HIDE DEF a
<1>8. base # 0 /\ a = IF s[a] \in {"+", "-"} THEN a + 1 ELSE a
  BY <1>5
<1>9. StrtolShape(s, base, a, a, base, a)
  BY <1>1, <1>2, <1>3, <1>5, <1>6, <1>7, <1>8 DEF StrtolShape
<1>10. strtol(s, base) = [val |-> IF s[a] = "-" THEN (-ReadValue(SubSeq(s, a, Len(s)), base)) % LONG
                                  ELSE ReadValue(SubSeq(s, a, Len(s)), base),
                          end |-> Len(s) + 1]
  BY <1>9, StrtolReads
<1>11. SubSeq(s, a, Len(s)) = z
  BY <1>1 DEF a
<1>12. s[a] # "-"
  BY <1>5
<1> QED
  BY <1>10, <1>11, <1>12 DEF s

\* A minus sign and digits.
LEMMA MinusRead ==
  ASSUME NEW z \in Seq(Chr), Len(z) >= 1, \A j \in 1 .. Len(z) : z[j] \in Digits(10)
  PROVE  strtol(<<"-">> \o z, 10) = [val |-> (-ReadValue(z, 10)) % LONG, end |-> Len(<<"-">> \o z) + 1]
<1> DEFINE p == <<"-">>
           s == p \o z
<1>1. p \in Seq(Chr) /\ Len(p) = 1 /\ p[1] = "-"
  <2>1. "-" \in Chr
    BY DEF Chr
  <2> QED
    BY <2>1
<1> HIDE DEF p
<1>2. /\ s \in Seq(Chr) /\ Len(s) = Len(p) + Len(z) /\ Len(z) \in Nat
      /\ \A j \in 1 .. Len(p) : s[j] = p[j]
      /\ \A j \in Len(p) + 1 .. Len(p) + Len(z) : s[j] = z[j - Len(p)]
      /\ SubSeq(s, Len(p) + 1, Len(p) + Len(z)) = z
  BY <1>1, Rest
<1> HIDE DEF s
<1>3. /\ Len(s) = 1 + Len(z) /\ s[1] = "-" /\ SubSeq(s, 2, Len(s)) = z
      /\ 1 \in 1 .. Len(s) /\ 2 \in 1 .. Len(s) /\ 1 .. 1 - 1 = {} /\ 2 \in Nat /\ 2 = 1 + 1
      /\ 10 \in 2 .. 16 /\ 10 \notin {0, 16}
  BY <1>1, <1>2
<1>4. \A j \in 2 .. Len(s) : s[j] \in Digits(10)
  BY <1>1, <1>2
<1>5. "-" \notin Blank
  BY Zenon DEF Blank
<1>6. 2 = IF s[1] \in {"+", "-"} THEN 1 + 1 ELSE 1
  BY <1>3
<1>7. 10 # 0 /\ ~(10 \in {0, 16} /\ At(s, 2) = "0" /\ At(s, 2 + 1) = "x")
  OBVIOUS
<1>8. s[1] \notin Blank /\ \A j \in 1 .. 1 - 1 : s[j] \in Blank
  BY <1>3, <1>5
<1>9. StrtolShape(s, 10, 1, 2, 10, 2)
  BY <1>2, <1>3, <1>4, <1>6, <1>7, <1>8 DEF StrtolShape
<1>10. strtol(s, 10) = [val |-> IF s[1] = "-" THEN (-ReadValue(SubSeq(s, 2, Len(s)), 10)) % LONG
                                  ELSE ReadValue(SubSeq(s, 2, Len(s)), 10),
                       end |-> Len(s) + 1]
  BY <1>9, StrtolReads
<1> QED
  BY <1>3, <1>10 DEF s, p

\* 0x and digits.
LEMMA HexRead ==
  ASSUME NEW z \in Seq(Chr), Len(z) >= 1, \A j \in 1 .. Len(z) : z[j] \in Digits(16), NEW b0 \in {0, 16}
  PROVE  strtol(<<"0", "x">> \o z, b0) = [val |-> ReadValue(z, 16), end |-> Len(<<"0", "x">> \o z) + 1]
<1> DEFINE p == <<"0", "x">>
           s == p \o z
<1>1. p \in Seq(Chr) /\ Len(p) = 2 /\ p[1] = "0" /\ p[2] = "x"
  <2>1. "0" \in Chr /\ "x" \in Chr
    BY DEF Chr
  <2> QED
    BY <2>1
<1> HIDE DEF p
<1>2. /\ s \in Seq(Chr) /\ Len(s) = Len(p) + Len(z) /\ Len(z) \in Nat
      /\ \A j \in 1 .. Len(p) : s[j] = p[j]
      /\ \A j \in Len(p) + 1 .. Len(p) + Len(z) : s[j] = z[j - Len(p)]
      /\ SubSeq(s, Len(p) + 1, Len(p) + Len(z)) = z
  BY <1>1, Rest
<1> HIDE DEF s
<1>3. /\ Len(s) = 2 + Len(z) /\ s[1] = "0" /\ s[2] = "x" /\ SubSeq(s, 3, Len(s)) = z
      /\ 1 \in 1 .. Len(s) /\ 3 \in 1 .. Len(s) /\ 1 .. 1 - 1 = {} /\ 1 \in Nat /\ 3 = 1 + 2
      /\ 16 \in 2 .. 16
  BY <1>1, <1>2
<1>4. \A j \in 3 .. Len(s) : s[j] \in Digits(16)
  BY <1>1, <1>2
<1>5. "0" \notin Blank
  BY Zenon DEF Blank
<1>6. 1 = IF s[1] \in {"+", "-"} THEN 1 + 1 ELSE 1
  BY <1>3
<1>7. At(s, 1) = "0" /\ At(s, 1 + 1) = "x"
  BY <1>2, <1>3 DEF At
<1>8. s[1] \notin Blank /\ \A j \in 1 .. 1 - 1 : s[j] \in Blank
  BY <1>3, <1>5
<1>9. StrtolShape(s, b0, 1, 1, 16, 3)
  BY <1>2, <1>3, <1>4, <1>6, <1>7, <1>8 DEF StrtolShape
<1>10. strtol(s, b0) = [val |-> IF s[1] = "-" THEN (-ReadValue(SubSeq(s, 3, Len(s)), 16)) % LONG
                                  ELSE ReadValue(SubSeq(s, 3, Len(s)), 16),
                       end |-> Len(s) + 1]
  BY <1>9, StrtolReads
<1>11. s[1] # "-"
  BY <1>3
<1> QED
  BY <1>3, <1>10, <1>11 DEF s, p

\* A number without padding, or padded with zeros, is all digits.
LEMMA PlainNumber ==
  ASSUME NEW num \in 0 .. LONG - 1, NEW base \in 2 .. 16, NEW w \in Int, NEW pad \in Chr,
         w <= NumDigits(num, base) \/ pad = "0"
  PROVE  /\ printnum(num, base, w, pad) \in Seq(Chr) /\ Len(printnum(num, base, w, pad)) >= 1
         /\ \A j \in 1 .. Len(printnum(num, base, w, pad)) : printnum(num, base, w, pad)[j] \in Digits(base)
         /\ ReadValue(printnum(num, base, w, pad), base) = num
<1> DEFINE d == Bare(num, base, pad)
           z == printnum(num, base, w, pad)
<1>1. num \in Nat /\ num < LONG
  BY LongHoldsInt
<1>2. /\ d \in Seq(Chr) /\ Len(d) >= 1
      /\ z = Repeat(pad, w - Len(d)) \o d
      /\ z \in Seq(Chr) /\ Len(z) = MaxOf(w, Len(d))
  BY <1>1, PrintnumPads
<1>3. Len(d) \in Nat
  BY <1>2
<1>4. Len(z) >= 1
  <2> HIDE DEF d, z
  <2> QED
    BY <1>2, <1>3 DEF MaxOf
<1>5. \E m \in Nat : z = Zeros(m, num, base, pad)
  <2>1. CASE w - Len(d) <= 0
    <3>1. Repeat(pad, w - Len(d)) = <<>> /\ Repeat("0", 0) = <<>>
      BY <1>3, <2>1, NoPadding, ZeroDigit
    <3>2. z = Zeros(0, num, base, pad)
      BY <1>2, <3>1 DEF Zeros
    <3> QED
      BY <3>2
  <2>2. CASE w - Len(d) > 0
    <3>0. num \in 0 .. LONG
      BY <1>1, LongHoldsInt
    <3>1. NumDigits(num, base) = Len(d)
      BY <3>0, NumDigitsIs
    <3> HIDE DEF d
    <3>2. w - Len(d) \in Nat /\ pad = "0"
      BY <1>3, <2>2, <3>1
    <3>3. z = Zeros(w - Len(d), num, base, pad)
      BY <1>2, <3>2 DEF Zeros, d
    <3> QED
      BY <3>2, <3>3
  <2> QED
    BY <1>3, <2>1, <2>2
<1> HIDE DEF z
<1>6. PICK m \in Nat : z = Zeros(m, num, base, pad)
  BY <1>5
<1>7. /\ ReadValue(Zeros(m, num, base, pad), base) = num
      /\ \A j \in 1 .. Len(Zeros(m, num, base, pad)) : Zeros(m, num, base, pad)[j] \in Digits(base)
  BY <1>1, DigitsRead
<1> QED
  BY <1>2, <1>4, <1>6, <1>7 DEF z

\* A number padded with blanks.
LEMMA BlankNumber ==
  ASSUME NEW num \in 0 .. LONG - 1, NEW base \in 2 .. 16, NEW w \in Int, NEW pad \in Chr, pad \in Blank
  PROVE  strtol(printnum(num, base, w, pad), base) =
           [val |-> num, end |-> Len(printnum(num, base, w, pad)) + 1]
<1> DEFINE d == Bare(num, base, pad)
           z == printnum(num, base, w, pad)
           p == Repeat(pad, w - Len(d))
<1>1. num \in Nat /\ num < LONG
  BY LongHoldsInt
<1>2. d \in Seq(Chr) /\ Len(d) >= 1 /\ z = p \o d
  BY <1>1, PrintnumPads
<1>3. d = Zeros(0, num, base, pad)
  <2>1. Repeat("0", 0) = <<>> /\ <<>> \o d = d
    BY <1>2, NoPadding, ZeroDigit, ConcatEmptySeq
  <2> QED
    BY <2>1 DEF Zeros
<1>4. /\ ReadValue(Zeros(0, num, base, pad), base) = num
      /\ \A j \in 1 .. Len(Zeros(0, num, base, pad)) : Zeros(0, num, base, pad)[j] \in Digits(base)
  BY <1>1, DigitsRead
<1>5. Len(d) \in Nat /\ w - Len(d) \in Int
  BY <1>2
<1> HIDE DEF d
<1>6. p \in Seq(Chr) /\ Len(p) = MaxOf(w - Len(d), 0) /\ \A j \in 1 .. w - Len(d) : p[j] = pad
  BY <1>5, RepeatIs
<1> HIDE DEF p, z
<1>7. \A j \in 1 .. Len(p) : p[j] \in Blank
  BY <1>5, <1>6 DEF MaxOf
<1>8. strtol(p \o d, base) = [val |-> ReadValue(d, base), end |-> Len(p \o d) + 1]
  BY <1>2, <1>3, <1>4, <1>6, <1>7, BlanksRead
<1> QED
  BY <1>2, <1>3, <1>4, <1>8 DEF z

\* The digits that printnum prints, without the padding.
LEMMA BareAreDigits ==
  ASSUME NEW num \in 0 .. LONG - 1, NEW base \in 2 .. 16, NEW pad \in Chr
  PROVE  \A j \in 1 .. Len(Bare(num, base, pad)) : Bare(num, base, pad)[j] \in Digits(base)
<1> DEFINE d == Bare(num, base, pad)
<1>1. num \in Nat /\ num < LONG
  BY LongHoldsInt
<1>2. d \in Seq(Chr)
  BY <1>1, PrintnumPads
<1>3. d = Zeros(0, num, base, pad)
  <2>1. Repeat("0", 0) = <<>> /\ <<>> \o d = d
    BY <1>2, NoPadding, ZeroDigit, ConcatEmptySeq
  <2> QED
    BY <2>1 DEF Zeros
<1>4. \A j \in 1 .. Len(Zeros(0, num, base, pad)) : Zeros(0, num, base, pad)[j] \in Digits(base)
  BY <1>1, DigitsRead
<1> QED
  BY <1>3, <1>4

\* printnum prints its padding, then its digits.
LEMMA PrintnumShape ==
  ASSUME NEW num \in 0 .. LONG - 1, NEW base \in 2 .. 16, NEW w \in Int, NEW pad \in Chr
  PROVE  /\ NumDigits(num, base) \in Nat
         /\ printnum(num, base, w, pad) \in Seq(Chr)
         /\ Len(printnum(num, base, w, pad)) = MaxOf(w, NumDigits(num, base))
         /\ \A j \in 1 .. Len(printnum(num, base, w, pad)) :
              IF j <= Len(printnum(num, base, w, pad)) - NumDigits(num, base)
              THEN printnum(num, base, w, pad)[j] = pad
              ELSE printnum(num, base, w, pad)[j] \in Digits(base)
<1> DEFINE d == Bare(num, base, pad)
           z == printnum(num, base, w, pad)
           n == NumDigits(num, base)
           p == Repeat(pad, w - Len(d))
<1>1. num \in Nat /\ num \in 0 .. LONG
  BY LongHoldsInt
<1>2. /\ d \in Seq(Chr) /\ Len(d) >= 1 /\ z = p \o d
      /\ z \in Seq(Chr) /\ Len(z) = MaxOf(w, Len(d))
  BY <1>1, PrintnumPads
<1>3. n = Len(d) /\ Len(d) \in Nat /\ w - Len(d) \in Int
  <2>1. n = Len(d)
    BY <1>1, NumDigitsIs
  <2>2. Len(d) \in Nat /\ w - Len(d) \in Int
    BY <1>2
  <2> QED
    BY <2>1, <2>2
<1>4. \A j \in 1 .. Len(d) : d[j] \in Digits(base)
  BY BareAreDigits
<1> HIDE DEF d, n
<1>5. p \in Seq(Chr) /\ Len(p) = MaxOf(w - Len(d), 0) /\ \A j \in 1 .. w - Len(d) : p[j] = pad
  BY <1>3, RepeatIs
<1> HIDE DEF p, z
<1>6. /\ Len(p \o d) = Len(p) + Len(d) /\ Len(p) \in Nat
      /\ \A j \in 1 .. Len(p) : (p \o d)[j] = p[j]
      /\ \A j \in Len(p) + 1 .. Len(p) + Len(d) : (p \o d)[j] = d[j - Len(p)]
  BY <1>2, <1>5, Rest
<1>7. ASSUME NEW j \in 1 .. Len(z) PROVE IF j <= Len(z) - n THEN z[j] = pad ELSE z[j] \in Digits(base)
  <2>1. Len(z) = Len(p) + n
    BY <1>2, <1>3, <1>6
  <2>2. CASE j <= Len(p)
    <3>1. j \in 1 .. Len(p) /\ j \in 1 .. w - Len(d)
      BY <1>3, <1>5, <1>6, <2>2 DEF MaxOf
    <3>2. z[j] = pad
      BY <1>2, <1>5, <1>6, <3>1
    <3> QED
      BY <1>3, <1>6, <2>1, <2>2, <3>2
  <2>3. CASE ~(j <= Len(p))
    <3>1. j \in Len(p) + 1 .. Len(p) + Len(d) /\ j - Len(p) \in 1 .. Len(d) /\ ~(j <= Len(z) - n)
      BY <1>3, <1>6, <2>1, <2>3
    <3>2. z[j] = d[j - Len(p)]
      BY <1>2, <1>6, <3>1
    <3> QED
      BY <1>4, <3>1, <3>2
  <2> QED
    BY <2>2, <2>3
<1> QED
  BY <1>2, <1>3, <1>7 DEF n, z

\* The same behind a sign or 0x, which come before the padding.
LEMMA PrefixedShape ==
  ASSUME NEW num \in 0 .. LONG - 1, NEW base \in 2 .. 16, NEW w \in Int, NEW pad \in Chr, NEW q \in Seq(Chr)
  PROVE  NumberShape(q \o printnum(num, base, w, pad), w, pad, q, NumDigits(num, base), base)
<1> DEFINE z == printnum(num, base, w, pad)
           n == NumDigits(num, base)
           s == q \o z
<1>1. /\ n \in Nat /\ z \in Seq(Chr) /\ Len(z) = MaxOf(w, n)
      /\ \A j \in 1 .. Len(z) : IF j <= Len(z) - n THEN z[j] = pad ELSE z[j] \in Digits(base)
  BY PrintnumShape
<1> HIDE DEF z, n
<1>2. /\ Len(s) = Len(q) + Len(z) /\ Len(q) \in Nat /\ Len(z) \in Nat
      /\ \A j \in 1 .. Len(q) : s[j] = q[j]
      /\ \A j \in Len(q) + 1 .. Len(q) + Len(z) : s[j] = z[j - Len(q)]
  BY <1>1, Rest
<1> HIDE DEF s
<1>3. ASSUME NEW j \in 1 .. Len(s)
      PROVE  IF j <= Len(q) THEN s[j] = q[j]
             ELSE IF j <= Len(s) - n THEN s[j] = pad ELSE s[j] \in Digits(base)
  <2>1. CASE j <= Len(q)
    BY <1>2, <2>1
  <2>2. CASE ~(j <= Len(q))
    <3>1. /\ j \in Len(q) + 1 .. Len(q) + Len(z) /\ j - Len(q) \in 1 .. Len(z)
          /\ (j <= Len(s) - n) <=> (j - Len(q) <= Len(z) - n)
      BY <1>1, <1>2, <2>2
    <3> QED
      BY <1>1, <1>2, <2>2, <3>1
  <2> QED
    BY <2>1, <2>2
<1>4. Len(s) = Len(q) + MaxOf(w, n)
  BY <1>1, <1>2
<1> QED
  BY <1>3, <1>4, Zenon DEF NumberShape, s, z, n

-----------------------------------------------------------------------------
\* What FieldsPadded and NumbersReadBack say of the output f of one conversion.
PaddedOK(f, w, pad, kind, about) ==
  /\ kind = "string" => TextShape(f, w, pad, about.text)
  /\ kind \in {"number", "pointer"} =>
       NumberShape(f, w, pad, PrefixOf(kind, about), Needed(about), about.base)

ReadOK(f, w, pad, kind, about) ==
  /\ kind \in {"number", "pointer"}
  /\ w > Needed(about) => pad = "0" \/ (pad = " " /\ PrefixOf(kind, about) = <<>>)
  => \A b0 \in {about.base} \cup (IF kind = "pointer" THEN {0} ELSE {}) :
       strtol(f, b0) = [val |-> about.value % LONG, end |-> Len(f) + 1]

\* What %d, %u, %o and %x print of a number that is not negative has its
\* width and is read back.
LEMMA NaturalOK ==
  ASSUME NEW v \in 0 .. LONG - 1, NEW base \in 2 .. 16, NEW w \in Int, NEW pad \in Chr, NEW about,
         about.value = v, about.base = base
  PROVE  /\ printnum(v, base, w, pad) \in Seq(Chr)
         /\ PaddedOK(printnum(v, base, w, pad), w, pad, "number", about)
         /\ ReadOK(printnum(v, base, w, pad), w, pad, "number", about)
<1> DEFINE s == printnum(v, base, w, pad)
<1>1. LONG \in Nat /\ v \in Nat /\ v < LONG /\ v \in 0 .. LONG
  BY LongHoldsInt
<1>2. s \in Seq(Chr) /\ Len(s) = MaxOf(w, NumDigits(v, base)) /\ Len(s) \in Nat
  BY <1>1, PrintnumLen
<1>3. ASSUME w <= NumDigits(v, base) \/ pad = "0" PROVE strtol(s, base) = [val |-> v, end |-> Len(s) + 1]
  <2>1. /\ s \in Seq(Chr) /\ Len(s) >= 1
        /\ \A j \in 1 .. Len(s) : s[j] \in Digits(base)
        /\ ReadValue(s, base) = v
    BY <1>3, PlainNumber
  <2> HIDE DEF s
  <2>2. <<>> \in Seq(Chr) /\ <<>> \o s = s /\ Len(<<>>) = 0 /\ 1 .. 0 = {}
    BY <2>1, EmptySeq, ConcatEmptySeq
  <2>3. \A j \in 1 .. Len(<<>>) : <<>>[j] \in Blank
    BY <2>2
  <2>4. strtol(<<>> \o s, base) = [val |-> ReadValue(s, base), end |-> Len(<<>> \o s) + 1]
    BY <2>1, <2>2, <2>3, BlanksRead
  <2> QED
    BY <2>1, <2>2, <2>4
<1>4. ASSUME pad = " " PROVE strtol(s, base) = [val |-> v, end |-> Len(s) + 1]
  <2>1. pad \in Blank
    BY <1>4, Zenon DEF Blank
  <2> QED
    BY <2>1, BlankNumber
<1>5. v % LONG = v
  BY <1>1
<1>6. <<>> \in Seq(Chr) /\ <<>> \o s = s
  BY <1>2, EmptySeq, ConcatEmptySeq
<1>7. NumberShape(<<>> \o s, w, pad, <<>>, NumDigits(v, base), base)
  BY <1>6, PrefixedShape
<1>8. PrefixOf("number", about) = <<>> /\ Needed(about) = NumDigits(v, base)
  BY <1>1 DEF PrefixOf, Needed
<1>9. NumDigits(v, base) \in Nat
  BY PrintnumShape
<1> HIDE DEF s
<1>10. PaddedOK(s, w, pad, "number", about)
  BY <1>6, <1>7, <1>8, Zenon DEF PaddedOK
<1>11. ReadOK(s, w, pad, "number", about)
  <2>1. w > NumDigits(v, base) \/ w <= NumDigits(v, base)
    BY <1>9
  <2>2. ASSUME w > NumDigits(v, base) => pad = "0" \/ pad = " "
        PROVE  strtol(s, base) = [val |-> v % LONG, end |-> Len(s) + 1]
    BY <1>3, <1>4, <1>5, <2>1, <2>2, Zenon
  <2>3. {about.base} \cup (IF "number" = "pointer" THEN {0} ELSE {}) = {base}
    OBVIOUS
  <2> QED
    BY <1>8, <2>2, <2>3, Zenon DEF ReadOK
<1> QED
  BY <1>2, <1>10, <1>11 DEF s

\* The same for a negative number, with the '-' in front.
LEMMA NegativeOK ==
  ASSUME NEW v \in Int, v < 0, -v \in 0 .. LONG - 1, NEW w \in Int, NEW pad \in Chr, NEW about,
         about.value = v, about.base = 10
  PROVE  /\ <<"-">> \o printnum(-v, 10, w, pad) \in Seq(Chr)
         /\ PaddedOK(<<"-">> \o printnum(-v, 10, w, pad), w, pad, "number", about)
         /\ ReadOK(<<"-">> \o printnum(-v, 10, w, pad), w, pad, "number", about)
<1> DEFINE u == -v
           z == printnum(u, 10, w, pad)
           p == <<"-">>
           s == p \o z
<1>1. u \in 0 .. LONG - 1 /\ u \in 0 .. LONG /\ LONG \in Nat /\ -u = v /\ 10 \in 2 .. 16
  BY LongHoldsInt
<1>2. p \in Seq(Chr) /\ Len(p) = 1
  <2>1. "-" \in Chr
    BY DEF Chr
  <2> QED
    BY <2>1
<1> HIDE DEF p
<1>3. z \in Seq(Chr) /\ Len(z) = MaxOf(w, NumDigits(u, 10)) /\ Len(z) \in Nat
  <2> HIDE DEF u
  <2> QED
    BY <1>1, PrintnumLen
<1>4. s \in Seq(Chr) /\ Len(s) = 1 + Len(z)
  <2> HIDE DEF z
  <2>1. p \o z \in Seq(Chr) /\ Len(p \o z) = Len(p) + Len(z)
    BY <1>2, <1>3, ConcatProperties
  <2> QED
    BY <1>2, <2>1
<1>5. ASSUME w <= NumDigits(u, 10) \/ pad = "0" PROVE strtol(s, 10) = [val |-> v % LONG, end |-> Len(s) + 1]
  <2>1. /\ z \in Seq(Chr) /\ Len(z) >= 1
        /\ \A j \in 1 .. Len(z) : z[j] \in Digits(10)
        /\ ReadValue(z, 10) = u
    <3> HIDE DEF u
    <3> QED
      BY <1>1, <1>5, PlainNumber
  <2> HIDE DEF z, u
  <2>2. strtol(<<"-">> \o z, 10) = [val |-> (-ReadValue(z, 10)) % LONG, end |-> Len(<<"-">> \o z) + 1]
    BY <2>1, MinusRead
  <2> QED
    BY <1>1, <2>1, <2>2 DEF p
<1>6. NumberShape(s, w, pad, p, NumDigits(u, 10), 10) /\ NumDigits(u, 10) \in Nat
  <2> HIDE DEF u
  <2> QED
    BY <1>1, <1>2, PrefixedShape, PrintnumShape
<1>7. PrefixOf("number", about) = p /\ p # <<>> /\ Needed(about) = NumDigits(u, 10)
  <2>1. Len(<<>>) = 0 /\ 1 # 0 /\ 2 # 0
    OBVIOUS
  <2>2. p # <<>>
    BY <1>2, <2>1, Zenon
  <2> QED
    BY <2>2 DEF PrefixOf, Needed, p
<1>8. PaddedOK(s, w, pad, "number", about)
  <2> HIDE DEF s, z, u
  <2> QED
    BY <1>6, <1>7, Zenon DEF PaddedOK
<1>9. ReadOK(s, w, pad, "number", about)
  <2> HIDE DEF s, z, u
  <2> QED
    <3>1. w > NumDigits(u, 10) \/ w <= NumDigits(u, 10)
      BY <1>6
    <3>2. ASSUME w > NumDigits(u, 10) => pad = "0"
          PROVE  strtol(s, 10) = [val |-> v % LONG, end |-> Len(s) + 1]
      BY <1>5, <3>1, <3>2, Zenon
    <3>3. {about.base} \cup (IF "number" = "pointer" THEN {0} ELSE {}) = {10}
      OBVIOUS
    <3> QED
      BY <1>7, <3>2, <3>3, Zenon DEF ReadOK
<1> QED
  BY <1>4, <1>8, <1>9 DEF p

\* The same for %p, with the 0x in front, also when strtol is to find out the
\* base.
LEMMA PointerOK ==
  ASSUME NEW v \in 0 .. LONG - 1, NEW w \in Int, NEW pad \in Chr, NEW about,
         about.value = v, about.base = 16
  PROVE  /\ <<"0", "x">> \o printnum(v, 16, w, pad) \in Seq(Chr)
         /\ PaddedOK(<<"0", "x">> \o printnum(v, 16, w, pad), w, pad, "pointer", about)
         /\ ReadOK(<<"0", "x">> \o printnum(v, 16, w, pad), w, pad, "pointer", about)
<1> DEFINE z == printnum(v, 16, w, pad)
           p == <<"0", "x">>
           s == p \o z
<1>1. v \in 0 .. LONG /\ v \in Nat /\ v < LONG /\ LONG \in Nat /\ 16 \in 2 .. 16
  BY LongHoldsInt
<1>2. p \in Seq(Chr) /\ Len(p) = 2
  <2>1. "0" \in Chr /\ "x" \in Chr
    BY DEF Chr
  <2> QED
    BY <2>1
<1> HIDE DEF p
<1>3. z \in Seq(Chr) /\ Len(z) = MaxOf(w, NumDigits(v, 16)) /\ Len(z) \in Nat
  BY <1>1, PrintnumLen
<1>4. s \in Seq(Chr) /\ Len(s) = 2 + Len(z)
  <2> HIDE DEF z
  <2>1. p \o z \in Seq(Chr) /\ Len(p \o z) = Len(p) + Len(z)
    BY <1>2, <1>3, ConcatProperties
  <2> QED
    BY <1>2, <2>1
<1>5. v % LONG = v
  BY <1>1
<1>6. ASSUME w <= NumDigits(v, 16) \/ pad = "0", NEW b0 \in {0, 16}
      PROVE  strtol(s, b0) = [val |-> v % LONG, end |-> Len(s) + 1]
  <2>1. /\ z \in Seq(Chr) /\ Len(z) >= 1
        /\ \A j \in 1 .. Len(z) : z[j] \in Digits(16)
        /\ ReadValue(z, 16) = v
    BY <1>1, <1>6, PlainNumber
  <2> HIDE DEF z
  <2>2. strtol(<<"0", "x">> \o z, b0) = [val |-> ReadValue(z, 16), end |-> Len(<<"0", "x">> \o z) + 1]
    BY <2>1, HexRead
  <2> QED
    BY <1>5, <2>1, <2>2 DEF p
<1>7. NumberShape(s, w, pad, p, NumDigits(v, 16), 16) /\ NumDigits(v, 16) \in Nat
  BY <1>1, <1>2, PrefixedShape, PrintnumShape
<1>8. PrefixOf("pointer", about) = p /\ p # <<>> /\ Needed(about) = NumDigits(v, 16)
  <2>1. Len(<<>>) = 0 /\ 1 # 0 /\ 2 # 0
    OBVIOUS
  <2>2. p # <<>>
    BY <1>2, <2>1, Zenon
  <2>3. Needed(about) = NumDigits(v, 16)
    BY <1>1 DEF Needed
  <2> QED
    BY <2>2, <2>3 DEF PrefixOf, p
<1> HIDE DEF s, z
<1>9. PaddedOK(s, w, pad, "pointer", about)
  BY <1>7, <1>8, Zenon DEF PaddedOK
<1>10. ReadOK(s, w, pad, "pointer", about)
  <2>1. w > NumDigits(v, 16) \/ w <= NumDigits(v, 16)
    BY <1>7
  <2>2. ASSUME w > NumDigits(v, 16) => pad = "0", NEW b0 \in {0, 16}
        PROVE  strtol(s, b0) = [val |-> v % LONG, end |-> Len(s) + 1]
    BY <1>6, <2>1, <2>2, Zenon
  <2>3. {about.base} \cup (IF "pointer" = "pointer" THEN {0} ELSE {}) = {0, 16}
    OBVIOUS
  <2> QED
    BY <1>8, <2>2, <2>3, Zenon DEF ReadOK
<1> QED
  BY <1>4, <1>9, <1>10 DEF p, s, z

\* The character that is shown instead is a character.
LEMMA ShownIs ==
  ASSUME NEW ch \in Chr
  PROVE  Shown(ch) \in Chr
<1>1. "?" \in Chr
  BY DEF Chr
<1> QED
  BY <1>1, Zenon DEF Shown

\* A width is positive or not.
LEMMA WidthSign == \A w \in Int : (w > 0 \/ w <= 0) /\ (w <= 0 => ~(w > 0))
OBVIOUS

\* The two ways to pad a string, and the widths of the padding on either side.
PadWays(k, w, left, right, gap) ==
  \/ w > 0 /\ left = w - k /\ right = MinOf(left, 0) - k /\ gap = MaxOf(w - k, 0)
  \/ w <= 0 /\ left = 0 /\ right = w - k /\ gap = MaxOf(w - k, 0)
  \/ left = 0 /\ right = w - k /\ gap = 0

PadIs(k, w, left, right, gap) ==
  /\ gap \in Nat /\ MaxOf(left, 0) = gap /\ gap + k + MaxOf(right, 0) = MaxOf(w, k)
  /\ gap > 0 => left = gap
  /\ MaxOf(right, 0) > 0 => right = MaxOf(right, 0)

\* String pads by exactly what the text lacks to its width.
LEMMA PadWidths ==
  ASSUME NEW k \in Nat, NEW w \in Int, NEW left \in Int, NEW right \in Int, NEW gap,
         PadWays(k, w, left, right, gap)
  PROVE  PadIs(k, w, left, right, gap)
<1>1. CASE w > 0 /\ left = w - k /\ right = MinOf(left, 0) - k /\ gap = MaxOf(w - k, 0)
  BY <1>1 DEF MaxOf, MinOf, PadIs
<1>2. CASE w <= 0 /\ left = 0 /\ right = w - k /\ gap = MaxOf(w - k, 0)
  BY <1>2 DEF MaxOf, PadIs
<1>3. CASE left = 0 /\ right = w - k /\ gap = 0
  BY <1>3 DEF MaxOf, PadIs
<1> QED
  BY <1>1, <1>2, <1>3 DEF PadWays

\* Where a place j of such a string lies: in the padding on the left, in the
\* text or in the padding on the right.
PlaceIs(k, gap, nr, left, right, j) ==
  /\ j <= gap => j \in 1 .. gap + k /\ j \in 1 .. gap /\ j \in 1 .. left
  /\ ~(j <= gap) /\ j <= gap + k => j \in 1 .. gap + k /\ j \in gap + 1 .. gap + k
  /\ ~(j <= gap) /\ ~(j <= gap + k) =>
       j \in gap + k + 1 .. gap + k + nr /\ j - (gap + k) \in 1 .. right

\* Every place of the field is in one of the three.
LEMMA PadPlace ==
  ASSUME NEW k \in Nat, NEW gap \in Nat, NEW nr \in Nat, NEW left \in Int, NEW right \in Int,
         gap > 0 => left = gap, nr > 0 => right = nr, NEW j \in 1 .. gap + k + nr
  PROVE  PlaceIs(k, gap, nr, left, right, j)
BY DEF PlaceIs

\* A text between its padding.
LEMMA StringOK ==
  ASSUME NEW mid \in Seq(Chr), NEW k \in Nat, Len(mid) = k, NEW w \in Int, NEW pad \in Chr, NEW sp, sp = " ",
         NEW left \in Int, NEW right \in Int,
         \/ w > 0 /\ pad # "-" /\ left = w - k /\ right = MinOf(left, 0) - k
         \/ ~(w > 0 /\ pad # "-") /\ left = 0 /\ right = w - k,
         NEW about, about.text = mid
  PROVE  /\ Repeat(pad, left) \o mid \o Repeat(sp, right) \in Seq(Chr)
         /\ PaddedOK(Repeat(pad, left) \o mid \o Repeat(sp, right), w, pad, "string", about)
<1> DEFINE l == Repeat(pad, left)
           r == Repeat(sp, right)
<1>0. sp \in Chr
  BY Zenon DEF Chr
<1>1. /\ l \in Seq(Chr) /\ Len(l) = MaxOf(left, 0) /\ r \in Seq(Chr) /\ Len(r) = MaxOf(right, 0)
      /\ \A j \in 1 .. left : l[j] = pad
      /\ \A j \in 1 .. right : r[j] = sp
  BY <1>0, RepeatIs
<1> HIDE DEF l, r
<1> DEFINE h == l \o mid
           s == h \o r
           gap == IF pad = "-" THEN 0 ELSE MaxOf(w - k, 0)
<1>2. /\ h \in Seq(Chr) /\ Len(h) = Len(l) + k /\ Len(l) \in Nat
      /\ \A j \in 1 .. Len(l) : h[j] = l[j]
      /\ \A j \in Len(l) + 1 .. Len(l) + k : h[j] = mid[j - Len(l)]
  BY <1>1, Rest
<1> HIDE DEF h
<1>3. /\ s \in Seq(Chr) /\ Len(s) = Len(h) + Len(r) /\ Len(h) \in Nat /\ Len(r) \in Nat
      /\ \A j \in 1 .. Len(h) : s[j] = h[j]
      /\ \A j \in Len(h) + 1 .. Len(h) + Len(r) : s[j] = r[j - Len(h)]
  BY <1>1, <1>2, Rest
<1> HIDE DEF s
<1> DEFINE nl == Len(l)
           nr == Len(r)
           nh == Len(h)
<1>4. /\ nl = MaxOf(left, 0) /\ nr = MaxOf(right, 0) /\ nl \in Nat /\ nr \in Nat
      /\ nh = nl + k /\ nh \in Nat /\ Len(s) = nh + nr
  BY <1>1, <1>2, <1>3
<1> HIDE DEF nl, nr, nh
<1>5. PadWays(k, w, left, right, gap)
  <2>1. (w > 0 \/ w <= 0) /\ (w <= 0 => ~(w > 0))
    BY WidthSign, Zenon
  <2>2. CASE pad = "-"
    <3>1. gap = 0 /\ left = 0 /\ right = w - k
      BY <2>2, Zenon
    <3> QED
      BY <3>1, Zenon DEF PadWays
  <2>3. CASE pad # "-"
    <3>1. gap = MaxOf(w - k, 0)
      BY <2>3, Zenon
    <3>2. CASE w > 0
      BY <2>3, <3>1, <3>2, Zenon DEF PadWays
    <3>3. CASE w <= 0
      BY <2>1, <3>1, <3>3, Zenon DEF PadWays
    <3> QED
      BY <2>1, <3>2, <3>3
  <2> QED
    BY <2>2, <2>3
<1> HIDE DEF gap
<1>6. /\ gap \in Nat /\ nl = gap /\ nh = gap + k /\ Len(s) = MaxOf(w, k) /\ Len(s) = gap + k + nr
      /\ gap > 0 => left = gap
      /\ nr > 0 => right = nr
  <2>1. PadIs(k, w, left, right, gap)
    BY <1>5, PadWidths, Zenon
  <2>2. Len(s) = gap + k + nr /\ Len(s) = gap + k + MaxOf(right, 0)
    BY <1>4, <2>1, Zenon DEF PadIs
  <2> QED
    BY <1>4, <2>1, <2>2, Zenon DEF PadIs
<1>7. ASSUME NEW j \in 1 .. Len(s)
      PROVE  s[j] = IF j <= gap THEN pad ELSE IF j <= gap + k THEN mid[j - gap] ELSE sp
  <2>0. PlaceIs(k, gap, nr, left, right, j)
    <3>1. j \in 1 .. gap + k + nr
      BY <1>6, Zenon
    <3> QED
      BY <1>4, <1>6, <3>1, PadPlace, Zenon
  <2>1. CASE j <= gap
    <3>1. j \in 1 .. nh /\ j \in 1 .. nl /\ j \in 1 .. left
      BY <1>6, <2>0, <2>1, Zenon DEF PlaceIs
    <3>2. s[j] = h[j] /\ h[j] = l[j] /\ l[j] = pad
      BY <1>1, <1>2, <1>3, <3>1, Zenon DEF nh, nl
    <3> QED
      BY <2>1, <3>2
  <2>2. CASE ~(j <= gap) /\ j <= gap + k
    <3>1. j \in 1 .. nh /\ j \in nl + 1 .. nl + k
      BY <1>6, <2>0, <2>2, Zenon DEF PlaceIs
    <3>2. s[j] = h[j] /\ h[j] = mid[j - nl]
      BY <1>2, <1>3, <3>1, Zenon DEF nh, nl
    <3> QED
      BY <1>6, <2>2, <3>2
  <2>3. CASE ~(j <= gap) /\ ~(j <= gap + k)
    <3>1. j \in nh + 1 .. nh + nr /\ j - nh \in 1 .. right
      BY <1>6, <2>0, <2>3, Zenon DEF PlaceIs
    <3>2. s[j] = r[j - nh] /\ r[j - nh] = sp
      BY <1>1, <1>3, <3>1, Zenon DEF nh, nr
    <3> QED
      BY <2>3, <3>2
  <2> QED
    BY <2>1, <2>2, <2>3
<1>8. TextShape(s, w, pad, mid)
  <2>1. gap = IF pad = "-" THEN 0 ELSE MaxOf(w - Len(mid), 0)
    BY DEF gap
  <2> QED
    BY <1>6, <1>7, <2>1 DEF TextShape
<1>9. PaddedOK(s, w, pad, "string", about)
  <2>1. "string" \notin {"number", "pointer"}
    OBVIOUS
  <2> QED
    BY <1>8, <2>1, Zenon DEF PaddedOK
<1> QED
  BY <1>3, <1>9 DEF s, h, l, r

-----------------------------------------------------------------------------
\* A conversion that prints the sequence it should.
Proper ==
  \E ch \in Chr, s \in Seq(Chr) : \E kind, about :
    /\ ch # NUL /\ InEscape(ch) /\ kind # "none" /\ Converted(kind, s, about)
    /\ PaddedOK(s, width, padc, kind, about) /\ ReadOK(s, width, padc, kind, about)

\* Such a conversion is proper.
LEMMA ProperIs ==
  ASSUME NEW ch \in Chr, NEW s \in Seq(Chr), NEW kind, NEW about,
         ch # NUL, InEscape(ch), kind # "none", Converted(kind, s, about),
         PaddedOK(s, width, padc, kind, about), ReadOK(s, width, padc, kind, about)
  PROVE  Proper
BY Zenon DEF Proper

\* %d, with the sign extension of getint and the negation of the most
\* negative number.
LEMMA DecimalProper ==
  ASSUME FmtType, Decimal
  PROVE  Proper
<1>1. padc \in Chr /\ width \in Int
  BY DEF FmtType
<1>2. InEscape("d") /\ "d" \in Chr /\ "d" # NUL
  BY DEF Decimal, Chr, NUL
<1>3. PICK w \in Words :
       LET num == getint(w)
           neg == num >= LONG \div 2
           abs == IF neg THEN LONG - num ELSE num
       IN  Converted("number", (IF neg THEN <<"-">> ELSE <<>>) \o printnum(abs, 10, width, padc),
                     [value |-> Signed(w, IF lflag > 0 THEN LONG ELSE INT), base |-> 10])
  BY DEF Decimal
<1> DEFINE num == getint(w)
           neg == num >= LONG \div 2
           abs == IF neg THEN LONG - num ELSE num
           v   == Signed(w, IF lflag > 0 THEN LONG ELSE INT)
           about == [value |-> v, base |-> 10]
           s == (IF neg THEN <<"-">> ELSE <<>>) \o printnum(abs, 10, width, padc)
<1>4. w \in 0 .. LONG - 1
  BY FmtConstants, Zenon
<1>5. v \in Int /\ abs \in 0 .. LONG - 1 /\ (neg <=> v < 0) /\ abs = IF v < 0 THEN -v ELSE v
  BY <1>4, DecimalValue
<1>6. Converted("number", s, about)
  BY <1>3
<1>7. about.value = v /\ about.base = 10 /\ 10 \in 2 .. 16
  OBVIOUS
<1>8. CASE neg
  <2>1. s = <<"-">> \o printnum(abs, 10, width, padc) /\ v < 0 /\ abs = -v /\ -v \in 0 .. LONG - 1
    BY <1>5, <1>8
  <2> HIDE DEF abs, v, about, neg
  <2>2. /\ <<"-">> \o printnum(-v, 10, width, padc) \in Seq(Chr)
        /\ PaddedOK(<<"-">> \o printnum(-v, 10, width, padc), width, padc, "number", about)
        /\ ReadOK(<<"-">> \o printnum(-v, 10, width, padc), width, padc, "number", about)
    BY <1>1, <1>5, <1>7, <2>1, NegativeOK
  <2> HIDE DEF s
  <2> QED
    BY <1>2, <1>6, <2>1, <2>2, ProperIs
<1>9. CASE ~neg
  <2>1. s = <<>> \o printnum(abs, 10, width, padc) /\ abs = v
    BY <1>5, <1>9
  <2> HIDE DEF abs, v, about, neg
  <2>2. /\ printnum(abs, 10, width, padc) \in Seq(Chr)
        /\ PaddedOK(printnum(abs, 10, width, padc), width, padc, "number", about)
        /\ ReadOK(printnum(abs, 10, width, padc), width, padc, "number", about)
    BY <1>1, <1>5, <1>7, <2>1, NaturalOK
  <2>3. <<>> \o printnum(abs, 10, width, padc) = printnum(abs, 10, width, padc)
    BY <2>2, ConcatEmptySeq
  <2> HIDE DEF s
  <2> QED
    BY <1>2, <1>6, <2>1, <2>2, <2>3, ProperIs
<1> QED
  BY <1>8, <1>9

\* getuint fetches an unsigned long long.
LEMMA GetuintIs ==
  ASSUME NEW w \in 0 .. LONG - 1
  PROVE  getuint(w) \in 0 .. LONG - 1
<1>1. w % INT \in 0 .. INT - 1
  BY LongHoldsInt
<1> QED
  BY <1>1, LongHoldsInt DEF getuint

\* %u, %o and %x.
LEMMA UnsignedProper ==
  ASSUME FmtType, Unsigned
  PROVE  Proper
<1>1. padc \in Chr /\ width \in Int
  BY DEF FmtType
<1> DEFINE baseOf(ch) == CASE ch = "u" -> 10 [] ch = "o" -> 8 [] ch = "x" -> 16
<1>2. PICK ch \in {"u", "o", "x"}, w \in Words :
        /\ InEscape(ch)
        /\ Converted("number", printnum(getuint(w), baseOf(ch), width, padc),
                     [value |-> getuint(w), base |-> baseOf(ch)])
  BY Zenon DEF Unsigned
<1>3. ch \in Chr /\ ch # NUL /\ baseOf(ch) \in 2 .. 16
  <2>1. ch \in Chr /\ ch # NUL
    BY DEF Chr, NUL
  <2>2. baseOf(ch) \in {8, 10, 16}
    OBVIOUS
  <2>3. {8, 10, 16} \subseteq 2 .. 16
    OBVIOUS
  <2> HIDE DEF baseOf
  <2> QED
    BY <2>1, <2>2, <2>3
<1> DEFINE base == baseOf(ch)
           v == getuint(w)
           about == [value |-> v, base |-> base]
           s == printnum(v, base, width, padc)
<1>4. w \in 0 .. LONG - 1
  BY FmtConstants, Zenon
<1>5. v \in 0 .. LONG - 1
  BY <1>4, GetuintIs
<1>6. about.value = v /\ about.base = base
  OBVIOUS
<1>7. Converted("number", s, about) /\ base \in 2 .. 16
  BY <1>2, <1>3
<1> HIDE DEF base, v, about
<1>8. s \in Seq(Chr) /\ PaddedOK(s, width, padc, "number", about) /\ ReadOK(s, width, padc, "number", about)
  BY <1>1, <1>5, <1>6, <1>7, NaturalOK
<1> HIDE DEF s
<1> QED
  BY <1>2, <1>3, <1>7, <1>8, ProperIs

\* %p.
LEMMA PointerProper ==
  ASSUME FmtType, Pointer
  PROVE  Proper
<1>1. padc \in Chr /\ width \in Int
  BY DEF FmtType
<1>2. InEscape("p") /\ "p" \in Chr /\ "p" # NUL
  BY DEF Pointer, Chr, NUL
<1>3. PICK w \in Words :
       Converted("pointer", <<"0", "x">> \o printnum(w, 16, width, padc), [value |-> w, base |-> 16])
  BY DEF Pointer
<1> DEFINE about == [value |-> w, base |-> 16]
           s == <<"0", "x">> \o printnum(w, 16, width, padc)
<1>4. w \in 0 .. LONG - 1
  BY FmtConstants, Zenon
<1>5. about.value = w /\ about.base = 16 /\ Converted("pointer", s, about)
  BY <1>3
<1> HIDE DEF about
<1>6. s \in Seq(Chr) /\ PaddedOK(s, width, padc, "pointer", about) /\ ReadOK(s, width, padc, "pointer", about)
  BY <1>1, <1>4, <1>5, PointerOK
<1> HIDE DEF s
<1> QED
  BY <1>2, <1>5, <1>6, ProperIs

\* What is neither a number nor a string need only be a sequence.
LEMMA PlainProper ==
  ASSUME NEW ch \in Chr, NEW s \in Seq(Chr), NEW kind \in {"char", "error"}, NEW about,
         ch # NUL, InEscape(ch), Converted(kind, s, about)
  PROVE  Proper
<1>1. kind \notin {"string", "number", "pointer"} /\ kind # "none"
  OBVIOUS
<1>2. PaddedOK(s, width, padc, kind, about) /\ ReadOK(s, width, padc, kind, about)
  BY <1>1, Zenon DEF PaddedOK, ReadOK
<1> QED
  BY <1>1, <1>2, ProperIs

\* %c and %%.
LEMMA CharProper ==
  ASSUME Char \/ Percent
  PROVE  Proper
<1>1. "c" \in Chr /\ "%" \in Chr /\ "t" \in Chr /\ "c" # NUL /\ "%" # NUL
  BY DEF Chr, NUL
<1>2. <<"t">> \in Seq(Chr) /\ <<"%">> \in Seq(Chr)
  BY <1>1
<1>3. CASE Char
  BY <1>1, <1>2, <1>3, PlainProper DEF Char
<1>4. CASE Percent
  BY <1>1, <1>2, <1>4, PlainProper DEF Percent
<1> QED
  BY <1>3, <1>4

\* A caller's string, or "(null)".
LEMMA CallersString ==
  ASSUME NEW p \in Strs \cup {<<"(", "n", "u", "l", "l", ")">>}
  PROVE  p \in Seq(Chr)
<1>1. CASE p \in Strs
  <2>1. p \in Seq(STRING)
    BY <1>1, FmtConstants, Zenon
  <2>2. \A ch \in STRING : ch \in Chr
    BY DEF Chr
  <2>3. Len(p) \in Nat /\ p \in [1 .. Len(p) -> STRING]
    BY <2>1, LenProperties
  <2>4. p \in [1 .. Len(p) -> Chr]
    BY <2>2, <2>3
  <2> QED
    BY <2>3, <2>4
<1>2. CASE p = <<"(", "n", "u", "l", "l", ")">>
  <2>1. "(" \in Chr /\ "n" \in Chr /\ "u" \in Chr /\ "l" \in Chr /\ ")" \in Chr
    BY DEF Chr
  <2> QED
    BY <1>2, <2>1
<1> QED
  BY <1>1, <1>2

\* At most precision characters are shown.
LEMMA ShownPart ==
  ASSUME NEW p \in Seq(Chr), precision \in Int
  PROVE  ShownText(p) \in Seq(Chr) /\ Len(ShownText(p)) \in Nat
<1> DEFINE k == IF precision < 0 THEN Len(p) ELSE MinOf(precision, Len(p))
           m == [j \in 1 .. k |-> Shown(p[j])]
<1>1. k \in Nat /\ k <= Len(p)
  BY DEF MinOf
<1> HIDE DEF k
<1>2. \A j \in 1 .. k : p[j] \in Chr
  BY <1>1, ElementOfSeq
<1>3. \A j \in 1 .. k : Shown(p[j]) \in Chr
  BY <1>2, ShownIs
<1>4. m \in [1 .. k -> Chr]
  BY <1>3
<1> HIDE DEF m
<1>5. m \in Seq(Chr) /\ Len(m) = k
  BY <1>1, <1>4
<1> QED
  BY <1>1, <1>5, Zenon DEF ShownText, m, k

\* %s, for every width, precision and flag.
LEMMA StringProper ==
  ASSUME FmtType, String
  PROVE  Proper
<1>1. padc \in Chr /\ width \in Int /\ precision \in Int
  BY DEF FmtType
<1>2. InEscape("s") /\ "s" \in Chr /\ "s" # NUL
  <2>1. InEscape("s")
    BY Zenon DEF String
  <2> QED
    BY <2>1 DEF Chr, NUL
<1>3. PICK p \in Strs \cup {<<"(", "n", "u", "l", "l", ")">>} :
       LET text  == ShownText(p)
           left  == IF width > 0 /\ padc # "-" THEN width - Len(text) ELSE 0
           right == (IF width > 0 /\ padc # "-" THEN MinOf(left, 0) ELSE width) - Len(text)
       IN  Converted("string", Repeat(padc, left) \o text \o Repeat(" ", right), [text |-> text])
  BY Zenon DEF String
<1> DEFINE text  == ShownText(p)
           k     == Len(text)
           left  == IF width > 0 /\ padc # "-" THEN width - k ELSE 0
           right == (IF width > 0 /\ padc # "-" THEN MinOf(left, 0) ELSE width) - k
           about == [text |-> text]
           sp    == " "
           s     == Repeat(padc, left) \o text \o Repeat(sp, right)
<1>4. Converted("string", s, about)
  BY <1>3, Zenon
<1>5. about.text = text /\ sp = " "
  OBVIOUS
<1>6. p \in Seq(Chr)
  BY CallersString
<1> HIDE DEF about, sp
<1>7. text \in Seq(Chr) /\ k \in Nat /\ Len(text) = k
  BY <1>1, <1>6, ShownPart
<1> HIDE DEF text, k
<1>8. /\ left \in Int /\ right \in Int
      /\ \/ width > 0 /\ padc # "-" /\ left = width - k /\ right = MinOf(left, 0) - k
         \/ ~(width > 0 /\ padc # "-") /\ left = 0 /\ right = width - k
  BY <1>1, <1>7 DEF MinOf
<1> HIDE DEF left, right
<1>9. s \in Seq(Chr) /\ PaddedOK(s, width, padc, "string", about)
  BY <1>1, <1>5, <1>7, <1>8, StringOK
<1> HIDE DEF s
<1>10. ReadOK(s, width, padc, "string", about)
  <2>1. "string" \notin {"number", "pointer"}
    OBVIOUS
  <2> QED
    BY <2>1, Zenon DEF ReadOK
<1> QED
  BY <1>2, <1>4, <1>9, <1>10, ProperIs

\* An int as a number.
LEMMA AsIntIs ==
  ASSUME NEW w \in Words
  PROVE  AsInt(w) \in Int /\ AsInt(w) < LONG /\ -AsInt(w) < LONG
<1>1. w \in 0 .. LONG - 1
  BY FmtConstants, Zenon
<1>2. INT \in {INT, LONG}
  OBVIOUS
<1>3. /\ AsInt(w) \in Int
      /\ AsInt(w) >= 0 => AsInt(w) < INT \div 2
      /\ AsInt(w) < 0 => AsInt(w) + INT \in 0 .. INT - 1 /\ AsInt(w) + INT >= INT \div 2
  BY <1>1, <1>2, SignedIs DEF AsInt
<1> HIDE DEF AsInt
<1> QED
  BY <1>3, LongHoldsInt

\* %e, whose own nested call prints a number it does not know.
LEMMA ErrorProper ==
  ASSUME FmtType, Error
  PROVE  Proper
<1> DEFINE sp == " "
           errOf(w) == IF AsInt(w) < 0 THEN -AsInt(w) ELSE AsInt(w)
<1>1. InEscape("e") /\ "e" \in Chr /\ "e" # NUL
  <2>1. InEscape("e")
    BY Zenon DEF Error
  <2> QED
    BY <2>1 DEF Chr, NUL
<1>2. \E w \in Words : Converted("error", IF errOf(w) \notin 1 .. MAXERROR
                              THEN <<"error", sp>> \o printnum(errOf(w), 10, -1, sp)
                              ELSE <<"message">>, errOf(w))
  BY Zenon DEF Error
<1>3. sp \in Chr
  BY Zenon DEF Chr
<1> HIDE DEF sp, errOf
<1>4. PICK w \in Words : Converted("error", IF errOf(w) \notin 1 .. MAXERROR
                              THEN <<"error", sp>> \o printnum(errOf(w), 10, -1, sp)
                              ELSE <<"message">>, errOf(w))
  BY <1>2
<1> DEFINE err == errOf(w)
           n == printnum(err, 10, -1, sp)
           a == <<"error", sp>>
           b == <<"message">>
           s == IF err \notin 1 .. MAXERROR THEN a \o n ELSE b
<1>5. err \in 0 .. LONG /\ 10 \in 2 .. 16 /\ -1 \in Int
  <2>1. AsInt(w) \in Int /\ AsInt(w) < LONG /\ -AsInt(w) < LONG
    BY AsIntIs
  <2> QED
    BY <2>1, LongHoldsInt DEF errOf
<1> HIDE DEF err
<1>6. n \in Seq(Chr)
  BY <1>3, <1>5, PrintnumLen
<1>7. a \in Seq(Chr) /\ b \in Seq(Chr)
  <2>1. "error" \in Chr /\ "message" \in Chr
    BY DEF Chr
  <2> QED
    BY <1>3, <2>1
<1>8. Converted("error", s, err)
  BY <1>4 DEF err
<1> HIDE DEF n, a, b
<1>9. a \o n \in Seq(Chr)
  BY <1>6, <1>7, ConcatProperties
<1>10. s \in Seq(Chr)
  BY <1>7, <1>9
<1> HIDE DEF s
<1> QED
  BY <1>1, <1>8, <1>10, PlainProper

-----------------------------------------------------------------------------
\* The characters of an escape sequence that print nothing.
LEMMA FlagStep ==
  ASSUME FmtInv, Flag
  PROVE  FmtInv' /\ pc' = pc /\ UNCHANGED <<out, conv>>
<1>1. PICK ch \in {"-", "0", ".", "#", "l"} :
       /\ InEscape(ch)
       /\ padc' = IF ch \in {"-", "0"} THEN ch ELSE padc
       /\ width' = IF ch = "." THEN MaxOf(width, 0) ELSE width
  BY DEF Flag
<1>2. /\ i' = i + 1 /\ pc' = pc /\ precision' = precision
      /\ UNCHANGED <<sink, size, ret, buf, cnt, out, conv>>
  BY DEF Flag, target, output
<1>3. FmtType
  BY DEF FmtInv
<1>4. ch \in Chr /\ ch \notin {NUL, "%"}
  BY DEF Chr, NUL
<1>5. pc \in {"escape", "width"} /\ Fetch(ch, Escapes)
  BY <1>1 DEF InEscape
<1>6. padc' \in Chr /\ width' \in Int /\ precision' \in Int
  BY <1>1, <1>2, <1>3, <1>4 DEF FmtType, MaxOf
<1> QED
  BY <1>2, <1>4, <1>5, <1>6, EscapeStep

\* A '*': the width or precision is an argument.
LEMMA StarStep ==
  ASSUME FmtInv, Star
  PROVE  FmtInv' /\ pc' = pc /\ UNCHANGED <<out, conv>>
<1>1. InEscape("*") /\ "*" \in Chr /\ "*" \notin {NUL, "%"}
  BY DEF Star, Chr, NUL
<1>2. PICK w \in Words : process_precision(AsInt(w))
  BY DEF Star
<1>3. /\ i' = i + 1 /\ pc' = pc /\ padc' = padc
      /\ UNCHANGED <<sink, size, ret, buf, cnt, out, conv>>
  BY DEF Star, target, output
<1>4. FmtType
  BY DEF FmtInv
<1>5. AsInt(w) \in Int
  BY AsIntIs
<1>6. padc' \in Chr /\ width' \in Int /\ precision' \in Int
  BY <1>2, <1>3, <1>4, <1>5 DEF FmtType, process_precision
<1> QED
  BY <1>1, <1>3, <1>6, EscapeStep DEF InEscape

\* A digit of a width or precision.
LEMMA DigitIs ==
  ASSUME NEW ch \in Digits(10)
  PROVE  ch \in Chr /\ DigitOf(ch) \in Int /\ ch \notin {NUL, "%"}
<1>1. PICK d \in 1 .. 10 : ch = DigitChar[d]
  BY DEF Digits
<1>2. d \in 1 .. 16
  OBVIOUS
<1>3. ch \in Chr /\ DigitOf(ch) = d - 1
  BY <1>1, <1>2, DigitCharIs, DigitOfIs
<1>4. ch \in {"0", "1", "2", "3", "4", "5", "6", "7", "8", "9", "a", "b", "c", "d", "e", "f"}
  BY <1>1, <1>2, DigitTable, Sixteen
<1>5. ch \notin {NUL, "%"}
  BY <1>4 DEF NUL
<1> QED
  BY <1>3, <1>5

\* A digit of a width or precision is read.
LEMMA WidthDigitStep ==
  ASSUME FmtInv, WidthDigit
  PROVE  FmtInv' /\ pc' = "width" /\ UNCHANGED <<out, conv>>
<1>1. FmtType
  BY DEF FmtInv
<1>2. /\ i' = i + 1 /\ pc' = "width" /\ padc' = padc /\ width' = width
      /\ UNCHANGED <<sink, size, ret, buf, cnt, out, conv>>
  BY DEF WidthDigit, target, output
<1>3. \E ch \in Digits(10) : /\ pc \in {"escape", "width"} /\ Fetch(ch, Escapes)
                             /\ \/ precision' = DigitOf(ch)
                                \/ precision' = precision * 10 + DigitOf(ch)
  BY DEF WidthDigit, InEscape
<1>4. PICK ch \in Digits(10) : /\ pc \in {"escape", "width"} /\ Fetch(ch, Escapes)
                               /\ \/ precision' = DigitOf(ch)
                                  \/ precision' = precision * 10 + DigitOf(ch)
  BY <1>3
<1>5. ch \in Chr /\ DigitOf(ch) \in Int /\ ch \notin {NUL, "%"}
  BY DigitIs
<1>6. padc' \in Chr /\ width' \in Int /\ precision' \in Int
  BY <1>1, <1>2, <1>4, <1>5 DEF FmtType
<1> QED
  BY <1>2, <1>4, <1>5, <1>6, EscapeStep

\* The first character that is no digit stays.
LEMMA WidthDoneStep ==
  ASSUME FmtInv, WidthDone
  PROVE  FmtInv' /\ pc' = "escape" /\ UNCHANGED <<out, conv>>
<1>1. FmtType
  BY DEF FmtInv
<1>2. /\ i' = i /\ pc = "width" /\ pc' = "escape" /\ padc' = padc /\ process_precision(precision)
      /\ UNCHANGED <<sink, size, ret, buf, cnt, out, conv>>
  BY DEF WidthDone, target, output
<1>3. PICK ch \in (Escapes \cup {NUL}) \ Digits(10) : Fetch(ch, Escapes)
  BY DEF WidthDone
<1>4. ch \in Chr
  <2>1. \A c \in Escapes : c \in Chr
    BY FmtConstants, Zenon
  <2> QED
    BY <2>1 DEF Chr
<1>5. padc' \in Chr /\ width' \in Int /\ precision' \in Int
  BY <1>1, <1>2 DEF FmtType, process_precision
<1> QED
  BY <1>2, <1>3, <1>4, <1>5, EscapeStep

\* The last conversion printed what it should, as long as nothing follows it.
FieldInv ==
  conv # NoConv =>
    /\ conv.to \in Nat /\ conv.to <= Len(out)
    /\ pc = "text" /\ conv.to = Len(out) =>
         /\ PaddedOK(Field, width, padc, conv.kind, conv.about)
         /\ ReadOK(Field, width, padc, conv.kind, conv.about)

\* The inductive invariant.
FormatInv == FmtInv /\ FieldInv

\* A step that only adds to the output, or leaves the loop over the text,
\* leaves the last conversion behind.
LEMMA FieldKept ==
  ASSUME FmtType, FmtType', FieldInv, conv' = conv, Len(out') >= Len(out),
         pc' # "text" \/ Len(out') > Len(out) \/ conv = NoConv
  PROVE  FieldInv'
<1>1. Len(out) \in Nat /\ Len(out') \in Nat
  BY DEF FmtType
<1>2. CASE conv = NoConv
  BY <1>2 DEF FieldInv, NoConv
<1>3. CASE conv # NoConv
  <2>1. conv.to \in Nat /\ conv.to <= Len(out)
    BY <1>3 DEF FieldInv
  <2>2. conv'.to \in Nat /\ conv'.to <= Len(out') /\ ~(pc' = "text" /\ conv'.to = Len(out'))
    BY <1>1, <1>3, <2>1
  <2> QED
    BY <2>2, Zenon DEF FieldInv
<1> QED
  BY <1>2, <1>3

\* A proper conversion leaves its output at the end of what was printed.
LEMMA ProperStep ==
  ASSUME FmtInv, Proper
  PROVE  FmtInv' /\ FieldInv'
<1>1. PICK ch \in Chr, s \in Seq(Chr) : \E kind, about :
        /\ ch # NUL /\ InEscape(ch) /\ kind # "none" /\ Converted(kind, s, about)
        /\ PaddedOK(s, width, padc, kind, about) /\ ReadOK(s, width, padc, kind, about)
  BY Zenon DEF Proper
<1>2. PICK kind, about :
        /\ ch # NUL /\ InEscape(ch) /\ kind # "none" /\ Converted(kind, s, about)
        /\ PaddedOK(s, width, padc, kind, about) /\ ReadOK(s, width, padc, kind, about)
  BY <1>1
<1>3. FmtInv'
  BY <1>2, ConvertedStep
<1>4. out' = out \o s /\ pc' = "text" /\ width' = width /\ padc' = padc
  BY <1>2 DEF Converted, putch, escape
<1>5. conv' = [kind |-> kind, from |-> Len(out), to |-> Len(out) + Len(s), about |-> about]
  BY <1>2 DEF Converted
<1>6. out \in Seq(Chr)
  BY DEF FmtInv, FmtType
<1>7. /\ Len(out') = Len(out) + Len(s) /\ Len(out) \in Nat /\ Len(s) \in Nat
      /\ SubSeq(out', Len(out) + 1, Len(out) + Len(s)) = s
  BY <1>4, <1>6, Rest
<1>8. conv'.kind = kind /\ conv'.from = Len(out) /\ conv'.to = Len(out) + Len(s) /\ conv'.about = about
  BY <1>5
<1>9. SubSeq(out', conv'.from + 1, conv'.to) = s
  BY <1>7, <1>8
<1>10. PaddedOK(SubSeq(out', conv'.from + 1, conv'.to), width', padc', conv'.kind, conv'.about)
  BY <1>2, <1>4, <1>8, <1>9, Zenon
<1>11. ReadOK(SubSeq(out', conv'.from + 1, conv'.to), width', padc', conv'.kind, conv'.about)
  BY <1>2, <1>4, <1>8, <1>9, Zenon
<1>12. conv'.to \in Nat /\ conv'.to <= Len(out')
  BY <1>7, <1>8
<1>13. FieldInv'
  BY <1>10, <1>11, <1>12, Zenon DEF FieldInv, Field
<1> QED
  BY <1>3, <1>13

\* Text after a conversion.
LEMMA TextField ==
  ASSUME FmtInv, FmtInv', FieldInv, Text
  PROVE  FieldInv'
<1>1. FmtType /\ FmtType' /\ out \in Seq(Chr) /\ Len(out) \in Nat
  BY DEF FmtInv, FmtType
<1>2. conv' = conv
  BY DEF Text
<1>3. \/ pc' \in {"done", "escape"} /\ out' = out
      \/ \E ch \in Escapes \cup {"%", "t", NUL} : out' = out \o <<ch>>
  BY DEF Text, output, putch
<1>4. \A ch \in Escapes \cup {"%", "t", NUL} : ch \in Chr
  <2>1. \A c \in Escapes : c \in Chr
    BY FmtConstants, Zenon
  <2>2. "%" \in Chr /\ "t" \in Chr /\ NUL \in Chr
    BY DEF Chr
  <2> QED
    BY <2>1, <2>2
<1>5. ASSUME NEW ch \in Chr, out' = out \o <<ch>> PROVE Len(out') > Len(out)
  <2>1. <<ch>> \in Seq(Chr) /\ Len(<<ch>>) = 1
    OBVIOUS
  <2>2. Len(out') = Len(out) + Len(<<ch>>)
    BY <1>1, <1>5, <2>1, ConcatProperties
  <2> QED
    BY <1>1, <2>1, <2>2
<1>6. CASE pc' \in {"done", "escape"} /\ out' = out
  BY <1>1, <1>2, <1>6, FieldKept
<1>7. CASE \E ch \in Escapes \cup {"%", "t", NUL} : out' = out \o <<ch>>
  <2>1. Len(out') > Len(out) /\ Len(out') \in Nat
    BY <1>1, <1>4, <1>5, <1>7 DEF FmtType
  <2>2. Len(out') >= Len(out)
    BY <1>1, <2>1
  <2> QED
    BY <1>1, <1>2, <2>1, <2>2, FieldKept
<1> QED
  BY <1>3, <1>6, <1>7

\* An unknown escape sequence after a conversion.
LEMMA UnknownField ==
  ASSUME FmtInv, FmtInv', FieldInv, Unknown
  PROVE  FieldInv'
<1>1. FmtType /\ FmtType' /\ out \in Seq(Chr) /\ Len(out) \in Nat
  BY DEF FmtInv, FmtType
<1>2. conv' = conv /\ out' = out \o <<"%">>
  BY DEF Unknown, putch
<1>3. <<"%">> \in Seq(Chr) /\ Len(<<"%">>) = 1
  <2>1. "%" \in Chr
    BY DEF Chr
  <2> QED
    BY <2>1
<1>4. Len(out') = Len(out) + Len(<<"%">>)
  BY <1>1, <1>2, <1>3, ConcatProperties
<1>5. Len(out') > Len(out) /\ Len(out') >= Len(out)
  BY <1>1, <1>3, <1>4
<1> QED
  BY <1>1, <1>2, <1>5, FieldKept

\* Nothing is converted yet.
LEMMA FormatInitially == FmtInit => FormatInv
<1>1. FmtInit => conv = NoConv
  BY Zenon DEF FmtInit
<1> QED
  BY <1>1, FmtInitially, Zenon DEF FormatInv, FieldInv

\* A step that leaves the output and the last conversion alone.
LEMMA QuietField ==
  ASSUME FmtInv, FmtInv', FieldInv, conv' = conv, out' = out, pc' # "text" \/ conv = NoConv
  PROVE  FieldInv'
<1>1. FmtType /\ FmtType' /\ Len(out) \in Nat /\ Len(out') >= Len(out)
  BY DEF FmtInv, FmtType
<1> QED
  BY <1>1, FieldKept

\* Every step of vprintfmt keeps the invariant.
LEMMA FormatStep == FormatInv /\ [FmtNext]_fmt_vars => FormatInv'
<1> SUFFICES ASSUME FormatInv, [FmtNext]_fmt_vars PROVE FormatInv'
  OBVIOUS
<1>1. FmtInv /\ FieldInv /\ FmtType
  BY DEF FormatInv, FmtInv
<1>2. CASE Call
  <2>1. FmtInv'
    BY <1>1, <1>2, CallStep
  <2>2. conv' = conv /\ out' = out /\ conv = NoConv
    BY <1>1, <1>2 DEF Call, output, FmtInv, FmtRead
  <2> QED
    BY <1>1, <2>1, <2>2, QuietField DEF FormatInv
<1>3. CASE Text
  BY <1>1, <1>3, TextStep, TextField DEF FormatInv
<1>4. CASE Flag
  <2>1. FmtInv' /\ pc' = pc /\ UNCHANGED <<out, conv>>
    BY <1>1, <1>4, FlagStep
  <2>2. pc' # "text"
    BY <1>4, <2>1 DEF Flag, InEscape
  <2> QED
    BY <1>1, <2>1, <2>2, QuietField DEF FormatInv
<1>5. CASE Star
  <2>1. FmtInv' /\ pc' = pc /\ UNCHANGED <<out, conv>>
    BY <1>1, <1>5, StarStep
  <2>2. pc' # "text"
    BY <1>5, <2>1 DEF Star, InEscape
  <2> QED
    BY <1>1, <2>1, <2>2, QuietField DEF FormatInv
<1>6. CASE WidthDigit
  <2>1. FmtInv' /\ pc' = "width" /\ UNCHANGED <<out, conv>>
    BY <1>1, <1>6, WidthDigitStep
  <2> QED
    BY <1>1, <2>1, QuietField DEF FormatInv
<1>7. CASE WidthDone
  <2>1. FmtInv' /\ pc' = "escape" /\ UNCHANGED <<out, conv>>
    BY <1>1, <1>7, WidthDoneStep
  <2> QED
    BY <1>1, <2>1, QuietField DEF FormatInv
<1>8. CASE Decimal \/ Unsigned \/ Pointer \/ String \/ Error \/ Char \/ Percent
  <2>1. Proper
    BY <1>1, <1>8, DecimalProper, UnsignedProper, PointerProper, StringProper, ErrorProper, CharProper
  <2> QED
    BY <1>1, <2>1, ProperStep DEF FormatInv
<1>9. CASE Unknown
  BY <1>1, <1>9, UnknownStep, UnknownField DEF FormatInv
<1>10. CASE UNCHANGED fmt_vars
  BY <1>1, <1>10 DEF fmt_vars, escape, target, output, FormatInv, FmtInv, FmtType, FmtRead, EscapeInv, EscapeAt,
     SamePrefix, BufInv, Fits, BufferHoldsPrefix, FieldInv, Field
<1> QED
  BY <1>2, <1>3, <1>4, <1>5, <1>6, <1>7, <1>8, <1>9, <1>10 DEF FmtNext

\* The invariant holds throughout.
LEMMA FormatAlways == FmtSpec => []FormatInv
<1>1. FmtInit => FormatInv
  BY FormatInitially
<1>2. FormatInv /\ [FmtNext]_fmt_vars => FormatInv'
  BY FormatStep
<1> QED
  BY <1>1, <1>2, PTL DEF FmtSpec

(***************************************************************************)
(* vprintfmt's state stays in its types, and cnt is the number of          *)
(* characters that putch was given, for every format, argument and buffer  *)
(* size.                                                                   *)
(***************************************************************************)
THEOREM FormatTypes == FmtSpec => []FmtType
<1>1. FormatInv => FmtType
  BY DEF FormatInv, FmtInv
<1> QED
  BY <1>1, FormatAlways, PTL

(***************************************************************************)
(* vsnprintf leaves in a buffer of any size as much of the output as fits  *)
(* with the '\0', and returns the length of all of it.                     *)
(***************************************************************************)
THEOREM PrefixKept == FmtSpec => []BufferHoldsPrefix
<1>1. FormatInv => BufferHoldsPrefix
  BY DEF FormatInv, FmtInv, BufInv
<1> QED
  BY <1>1, FormatAlways, PTL

(***************************************************************************)
(* A format of any length without conversions is printed as it is, its     *)
(* unknown escape sequences included, and nothing behind the '\0' is read. *)
(***************************************************************************)
THEOREM UnknownLiteral == FmtSpec => []LiteralEscapes
<1>1. FormatInv => LiteralEscapes
  <2> SUFFICES ASSUME FormatInv PROVE LiteralEscapes
    OBVIOUS
  <2>1. FmtType /\ FmtRead /\ EscapeInv
    BY DEF FormatInv, FmtInv
  <2>2. pc = "done" /\ conv = NoConv /\ ret >= 0 => Append(out, NUL) = fmt
    BY <2>1 DEF EscapeInv
  <2>3. ASSUME pc # "done", ~(i <= Len(fmt)) PROVE NUL \notin Range(fmt)
    <3>1. fmt \in Seq(Chr) /\ Len(fmt) \in Nat /\ i \in Nat
      BY <2>1 DEF FmtType
    <3>2. \A k \in 1 .. Len(fmt) : fmt[k] # NUL
      BY <2>1, <2>3, <3>1 DEF FmtRead
    <3>3. DOMAIN fmt = 1 .. Len(fmt)
      BY <3>1
    <3> QED
      BY <3>2, <3>3 DEF Range
  <2> QED
    BY <2>2, <2>3 DEF LiteralEscapes
<1> QED
  BY <1>1, FormatAlways, PTL

(***************************************************************************)
(* Strings and numbers of any length take their width, or what they need,  *)
(* in every base, and their padding is where FieldsPadded says: left of a  *)
(* string, or right of it with '-'; between the sign or "0x" and the       *)
(* digits of a number.                                                     *)
(***************************************************************************)
THEOREM PaddingExact == FmtSpec => []FieldsPadded
<1>1. FormatInv => FieldsPadded
  <2> SUFFICES ASSUME FormatInv PROVE FieldsPadded
    OBVIOUS
  <2>1. FieldInv
    BY DEF FormatInv
  <2>2. NoConv.kind = "none"
    BY DEF NoConv
  <2>3. ASSUME NEW kinds, kinds \subseteq {"string", "number", "pointer"}, JustPrinted(kinds)
        PROVE  PaddedOK(Field, width, padc, conv.kind, conv.about) /\ conv.kind \in kinds
    <3>1. conv # NoConv /\ pc = "text" /\ conv.to = Len(out) /\ conv.kind \in kinds
      BY <2>2, <2>3 DEF JustPrinted
    <3> QED
      BY <2>1, <3>1, Zenon DEF FieldInv
  <2>4. ASSUME JustPrinted({"string"}) PROVE TextShape(Field, width, padc, conv.about.text)
    <3>1. PaddedOK(Field, width, padc, conv.kind, conv.about) /\ conv.kind = "string"
      BY <2>3, <2>4
    <3> QED
      BY <3>1, Zenon DEF PaddedOK
  <2>5. ASSUME JustPrinted({"number", "pointer"})
        PROVE  PaddedOK(Field, width, padc, conv.kind, conv.about) /\ conv.kind \in {"number", "pointer"}
    BY <2>3, <2>5
  <2> QED
    BY <2>4, <2>5, Zenon DEF FieldsPadded, PaddedOK
<1> QED
  BY <1>1, FormatAlways, PTL

(***************************************************************************)
(* strtol reads back every number that vprintfmt prints, in every base and *)
(* for every word size, if it is not padded, or padded with zeros, or with *)
(* blanks and without a sign or "0x". Fields padded with '-' are left out: *)
(* that character is read as a sign.                                       *)
(***************************************************************************)
THEOREM PrintedReadsBack == FmtSpec => []NumbersReadBack
<1>1. FormatInv => NumbersReadBack
  <2> SUFFICES ASSUME FormatInv PROVE NumbersReadBack
    OBVIOUS
  <2>1. FieldInv
    BY DEF FormatInv
  <2>2. NoConv.kind = "none" /\ "none" \notin {"number", "pointer"}
    BY DEF NoConv
  <2>3. ASSUME JustPrinted({"number", "pointer"})
        PROVE  ReadOK(Field, width, padc, conv.kind, conv.about) /\ conv.kind \in {"number", "pointer"}
    <3>1. conv # NoConv /\ pc = "text" /\ conv.to = Len(out) /\ conv.kind \in {"number", "pointer"}
      BY <2>2, <2>3 DEF JustPrinted
    <3> QED
      BY <2>1, <3>1, Zenon DEF FieldInv
  <2> QED
    BY <2>3, Zenon DEF NumbersReadBack, ReadOK
<1> QED
  BY <1>1, FormatAlways, PTL
=============================================================================
