--------------------------- MODULE MonitorProofs ---------------------------
(***************************************************************************)
(* Theorems about Monitor, for every size of the line buffer and of argv,  *)
(* every alphabet and every depth of the stack. The invariant relates the  *)
(* line buffer to the line on the screen position by position, through     *)
(* reading, erasing and the cutting up in place by parse, and says that    *)
(* argv lists the beginnings of words in order.                            *)
(***************************************************************************)
EXTENDS Monitor, FiniteSetTheorems, SequenceTheorems, WellFoundedInduction, TLAPS

\* The positions of a line at which a word begins.
Starts(l) == {k \in 1 .. Len(l) : l[k] # Space /\ (k = 1 \/ l[k - 1] = Space)}
\* A line has been entered and is being taken apart or run.
Parsing   == at \in {"skip", "scan", "runcmd"}
\* The number of characters of which parse knows whether a word begins there.
Looked    == IF at = "scan" THEN buf + 1 ELSE buf

TypeInv ==
  /\ at \in {"__panic", "kmonitor", "readline", "skip", "scan", "runcmd", "undefined"}
  /\ line \in [0 .. BUFSIZE - 1 -> Printable \cup {NUL}]
  /\ typed \in Seq(Printable) /\ i = Len(typed) /\ i \in 0 .. BUFSIZE - 1
  /\ buf \in Nat /\ argv \in Seq(Nat)

\* The message has been printed exactly if is_panic is set.
PanicInv ==
  /\ is_panic \in BOOLEAN
  /\ messages = IF is_panic THEN 1 ELSE 0
  /\ at # "__panic" => is_panic

\* While a line is read, the buffer holds what is on the screen; what lies
\* behind may be left from a longer line.
ReadInv == at = "readline" => \A k \in 1 .. i : line[k - 1] = typed[k]

(***************************************************************************)
(* While it is parsed, the buffer holds the line with every space that has *)
(* been passed replaced by '\0', and a '\0' behind it, so that parse never *)
(* reads what an earlier line left there. Where parse skips, a word can    *)
(* begin.                                                                  *)
(***************************************************************************)
LineInv ==
  Parsing =>
    /\ buf \in 0 .. i /\ line[i] = NUL
    /\ \A k \in 1 .. i : line[k - 1] = IF typed[k] = Space /\ k <= buf THEN NUL ELSE typed[k]
    /\ at = "runcmd" => buf = i
    /\ at = "skip" => buf = 0 \/ buf = i \/ typed[buf] = Space \/ typed[buf + 1] = Space

\* argv lists the beginnings of the words found so far, each once, from left
\* to right.
ArgvInv ==
  Parsing =>
    /\ \A w \in 1 .. Len(argv) : argv[w] + 1 \in Starts(typed) /\ argv[w] + 1 <= Looked
    /\ \A k \in Starts(typed) : k <= Looked => \E w \in 1 .. Len(argv) : k = argv[w] + 1
    /\ \A v, w \in 1 .. Len(argv) : v < w => argv[v] < argv[w]

Inv == TypeInv /\ PanicInv /\ ReadInv /\ LineInv /\ ArgvInv

-----------------------------------------------------------------------------
LEMMA InitInv == Init => Inv
<1> SUFFICES ASSUME Init PROVE Inv
  OBVIOUS
<1>1. typed \in Seq(Printable) /\ argv \in Seq(Nat) /\ Len(typed) = 0
  BY DEF Init
<1>2. TypeInv
  BY <1>1, MonitorConstants DEF Init, TypeInv
<1> QED
  BY <1>2 DEF Init, Inv, PanicInv, ReadInv, LineInv, ArgvInv, Parsing

\* Only __panic changes is_panic and the messages.
LEMMA PanicKept == PanicInv /\ [Next]_vars => PanicInv'
<1> SUFFICES ASSUME PanicInv, [Next]_vars PROVE PanicInv'
  OBVIOUS
<1> USE DEF PanicInv, panicking
<1>1. CASE Panic
  <2>1. CASE is_panic
    BY <1>1, <2>1 DEF Panic
  <2>2. CASE ~is_panic
    BY <1>1, <2>2 DEF Panic
  <2> QED
    BY <2>1, <2>2
<1>2. CASE UNCHANGED <<is_panic, messages>> /\ at # "__panic"
  BY <1>2
<1>3. CASE UNCHANGED vars
  BY <1>3 DEF vars
<1>4. Code /\ ~Panic => UNCHANGED <<is_panic, messages>> /\ at # "__panic"
  BY DEF Code, Prompt, SkipSpace, SaveArg, ScanArg, ParseDone, CommandReturns, mon_backtrace
<1>5. Input => UNCHANGED <<is_panic, messages>> /\ at # "__panic"
  BY DEF Input, ReadPrintable, ReadBackspace, ReadNewline, ReadError
<1> QED
  BY <1>1, <1>2, <1>3, <1>4, <1>5 DEF Next

\* The first panic prints its message and no panic inside the monitor prints
\* another: see OneMessage in Monitor.
THEOREM FirstMessageOnly == Spec => []OneMessage
<1>1. Init => PanicInv
  BY DEF Init, PanicInv
<1>2. PanicInv => OneMessage
  BY DEF PanicInv, OneMessage
<1> QED
  BY <1>1, <1>2, PanicKept, PTL DEF Spec

-----------------------------------------------------------------------------
\* The part of the invariant that is about the line.
Text == TypeInv /\ ReadInv /\ LineInv /\ ArgvInv

\* The line without the character that backspace erases.
LEMMA FrontIs ==
  ASSUME NEW l \in Seq(Printable), Len(l) > 0
  PROVE  /\ Front(l) \in Seq(Printable) /\ Len(Front(l)) = Len(l) - 1
         /\ \A k \in 1 .. Len(l) - 1 : Front(l)[k] = l[k]
<1>1. Len(l) \in Nat /\ \A k \in 1 .. Len(l) - 1 : l[k] \in Printable
  OBVIOUS
<1> DEFINE m == Len(l) - 1
<1>2. 1 \in Int /\ m \in Int /\ m >= 0 /\ \A k \in 1 .. m : l[k] \in Printable
  BY <1>1
<1> HIDE DEF m
<1>3. /\ SubSeq(l, 1, m) \in Seq(Printable)
      /\ Len(SubSeq(l, 1, m)) = IF 1 <= m THEN m - 1 + 1 ELSE 0
      /\ \A k \in 1 .. m - 1 + 1 : SubSeq(l, 1, m)[k] = l[1 + k - 1]
  BY <1>2, SubSeqProperties
<1>4. Front(l) = SubSeq(l, 1, m)
  BY DEF Front, m
<1>5. Len(Front(l)) = m /\ \A k \in 1 .. m : Front(l)[k] = l[k]
  BY <1>2, <1>3, <1>4
<1> QED
  BY <1>3, <1>4, <1>5 DEF m

\* What can be typed is no '\0'.
LEMMA CharsApart == NUL \notin Printable /\ NUL # Space
  BY MonitorConstants DEF Printable, NUL, Space

\* Every step of readline and parse keeps buffer, screen and arguments in
\* step.
LEMMA TextKept == Text /\ [Next]_vars => Text'
<1> SUFFICES ASSUME Text, [Next]_vars PROVE Text'
  OBVIOUS
<1> USE DEF panicking, reading, parsing
<1>0. TypeInv /\ ReadInv /\ LineInv /\ ArgvInv
  BY DEF Text
<1>a. /\ i \in 0 .. BUFSIZE - 1 /\ BUFSIZE \in Nat \ {0} /\ Len(typed) = i /\ Len(typed) \in Nat
      /\ \A k \in 1 .. i : typed[k] \in Printable
  BY <1>0, MonitorConstants DEF TypeInv
<1>1. ASSUME Panic \/ Prompt \/ ReadError \/ CommandReturns \/ mon_backtrace
      PROVE  Text'
  <2>1. TypeInv'
    <3>1. <<>> \in Seq(Printable) /\ Len(<<>>) = 0
      OBVIOUS
    <3> QED
      BY <1>0, <1>1, <1>a, <3>1
         DEF TypeInv, Panic, Prompt, ReadError, CommandReturns, mon_backtrace
  <2>2. ~Parsing' /\ ReadInv'
    BY <1>1 DEF ReadInv, Parsing, Panic, Prompt, ReadError, CommandReturns, mon_backtrace
  <2> QED
    BY <2>1, <2>2 DEF Text, LineInv, ArgvInv
<1>2. ASSUME NEW c \in Printable, ReadPrintable(c) PROVE Text'
  <2> USE <1>2 DEF ReadPrintable
  <2>1. TypeInv'
    BY <1>0, <1>a DEF TypeInv
  <2>2. ASSUME NEW k \in 1 .. i' PROVE line'[k - 1] = typed'[k]
    <3>1. CASE k = i + 1
      BY <1>0, <1>a, <3>1 DEF TypeInv
    <3>2. CASE k \in 1 .. i
      BY <1>0, <1>a, <3>2 DEF TypeInv, ReadInv
    <3> QED
      BY <1>a, <3>1, <3>2
  <2>3. ~Parsing'
    BY DEF Parsing
  <2> QED
    BY <2>1, <2>2, <2>3 DEF Text, ReadInv, LineInv, ArgvInv
<1>3. CASE ReadBackspace
  <2> USE <1>3 DEF ReadBackspace
  <2>1. /\ Front(typed) \in Seq(Printable) /\ Len(Front(typed)) = i - 1
        /\ \A k \in 1 .. i - 1 : Front(typed)[k] = typed[k]
    BY <1>0, <1>a, FrontIs DEF TypeInv
  <2>2. TypeInv'
    BY <1>0, <1>a, <2>1 DEF TypeInv
  <2>3. ReadInv'
    BY <1>0, <1>a, <2>1 DEF ReadInv
  <2>4. ~Parsing'
    BY DEF Parsing
  <2> QED
    BY <2>2, <2>3, <2>4 DEF Text, LineInv, ArgvInv
<1>4. CASE ReadNewline
  <2> USE <1>4 DEF ReadNewline
  <2>1. TypeInv'
    BY <1>0, <1>a DEF TypeInv
  <2>2. LineInv'
    BY <1>0, <1>a DEF TypeInv, ReadInv, LineInv, Parsing
  <2>3. ArgvInv'
    <3>1. Len(argv') = 0 /\ Looked' = 0
      BY DEF Looked
    <3>2. \A k \in Starts(typed') : k > 0
      BY <1>a DEF Starts
    <3> QED
      BY <3>1, <3>2 DEF ArgvInv, Starts
  <2> QED
    BY <2>1, <2>2, <2>3 DEF Text, ReadInv
<1>5. CASE SkipSpace
  <2> USE <1>5 DEF SkipSpace
  <2>1. buf \in 0 .. i /\ Parsing /\ Parsing'
    BY <1>0 DEF LineInv, Parsing
  <2>2. buf < i /\ typed[buf + 1] = Space
    BY <1>0, <1>a, <2>1, CharsApart DEF LineInv
  <2>3. TypeInv'
    BY <1>0, <1>a, <2>2 DEF TypeInv
  <2>4. LineInv'
    <3>1. ASSUME NEW k \in 1 .. i
          PROVE  line'[k - 1] = IF typed[k] = Space /\ k <= buf' THEN NUL ELSE typed[k]
      <4>1. CASE k = buf + 1
        BY <1>0, <1>a, <2>1, <2>2, <4>1 DEF TypeInv
      <4>2. CASE k # buf + 1
        <5>1. line'[k - 1] = line[k - 1]
          BY <1>0, <1>a, <2>1, <2>2, <4>2 DEF TypeInv
        <5>2. k <= buf' <=> k <= buf
          BY <1>a, <2>1, <4>2
        <5> QED
          BY <1>0, <2>1, <5>1, <5>2 DEF LineInv
      <4> QED
        BY <4>1, <4>2
    <3>2. line'[i] = NUL
      BY <1>0, <1>a, <2>1, <2>2 DEF TypeInv, LineInv
    <3> QED
      BY <1>a, <2>1, <2>2, <3>1, <3>2 DEF LineInv
  <2>5. ArgvInv'
    <3>1. buf + 1 \notin Starts(typed)
      BY <2>2 DEF Starts
    <3>2. Looked = buf /\ Looked' = buf + 1
      BY DEF Looked
    <3> QED
      <4>1. \A k \in Starts(typed) : k \in Int /\ (k <= Looked' <=> k <= Looked)
        BY <1>a, <2>1, <3>1, <3>2 DEF Starts
      <4>2. typed' = typed /\ argv' = argv
        OBVIOUS
      <4> QED
        BY <1>0, <2>1, <4>1, <4>2 DEF ArgvInv
  <2> QED
    BY <2>3, <2>4, <2>5 DEF Text, ReadInv
<1>6. CASE SaveArg /\ Len(argv) < MAXARGS
  <2> USE <1>6, MonitorConstants DEF SaveArg
  <2>1. buf \in 0 .. i /\ Parsing /\ Parsing' /\ argv' = Append(argv, buf) /\ at' = "scan"
    BY <1>0 DEF LineInv, Parsing, TypeInv
  <2>2. buf < i /\ typed[buf + 1] # Space
    BY <1>0, <1>a, <2>1 DEF LineInv
  <2>3. TypeInv'
    BY <1>0, <1>a, <2>1 DEF TypeInv
  <2>4. LineInv'
    BY <1>0, <1>a, <2>1 DEF LineInv
  <2>5. buf + 1 \in Starts(typed)
    BY <1>0, <1>a, <2>1, <2>2 DEF LineInv, Starts
  <2>6. Looked = buf /\ Looked' = buf + 1
    BY <2>1 DEF Looked
  <2>7. ArgvInv'
    <3>1. /\ Len(argv) \in Nat /\ Len(argv') = Len(argv) + 1 /\ argv'[Len(argv) + 1] = buf
          /\ \A w \in 1 .. Len(argv) : argv'[w] = argv[w] /\ argv[w] \in Nat
      BY <1>0, <2>1 DEF TypeInv
    <3>2. \A w \in 1 .. Len(argv) : argv[w] < buf /\ argv[w] + 1 \in Starts(typed)
      BY <1>0, <2>1, <2>6, <3>1 DEF ArgvInv
    <3>3. ASSUME NEW w \in 1 .. Len(argv')
          PROVE  argv'[w] + 1 \in Starts(typed) /\ argv'[w] + 1 <= Looked'
      <4>1. CASE w = Len(argv) + 1
        BY <2>1, <2>5, <2>6, <3>1, <4>1
      <4>2. CASE w \in 1 .. Len(argv)
        BY <2>1, <2>6, <3>1, <3>2, <4>2
      <4> QED
        BY <3>1, <4>1, <4>2
    <3>4. ASSUME NEW k \in Starts(typed), k <= Looked'
          PROVE  \E w \in 1 .. Len(argv') : k = argv'[w] + 1
      <4>1. CASE k = buf + 1
        BY <3>1, <4>1
      <4>2. CASE k <= buf
        <5>1. PICK w \in 1 .. Len(argv) : k = argv[w] + 1
          BY <1>0, <2>1, <2>6, <4>2 DEF ArgvInv
        <5> QED
          BY <3>1, <5>1
      <4>3. k \in Int
        BY <1>a DEF Starts
      <4> QED
        BY <2>1, <2>6, <3>4, <4>1, <4>2, <4>3
    <3>5. ASSUME NEW v \in 1 .. Len(argv'), NEW w \in 1 .. Len(argv'), v < w
          PROVE  argv'[v] < argv'[w]
      <4>1. v \in 1 .. Len(argv)
        BY <3>1, <3>5
      <4>2. CASE w = Len(argv) + 1
        BY <3>1, <3>2, <4>1, <4>2
      <4>3. CASE w \in 1 .. Len(argv)
        BY <1>0, <2>1, <3>1, <3>5, <4>1, <4>3 DEF ArgvInv
      <4> QED
        BY <3>1, <4>2, <4>3
    <3> QED
      BY <3>3, <3>4, <3>5 DEF ArgvInv
  <2> QED
    BY <2>1, <2>3, <2>4, <2>7 DEF Text, ReadInv
<1>7. CASE SaveArg /\ ~(Len(argv) < MAXARGS)
  <2>1. at' = "undefined" /\ UNCHANGED <<line, i, typed, buf, argv>>
    BY <1>7 DEF SaveArg
  <2> QED
    BY <1>0, <2>1 DEF Text, TypeInv, ReadInv, LineInv, ArgvInv, Parsing
<1>8. CASE ScanArg
  <2> USE <1>8 DEF ScanArg
  <2>1. buf \in 0 .. i /\ Parsing /\ Parsing' /\ at = "scan" /\ Looked = buf + 1
    BY <1>0 DEF LineInv, Parsing, Looked
  <2>2. CASE line[buf] \notin {NUL, Space}
    <3>1. buf' = buf + 1 /\ at' = "scan" /\ Looked' = buf + 2
      BY <2>1, <2>2 DEF Looked
    <3>2. buf < i /\ typed[buf + 1] # Space
      BY <1>0, <1>a, <2>1, <2>2 DEF LineInv
    <3>3. TypeInv'
      BY <1>0, <2>1, <3>1 DEF TypeInv
    <3>4. LineInv'
      <4>1. ASSUME NEW k \in 1 .. i
            PROVE  line'[k - 1] = IF typed[k] = Space /\ k <= buf' THEN NUL ELSE typed[k]
        <5>1. CASE k = buf + 1
          BY <1>0, <2>1, <3>2, <5>1 DEF LineInv
        <5>2. CASE k # buf + 1
          <6>1. k <= buf' <=> k <= buf
            BY <1>a, <2>1, <3>1, <5>2
          <6> QED
            BY <1>0, <2>1, <6>1 DEF LineInv
        <5> QED
          BY <5>1, <5>2
      <4> QED
        BY <1>0, <1>a, <2>1, <3>1, <3>2, <4>1 DEF LineInv
    <3>5. ArgvInv'
      <4>1. buf + 2 \notin Starts(typed)
        BY <2>1, <3>2 DEF Starts
      <4> QED
        BY <1>0, <1>a, <2>1, <3>1, <4>1 DEF ArgvInv, Starts
    <3> QED
      BY <3>1, <3>3, <3>4, <3>5 DEF Text, ReadInv
  <2>3. CASE line[buf] \in {NUL, Space}
    <3>1. at' = "skip" /\ UNCHANGED <<buf, line, i, typed, argv>> /\ Looked' = buf
      BY <2>1, <2>3 DEF Looked
    <3>2. buf = i \/ typed[buf + 1] = Space
      BY <1>0, <1>a, <2>1, <2>3, CharsApart DEF LineInv
    <3>3. buf + 1 \notin Starts(typed)
      BY <1>a, <2>1, <3>2 DEF Starts
    <3>4. LineInv'
      BY <1>0, <2>1, <3>1, <3>2 DEF LineInv
    <3>5. ArgvInv'
      BY <1>0, <1>a, <2>1, <3>1, <3>3 DEF ArgvInv, Starts
    <3> QED
      BY <1>0, <3>1, <3>4, <3>5 DEF Text, TypeInv, ReadInv
  <2> QED
    BY <2>2, <2>3
<1>9. CASE ParseDone
  <2>1. /\ at = "skip" /\ line[buf] = NUL /\ at' = "runcmd"
        /\ UNCHANGED <<line, i, typed, buf, argv>> /\ Looked' = Looked /\ Parsing /\ Parsing'
    BY <1>9 DEF ParseDone, Looked, Parsing
  <2>2. buf = i
    BY <1>0, <1>a, <2>1, CharsApart DEF LineInv
  <2> QED
    BY <1>0, <2>1, <2>2 DEF Text, TypeInv, ReadInv, LineInv, ArgvInv
<1>10. CASE UNCHANGED vars
  BY <1>0, <1>10 DEF vars, Text, TypeInv, ReadInv, LineInv, ArgvInv, Parsing, Looked
<1> QED
  BY <1>1, <1>2, <1>3, <1>4, <1>5, <1>6, <1>7, <1>8, <1>9, <1>10 DEF Next, Code, Input

\* The line buffer, the screen and the arguments agree at every step of
\* readline and parse, and the message is printed once.
THEOREM MonitorInvariant == Spec => []Inv
<1>1. Inv <=> PanicInv /\ Text
  BY DEF Inv, Text
<1>2. Inv /\ [Next]_vars => Inv'
  BY PanicKept, TextKept DEF Inv, Text
<1> QED
  BY <1>2, InitInv, PTL DEF Spec

(***************************************************************************)
(* The position that readline writes next and the position that parse      *)
(* reads next are inside the buffer of BUFSIZE bytes.                      *)
(***************************************************************************)
LineInBounds ==
  /\ at = "readline" => i \in 0 .. BUFSIZE - 1
  /\ at \in {"skip", "scan"} => buf \in 0 .. BUFSIZE - 1

\* readline and parse never leave the line buffer, however much is typed:
\* readline keeps room for the '\0', and parse stops at it.
THEOREM StaysInLine == Spec => []LineInBounds
<1>1. Inv => LineInBounds
  BY MonitorConstants DEF Inv, TypeInv, LineInv, Parsing, LineInBounds
<1> QED
  BY <1>1, MonitorInvariant, PTL

-----------------------------------------------------------------------------
\* A set of natural numbers that is not empty has a least element.
LEMMA Least ==
  ASSUME NEW T, T \subseteq Nat, T # {}
  PROVE  \E k \in T : \A j \in T : k <= j
<1> DEFINE R == {ss \in Nat \X Nat : ss[1] < ss[2]}
<1>1. R = OpToRel(<, Nat)
  BY DEF OpToRel
<1>2. IsWellFoundedOn(R, Nat)
  BY <1>1, NatLessThanWellFounded
<1>3. \E k \in T : \A j \in T : ~(<<j, k>> \in R)
  <2> HIDE DEF R
  <2> QED
    BY <1>2, WFMin
<1>4. ASSUME NEW j \in Nat, NEW k \in Nat, ~(<<j, k>> \in R) PROVE k <= j
  BY <1>4
<1> QED
  BY <1>3, <1>4

\* e is the last character of the word that begins at k; the one that Words
\* takes.
WordEnd(l, k, e) ==
  /\ \A m \in k .. e : l[m] # Space
  /\ e = Len(l) \/ l[e + 1] = Space

WordLast(l, k) == CHOOSE e \in k .. Len(l) : WordEnd(l, k, e)

\* Every word ends.
LEMMA WordEnds ==
  ASSUME NEW l \in Seq(Printable), NEW k \in Starts(l)
  PROVE  WordLast(l, k) \in k .. Len(l) /\ WordEnd(l, k, WordLast(l, k))
<1>0. Len(l) \in Nat /\ k \in 1 .. Len(l) /\ l[k] # Space
  BY DEF Starts
<1> DEFINE T == {e \in k .. Len(l) : e = Len(l) \/ l[e + 1] = Space}
<1>1. T \subseteq Nat /\ T # {}
  <2>1. Len(l) \in T
    BY <1>0
  <2> QED
    BY <1>0, <2>1
<1>2. PICK e \in T : \A j \in T : e <= j
  <2> HIDE DEF T
  <2> QED
    BY <1>1, Least
<1>3. e \in k .. Len(l) /\ (e = Len(l) \/ l[e + 1] = Space)
  OBVIOUS
<1>4. ASSUME NEW m \in k .. e PROVE l[m] # Space
  <2>1. CASE m = k
    BY <1>0, <2>1
  <2>2. CASE m # k
    <3>1. m - 1 \in k .. Len(l) /\ m - 1 < e /\ m = (m - 1) + 1
      BY <1>0, <1>3, <2>2
    <3>2. m - 1 \notin T
      <4> HIDE DEF T
      <4> QED
        BY <1>0, <1>2, <1>3, <3>1
    <3> QED
      BY <3>1, <3>2
  <2> QED
    BY <2>1, <2>2
<1>5. \E f \in k .. Len(l) : WordEnd(l, k, f)
  BY <1>3, <1>4 DEF WordEnd
<1> QED
  BY <1>5 DEF WordLast

\* A set that an increasing sequence lists has as many elements as the
\* sequence.
LEMMA CountBefore ==
  ASSUME NEW S, NEW a \in Seq(Nat), NEW m \in 0 .. Len(a),
         \A v, w \in 1 .. Len(a) : v < w => a[v] < a[w],
         \A w \in 1 .. m : a[w] + 1 \in S,
         \A k \in S : \E w \in 1 .. m : k = a[w] + 1
  PROVE  Cardinality(S) = m
<1>0. Len(a) \in Nat /\ m \in Nat /\ m <= Len(a) /\ \A w \in 1 .. m : a[w] \in Nat
  OBVIOUS
<1> DEFINE f == [w \in 1 .. m |-> a[w] + 1]
<1>1. f \in [1 .. m -> S]
  OBVIOUS
<1>2. ASSUME NEW v \in 1 .. m, NEW w \in 1 .. m, f[v] = f[w] PROVE v = w
  <2>1. a[v] = a[w]
    BY <1>0, <1>2
  <2>2. v \in 1 .. Len(a) /\ w \in 1 .. Len(a) /\ (v < w \/ w < v \/ v = w)
    BY <1>0
  <2>3. ~(a[v] < a[w]) /\ ~(a[w] < a[v])
    BY <1>0, <2>1
  <2> QED
    BY <2>2, <2>3
<1>3. \A k \in S : \E w \in 1 .. m : f[w] = k
  OBVIOUS
<1>4. f \in Bijection(1 .. m, S)
  <2> HIDE DEF f
  <2> QED
    BY <1>1, <1>2, <1>3 DEF Bijection, Injection, Surjection, IsInjective
<1>5. ExistsBijection(1 .. m, S)
  BY <1>4 DEF ExistsBijection
<1> QED
  BY <1>0, <1>5, FS_CountingElements

\* Where the w-th word begins, as Words has it.
StartOf(l, w) == CHOOSE s \in Starts(l) : Cardinality({t \in Starts(l) : t < s}) = w - 1

\* Words with its parts named.
LEMMA WordsAre ==
  ASSUME NEW l
  PROVE  Words(l) = [w \in 1 .. Cardinality(Starts(l)) |->
                       SubSeq(l, StartOf(l, w), WordLast(l, StartOf(l, w)))]
  BY DEF Words, Starts, StartOf, WordLast, WordEnd

\* When parse is done argv[w] is the beginning of the w-th word.
LEMMA StartsAre ==
  ASSUME Inv, at = "runcmd"
  PROVE  /\ Cardinality(Starts(typed)) = Len(argv)
         /\ \A w \in 1 .. Len(argv) :
              /\ argv[w] + 1 \in Starts(typed)
              /\ StartOf(typed, w) = argv[w] + 1
<1>1. /\ Parsing /\ Looked = i /\ argv \in Seq(Nat) /\ Len(argv) \in Nat
      /\ \A k \in Starts(typed) : k \in Int /\ k <= i
      /\ \A w \in 1 .. Len(argv) : argv[w] \in Nat
  BY DEF Inv, TypeInv, LineInv, Parsing, Looked, Starts
<1>2. /\ \A w \in 1 .. Len(argv) : argv[w] + 1 \in Starts(typed)
      /\ \A k \in Starts(typed) : \E w \in 1 .. Len(argv) : k = argv[w] + 1
      /\ \A v, w \in 1 .. Len(argv) : v < w => argv[v] < argv[w]
  BY <1>1 DEF Inv, ArgvInv
<1>3. Cardinality(Starts(typed)) = Len(argv)
  <2>1. Len(argv) \in 0 .. Len(argv)
    BY <1>1
  <2> QED
    BY <1>1, <1>2, <2>1, CountBefore
<1> DEFINE Before(s) == {t \in Starts(typed) : t < s}
<1>4. ASSUME NEW w \in 1 .. Len(argv) PROVE Cardinality(Before(argv[w] + 1)) = w - 1
  <2>1. w - 1 \in 0 .. Len(argv)
    BY <1>1
  <2>2. \A v \in 1 .. w - 1 : argv[v] + 1 \in Before(argv[w] + 1)
    BY <1>1, <1>2
  <2>3. ASSUME NEW k \in Before(argv[w] + 1) PROVE \E v \in 1 .. w - 1 : k = argv[v] + 1
    <3>1. PICK v \in 1 .. Len(argv) : k = argv[v] + 1
      BY <1>2
    <3>2. argv[v] < argv[w]
      BY <1>1, <3>1
    <3>3. v < w
      <4>1. v = w \/ w < v \/ v < w
        BY <1>1
      <4> QED
        BY <1>1, <1>2, <3>2, <4>1
    <3> QED
      BY <1>1, <3>1, <3>3
  <2> HIDE DEF Before
  <2> QED
    BY <1>1, <1>2, <2>1, <2>2, <2>3, CountBefore
<1>5. ASSUME NEW w \in 1 .. Len(argv) PROVE StartOf(typed, w) = argv[w] + 1
  <2>1. ASSUME NEW s \in Starts(typed), Cardinality(Before(s)) = w - 1 PROVE s = argv[w] + 1
    <3>1. PICK v \in 1 .. Len(argv) : s = argv[v] + 1
      BY <1>2
    <3>2. v - 1 = w - 1
      BY <1>4, <2>1, <3>1
    <3>3. v = w
      BY <1>1, <3>2
    <3> QED
      BY <3>1, <3>3
  <2>2. argv[w] + 1 \in Starts(typed) /\ Cardinality(Before(argv[w] + 1)) = w - 1
    BY <1>2, <1>4
  <2>3. StartOf(typed, w) = CHOOSE s \in Starts(typed) : Cardinality(Before(s)) = w - 1
    BY DEF StartOf
  <2> HIDE DEF Before
  <2> QED
    BY <2>1, <2>2, <2>3
<1> QED
  BY <1>2, <1>3, <1>5

\* The string at b ends before the first '\0'.
LEMMA StringIs ==
  ASSUME NEW b \in 0 .. BUFSIZE - 1, NEW d \in 0 .. BUFSIZE, b + d <= BUFSIZE - 1,
         line[b + d] = NUL, \A k \in b .. b + d - 1 : line[k] # NUL
  PROVE  StringAt(b) = [k \in 1 .. d |-> line[b + k - 1]]
<1> DEFINE ends == {k \in b .. BUFSIZE - 1 : line[k] = NUL}
           first(m) == b + m \in ends /\ \A k \in ends : b + m <= k
           len == CHOOSE m \in 0 .. BUFSIZE : first(m)
<1>0. BUFSIZE \in Nat
  BY MonitorConstants
<1>1. b + d \in ends
  BY <1>0
<1>2. ASSUME NEW k \in ends PROVE b + d <= k
  BY <1>0
<1>3. first(d)
  BY <1>1, <1>2
<1>4. ASSUME NEW m \in 0 .. BUFSIZE, first(m) PROVE m = d
  <2>1. b + m \in ends /\ b + m <= b + d
    BY <1>1, <1>4
  <2>2. b + d <= b + m
    <3> HIDE DEF ends
    <3> QED
      BY <1>2, <2>1
  <2> QED
    BY <1>0, <2>1, <2>2
<1>5. len = d
  <2> HIDE DEF first
  <2> QED
    BY <1>3, <1>4
<1>6. StringAt(b) = [k \in 1 .. len |-> line[b + k - 1]]
  BY DEF StringAt
<1> HIDE DEF len
<1> QED
  BY <1>5, <1>6

\* The string at the beginning of a word is the word.
LEMMA ArgumentIs ==
  ASSUME Inv, at = "runcmd", NEW k \in Starts(typed)
  PROVE  StringAt(k - 1) = SubSeq(typed, k, WordLast(typed, k))
<1> DEFINE e == WordLast(typed, k)
           d == e - (k - 1)
<1>0. /\ typed \in Seq(Printable) /\ Len(typed) = i /\ i \in 0 .. BUFSIZE - 1 /\ BUFSIZE \in Nat
      /\ buf = i /\ line[i] = NUL
      /\ \A j \in 1 .. i : line[j - 1] = IF typed[j] = Space THEN NUL ELSE typed[j]
      /\ \A j \in 1 .. i : typed[j] \in Printable
  BY MonitorConstants DEF Inv, TypeInv, LineInv, Parsing
<1>1. k \in 1 .. i
  BY <1>0 DEF Starts
<1>2. e \in k .. i /\ WordEnd(typed, k, e)
  BY <1>0, WordEnds
<1> HIDE DEF e
<1>3. k - 1 \in 0 .. BUFSIZE - 1 /\ d \in 0 .. BUFSIZE /\ (k - 1) + d = e /\ e <= BUFSIZE - 1
  BY <1>0, <1>1, <1>2
<1>4. line[e] = NUL
  <2>1. CASE e = i
    BY <1>0, <2>1
  <2>2. CASE typed[e + 1] = Space /\ e + 1 \in 1 .. i
    <3>1. (e + 1) - 1 = e
      BY <1>2
    <3> QED
      BY <1>0, <2>2, <3>1
  <2> QED
    BY <1>0, <1>1, <1>2, <2>1, <2>2 DEF WordEnd
<1>5. ASSUME NEW j \in k - 1 .. e - 1 PROVE line[j] # NUL /\ line[j] = typed[j + 1]
  <2>1. j + 1 \in k .. e /\ j + 1 \in 1 .. i /\ (j + 1) - 1 = j
    BY <1>0, <1>1, <1>2
  <2>2. typed[j + 1] # Space
    BY <1>2, <2>1 DEF WordEnd
  <2> QED
    BY <1>0, <2>1, <2>2, CharsApart
<1>6. StringAt(k - 1) = [j \in 1 .. d |-> line[(k - 1) + j - 1]]
  <2> DEFINE b == k - 1
  <2>1. /\ b \in 0 .. BUFSIZE - 1 /\ d \in 0 .. BUFSIZE /\ b + d <= BUFSIZE - 1
        /\ line[b + d] = NUL /\ \A j \in b .. b + d - 1 : line[j] # NUL
    BY <1>3, <1>4, <1>5
  <2> HIDE DEF b, d
  <2>2. StringAt(b) = [j \in 1 .. d |-> line[b + j - 1]]
    BY <2>1, StringIs
  <2> QED
    BY <2>2 DEF b
<1>7. /\ SubSeq(typed, k, e) \in Seq(Printable)
      /\ Len(SubSeq(typed, k, e)) = d
      /\ \A j \in 1 .. d : SubSeq(typed, k, e)[j] = typed[k + j - 1]
  <2>1. k \in Int /\ e \in Int /\ k <= e /\ \A j \in k .. e : typed[j] \in Printable
    BY <1>0, <1>1, <1>2
  <2>2. /\ SubSeq(typed, k, e) \in Seq(Printable)
        /\ Len(SubSeq(typed, k, e)) = IF k <= e THEN e - k + 1 ELSE 0
        /\ \A j \in 1 .. e - k + 1 : SubSeq(typed, k, e)[j] = typed[k + j - 1]
    BY <2>1, SubSeqProperties
  <2>3. d = e - k + 1
    BY <2>1
  <2> QED
    BY <2>1, <2>2, <2>3
<1>8. SubSeq(typed, k, e) = [j \in 1 .. d |-> SubSeq(typed, k, e)[j]]
  BY <1>7
<1>9. ASSUME NEW j \in 1 .. d PROVE line[(k - 1) + j - 1] = SubSeq(typed, k, e)[j]
  <2>1. (k - 1) + j - 1 \in k - 1 .. e - 1 /\ ((k - 1) + j - 1) + 1 = k + j - 1
    BY <1>1, <1>2
  <2> QED
    BY <1>5, <1>7, <2>1
<1> HIDE DEF d
<1>10. StringAt(k - 1) = SubSeq(typed, k, e)
  BY <1>6, <1>8, <1>9
<1> QED
  BY <1>10 DEF e

(***************************************************************************)
(* A command is run with the words of the line on the screen as its        *)
(* arguments, whatever the buffer held before and whatever was erased: see *)
(* RunsWhatWasTyped in Monitor.                                            *)
(***************************************************************************)
THEOREM RunsTyped == Spec => []RunsWhatWasTyped
<1>1. ASSUME Inv, at = "runcmd"
      PROVE  [w \in 1 .. Len(argv) |-> StringAt(argv[w])] = Words(typed)
  <2> DEFINE W(w) == SubSeq(typed, StartOf(typed, w), WordLast(typed, StartOf(typed, w)))
  <2>1. Words(typed) = [w \in 1 .. Len(argv) |-> W(w)]
    BY <1>1, WordsAre, StartsAre
  <2>2. ASSUME NEW w \in 1 .. Len(argv) PROVE StringAt(argv[w]) = W(w)
    <3>1. StartOf(typed, w) = argv[w] + 1 /\ argv[w] + 1 \in Starts(typed)
      BY <1>1, StartsAre
    <3>2. argv[w] = (argv[w] + 1) - 1
      BY <1>1 DEF Inv, TypeInv
    <3>3. StringAt((argv[w] + 1) - 1) = SubSeq(typed, argv[w] + 1, WordLast(typed, argv[w] + 1))
      BY <1>1, <3>1, ArgumentIs
    <3> QED
      BY <3>1, <3>2, <3>3
  <2> HIDE DEF W
  <2> QED
    BY <2>1, <2>2
<1>2. Inv => RunsWhatWasTyped
  BY <1>1 DEF RunsWhatWasTyped
<1> QED
  BY <1>2, MonitorInvariant, PTL
=============================================================================
