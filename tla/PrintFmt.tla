------------------------------ MODULE PrintFmt ------------------------------
(***************************************************************************)
(* libs/printfmt.c: vprintfmt reads a format one character at a time and   *)
(* gives every character it produces to putch, which is cputch of          *)
(* kern/libs/stdio.c or sprintputch of vsnprintf. strtol of libs/string.c  *)
(* reads numbers back.                                                     *)
(*                                                                         *)
(* The format is chosen character by character as it is read, an argument  *)
(* when va_arg fetches it. Callers pass arguments of the types that the    *)
(* format asks for, %e gets no number whose negative overflows, and the    *)
(* digits of a width or precision make a number that fits in an int.       *)
(*                                                                         *)
(* The names of the specification are its own, so that LibsProofs can      *)
(* extend Lists and AtomicBits as well.                                    *)
(***************************************************************************)
EXTENDS Integers, Sequences, SequencesExt

CONSTANTS
  INT, LONG,     \* an int has INT values (2^32), a long has LONG (2^64)
  Words,         \* the words that callers pass
  Strs,          \* the strings that callers pass, besides NULL
  Sizes,         \* the sizes of the buffers given to vsnprintf
  Escapes,       \* the characters that may follow a '%'
  MaxFmt         \* the longest format

NUL == "\\0"

ASSUME FormatConstants ==
  /\ INT \in Nat /\ INT % 2 = 0 /\ INT > 0 /\ LONG \in Nat /\ LONG % INT = 0 /\ LONG > 0
  /\ Words \subseteq 0 .. LONG - 1 /\ Sizes \subseteq Nat /\ MaxFmt \in Nat
  /\ Escapes \subseteq STRING /\ NUL \notin Escapes /\ Strs \subseteq Seq(STRING)

VARIABLES
  fmt, i,        \* the format as far as it was read; the character fmt points to
  pc,            \* "call", "text", "escape", "width" or "done"
  padc, width, precision, lflag, altflag,
  sink, size,    \* "console", or "buffer" of that size
  buf, cnt, ret,
  out,           \* history: everything given to putch
  conv           \* history: the last conversion and where its output begins

escape == <<padc, width, precision, lflag, altflag>>
target == <<sink, size, ret>>
output == <<buf, cnt, out>>
fmt_vars == <<fmt, i, pc, escape, target, output, conv>>

E_INVAL  == 3
MAXERROR == 6
NoConv   == [kind |-> "none"]

DigitChar == <<"0", "1", "2", "3", "4", "5", "6", "7", "8", "9", "a", "b", "c", "d", "e", "f">>
DigitOf(ch) == (CHOOSE d \in 1 .. 16 : DigitChar[d] = ch) - 1
Digits(b)   == {DigitChar[d] : d \in 1 .. b}
Repeat(ch, k) == [j \in 1 .. k |-> ch]
MaxOf(a, b) == IF a > b THEN a ELSE b
MinOf(a, b) == IF a < b THEN a ELSE b

FmtInit ==
  /\ fmt = <<>> /\ i = 1 /\ pc = "call"
  /\ padc = " " /\ width = -1 /\ precision = -1 /\ lflag = 0 /\ altflag = FALSE
  /\ \/ sink = "console" /\ size = 0
     \/ sink = "buffer" /\ size \in Sizes
  /\ buf = <<>> /\ cnt = 0 /\ ret = 0 /\ out = <<>> /\ conv = NoConv

-----------------------------------------------------------------------------
\* sprintputch: a character is stored as long as buf < ebuf = str + size - 1.
sprintputch(b, ch) == IF Len(b) < size - 1 THEN Append(b, ch) ELSE b

\* Mutant: only characters that fit are counted.
putchCountsStored(s) ==
  /\ out' = out \o s
  /\ buf' = IF sink = "buffer" THEN FoldLeft(sprintputch, buf, s) ELSE buf
  /\ cnt' = IF sink = "buffer" THEN Len(buf') ELSE cnt + Len(s)

\* putch for every character of s; cputch and sprintputch both count it.
putch(s) ==
  /\ out' = out \o s
  /\ buf' = IF sink = "buffer" THEN FoldLeft(sprintputch, buf, s) ELSE buf
  /\ cnt' = cnt + Len(s)

\* The character that fmt points to; what lies behind '\0' is nobody's.
Fetch(ch, choices) ==
  IF i <= Len(fmt)
  THEN ch = fmt[i] /\ UNCHANGED fmt
  ELSE /\ NUL \notin Range(fmt)
       /\ ch \in (IF Len(fmt) < MaxFmt THEN choices ELSE {}) \cup {NUL}
       /\ fmt' = Append(fmt, ch)

\* vsnprintf, vcprintf: no room for the trailing '\0' is an error (as is NULL).
Call ==
  /\ pc = "call"
  /\ IF sink = "buffer" /\ size = 0
     THEN pc' = "done" /\ ret' = -E_INVAL
     ELSE pc' = "text" /\ UNCHANGED ret
  /\ UNCHANGED <<fmt, i, escape, sink, size, output, conv>>

\* The loop outside escape sequences, where all characters but '%' and '\0'
\* are alike, and what the callers do after it.
Text ==
  /\ pc = "text"
  /\ \E ch \in Escapes \cup {"%", "t", NUL} :
       /\ Fetch(ch, {"%", "t"})
       /\ \/ /\ ch = NUL
             /\ pc' = "done" /\ ret' = cnt
             /\ buf' = IF sink = "buffer" THEN Append(buf, NUL) ELSE buf
             /\ UNCHANGED <<escape, cnt, out>>
          \/ /\ ch = "%"
             /\ pc' = "escape"
             /\ padc' = " " /\ width' = -1 /\ precision' = -1 /\ lflag' = 0 /\ altflag' = FALSE
             /\ UNCHANGED <<output, ret>>
          \/ /\ ch \notin {NUL, "%"}
             /\ putch(<<ch>>)
             /\ UNCHANGED <<pc, escape, ret>>
  /\ i' = i + 1
  /\ UNCHANGED <<sink, size, conv>>

\* The next character of an escape sequence.
InEscape(ch) == pc = "escape" /\ Fetch(ch, Escapes)

Flag ==
  /\ \E ch \in {"-", "0", ".", "#", "l"} :
       /\ InEscape(ch)
       /\ padc' = IF ch \in {"-", "0"} THEN ch ELSE padc
       /\ width' = IF ch = "." THEN MaxOf(width, 0) ELSE width
       /\ altflag' = (altflag \/ ch = "#")
       /\ lflag' = IF ch = "l" THEN lflag + 1 ELSE lflag
  /\ i' = i + 1
  /\ UNCHANGED <<pc, precision, target, output, conv>>

\* The first number is the width, a later one the precision.
process_precision(k) ==
  IF width < 0 THEN width' = k /\ precision' = -1 ELSE precision' = k /\ UNCHANGED width

\* A word as a signed number of m values.
Signed(w, m) == LET low == w % m IN IF low >= m \div 2 THEN low - m ELSE low
AsInt(w) == Signed(w, INT)

Star ==
  /\ InEscape("*")
  /\ \E w \in Words : process_precision(AsInt(w))
  /\ i' = i + 1
  /\ UNCHANGED <<pc, padc, lflag, altflag, target, output, conv>>

\* case '1' ... '9': the first digit, then the others one by one, up to the
\* first character that is none, which stays.
WidthDigit ==
  /\ \/ pc = "escape" /\ \E ch \in Digits(10) \ {"0"} :
          InEscape(ch) /\ precision' = DigitOf(ch)
     \/ pc = "width" /\ \E ch \in Digits(10) :
          Fetch(ch, Escapes) /\ precision' = precision * 10 + DigitOf(ch)
  /\ pc' = "width" /\ i' = i + 1
  /\ UNCHANGED <<width, padc, lflag, altflag, target, output, conv>>

WidthDone ==
  /\ pc = "width"
  /\ \E ch \in (Escapes \cup {NUL}) \ Digits(10) : Fetch(ch, Escapes)
  /\ process_precision(precision)
  /\ pc' = "escape"
  /\ UNCHANGED <<i, padc, lflag, altflag, target, output, conv>>

-----------------------------------------------------------------------------
\* A conversion is over: its output is given to putch, the text goes on.
Converted(kind, s, about) ==
  /\ putch(s)
  /\ conv' = [kind |-> kind, from |-> Len(out), to |-> Len(out) + Len(s), about |-> about]
  /\ pc' = "text" /\ i' = i + 1
  /\ UNCHANGED <<escape, target>>

\* printnum: the recursion prints the more significant digits first, the
\* innermost call the padding, with the width that is left there.
printnum(num, base, w, pad) ==
  LET P[k \in Nat] == [v \in Int |->
        (IF k >= base THEN P[k \div base][v - 1] ELSE Repeat(pad, v - 1))
          \o <<DigitChar[(k % base) + 1]>>]
  IN  P[num][w]

\* Mutant: an int is not sign-extended.
getint_zero(w) == IF lflag > 0 THEN w ELSE w % INT

\* What %d and the unsigned conversions fetch, as an unsigned long long.
getint(w)  == IF lflag > 0 THEN w ELSE AsInt(w) % LONG
getuint(w) == IF lflag > 0 THEN w ELSE w % INT

\* The most negative number negated is itself again: the word wraps.
Decimal ==
  /\ InEscape("d")
  /\ \E w \in Words :
       LET num == getint(w)
           neg == num >= LONG \div 2
           abs == IF neg THEN LONG - num ELSE num
       IN  Converted("number", (IF neg THEN <<"-">> ELSE <<>>) \o printnum(abs, 10, width, padc),
                     [value |-> Signed(w, IF lflag > 0 THEN LONG ELSE INT), base |-> 10])

Unsigned ==
  \E ch \in {"u", "o", "x"}, w \in Words :
    LET base == CASE ch = "u" -> 10 [] ch = "o" -> 8 [] ch = "x" -> 16
    IN  /\ InEscape(ch)
        /\ Converted("number", printnum(getuint(w), base, width, padc), [value |-> getuint(w), base |-> base])

Pointer ==
  /\ InEscape("p")
  /\ \E w \in Words :
       Converted("pointer", <<"0", "x">> \o printnum(w, 16, width, padc), [value |-> w, base |-> 16])

\* '#' replaces what cannot be printed, and at most precision characters are
\* shown.
Shown(ch) == IF altflag /\ ch = "\t" THEN "?" ELSE ch
ShownText(p) ==
  [j \in 1 .. (IF precision < 0 THEN Len(p) ELSE MinOf(precision, Len(p))) |-> Shown(p[j])]

\* Mutant: the padding is computed from the whole string.
String_strlen ==
  /\ InEscape("s")
  /\ \E p \in Strs \cup {<<"(", "n", "u", "l", "l", ")">>} :
       LET text  == ShownText(p)
           left  == IF width > 0 /\ padc # "-" THEN width - Len(p) ELSE 0
           right == (IF width > 0 /\ padc # "-" THEN MinOf(left, 0) ELSE width) - Len(text)
       IN  Converted("string", Repeat(padc, left) \o text \o Repeat(" ", right), [text |-> text])

\* %s, with "(null)" for NULL: padding on the left, the text, what is left of
\* the width on the right.
String ==
  /\ InEscape("s")
  /\ \E p \in Strs \cup {<<"(", "n", "u", "l", "l", ")">>} :
       LET text  == ShownText(p)
           left  == IF width > 0 /\ padc # "-" THEN width - Len(text) ELSE 0
           right == (IF width > 0 /\ padc # "-" THEN MinOf(left, 0) ELSE width) - Len(text)
       IN  Converted("string", Repeat(padc, left) \o text \o Repeat(" ", right), [text |-> text])

\* %e prints a message, here one symbol, or "error" and the number with the
\* nested printfmt's own width and padding.
Error ==
  /\ InEscape("e")
  /\ \E w \in {v \in Words : AsInt(v) # -(INT \div 2)} :
       LET err == IF AsInt(w) < 0 THEN -AsInt(w) ELSE AsInt(w)
       IN  Converted("error", IF err \notin 1 .. MAXERROR
                              THEN <<"error", " ">> \o printnum(err, 10, -1, " ")
                              ELSE <<"message">>, err)

Char    == InEscape("c") /\ Converted("char", <<"t">>, "t")
Percent == InEscape("%") /\ Converted("char", <<"%">>, "%")

Known == Digits(10) \cup {"-", ".", "#", "*", "l", "c", "e", "s", "d", "u", "o", "p", "x", "%"}

\* Mutant: fmt stays behind the sequence.
UnknownNoRewind ==
  /\ \E ch \in (Escapes \cup {NUL}) \ Known : InEscape(ch)
  /\ putch(<<"%">>)
  /\ i' = i + 1
  /\ pc' = "text"
  /\ UNCHANGED <<escape, target, conv>>

\* default: print the '%' and go back to the character after it.
Unknown ==
  /\ \E ch \in (Escapes \cup {NUL}) \ Known : InEscape(ch)
  /\ putch(<<"%">>)
  /\ i' = 1 + CHOOSE j \in 1 .. i - 1 : fmt[j] = "%" /\ \A h \in j + 1 .. i - 1 : fmt[h] # "%"
  /\ pc' = "text"
  /\ UNCHANGED <<escape, target, conv>>

FmtNext ==
  \/ Call \/ Text \/ Flag \/ Star \/ WidthDigit \/ WidthDone \/ Decimal \/ Unsigned
  \/ Pointer \/ String \/ Error \/ Char \/ Percent \/ Unknown

FmtSpec == FmtInit /\ [][FmtNext]_fmt_vars

-----------------------------------------------------------------------------
(***************************************************************************)
(* strtol of libs/string.c for the digits that printnum prints: the value  *)
(* as a word, since overflow is not detected, and where endptr points.     *)
(***************************************************************************)
Blank    == {" ", "\t"}
At(s, k) == IF k <= Len(s) THEN s[k] ELSE NUL

strtol(s, b0) ==
  LET a    == CHOOSE k \in 1 .. Len(s) + 1 : /\ At(s, k) \notin Blank
                                             /\ \A j \in 1 .. k - 1 : s[j] \in Blank
      b    == IF At(s, a) \in {"+", "-"} THEN a + 1 ELSE a
      hex  == b0 \in {0, 16} /\ At(s, b) = "0" /\ At(s, b + 1) = "x"
      oct  == ~hex /\ b0 = 0 /\ At(s, b) = "0"
      base == CASE hex -> 16 [] oct -> 8 [] OTHER -> IF b0 = 0 THEN 10 ELSE b0
      c    == CASE hex -> b + 2 [] oct -> b + 1 [] OTHER -> b
      end  == CHOOSE k \in c .. Len(s) + 1 : /\ At(s, k) \notin Digits(base)
                                             /\ \A j \in c .. k - 1 : s[j] \in Digits(base)
      val  == FoldLeft(LAMBDA v, ch : (v * base + DigitOf(ch)) % LONG, 0, SubSeq(s, c, end - 1))
  IN  [val |-> IF At(s, a) = "-" THEN (-val) % LONG ELSE val, end |-> end]

-----------------------------------------------------------------------------
(***************************************************************************)
(* vsnprintf leaves in the buffer as much of the output as fits with the   *)
(* trailing '\0', and returns the length of all of it, as its comment      *)
(* says; a buffer without room for the '\0' is not touched.                *)
(***************************************************************************)
BufferHoldsPrefix ==
  pc = "done" =>
    IF sink = "buffer" /\ size = 0 THEN ret < 0 /\ buf = <<>>
    ELSE /\ ret = Len(out)
         /\ sink = "buffer" => buf = Append(SubSeq(out, 1, MinOf(Len(out), size - 1)), NUL)

(***************************************************************************)
(* "unrecognized escape sequence - just print it literally": a format      *)
(* without any conversion is printed as it is, flags and digits included,  *)
(* although vprintfmt has already interpreted them; and nothing behind the *)
(* '\0' is read, also when it cuts an escape sequence off.                 *)
(***************************************************************************)
LiteralEscapes ==
  /\ pc = "done" /\ conv = NoConv /\ ret >= 0 => Append(out, NUL) = fmt
  /\ pc # "done" => i <= Len(fmt) \/ NUL \notin Range(fmt)

\* A conversion has just been printed.
JustPrinted(kinds) == pc = "text" /\ conv.kind \in kinds /\ conv.to = Len(out)
Field == SubSeq(out, conv.from + 1, conv.to)

\* The number of digits of v.
NumDigits(v, b) ==
  LET power[k \in Nat] == IF k = 0 THEN 1 ELSE b * power[k - 1]
  IN  CHOOSE k \in 1 .. LONG : v < power[k] /\ (k = 1 \/ v >= power[k - 1])

\* The sign of a number, the "0x" of a pointer, and the digits they need.
PrefixOf(kind, about) ==
  IF kind = "pointer" THEN <<"0", "x">> ELSE IF about.value < 0 THEN <<"-">> ELSE <<>>
Needed(about) == NumDigits(IF about.value < 0 THEN -about.value ELSE about.value, about.base)

(***************************************************************************)
(* strtol reads back every number that is printed, the most negative one   *)
(* and those that are sign-extended included, and reads all of it, as long *)
(* as there is no padding, or it is zeros, or it is blanks before a number *)
(* that has neither a sign nor a "0x". The other padded fields are not     *)
(* read back: blanks come between the sign or the "0x" and the digits, and *)
(* the flag '-' puts that character itself before the digits, so that      *)
(* "%-2d" of 3 prints -3, which is read as minus three.                    *)
(***************************************************************************)
NumbersReadBack ==
  /\ JustPrinted({"number", "pointer"})
  /\ width > Needed(conv.about) =>
       padc = "0" \/ (padc = " " /\ PrefixOf(conv.kind, conv.about) = <<>>)
  => \A b0 \in {conv.about.base} \cup (IF conv.kind = "pointer" THEN {0} ELSE {}) :
       strtol(Field, b0) = [val |-> conv.about.value % LONG, end |-> Len(Field) + 1]

\* A number in the field f: the prefix, the padding, then the digits.
NumberShape(f, w, pad, prefix, digits, b) ==
  /\ Len(f) = Len(prefix) + MaxOf(w, digits)
  /\ \A j \in 1 .. Len(f) :
       IF j <= Len(prefix) THEN f[j] = prefix[j]
       ELSE IF j <= Len(f) - digits THEN f[j] = pad ELSE f[j] \in Digits(b)

\* A text in the field f: padding, the text, and with '-' blanks after it.
TextShape(f, w, pad, text) ==
  LET left == IF pad = "-" THEN 0 ELSE MaxOf(w - Len(text), 0)
  IN  /\ Len(f) = MaxOf(w, Len(text))
      /\ \A j \in 1 .. Len(f) :
           f[j] = IF j <= left THEN pad
                  ELSE IF j <= left + Len(text) THEN text[j - left] ELSE " "

(***************************************************************************)
(* Where vprintfmt puts what it prints. A string or number takes exactly   *)
(* its width, or what it needs if that is more; the precision limits a     *)
(* string before it is padded; the sign and the "0x" of a pointer do not   *)
(* count, and come before the padding. '-' moves a string to the left of   *)
(* its field, but not a number, where it is the character that pads.       *)
(*                                                                         *)
(* Two comments of printfmt.c say otherwise: "Space or zero padding and a  *)
(* field width are supported for the numeric formats only" (lines 8-9),    *)
(* but case 's' has both; and "flag to pad on the right" (line 124) of     *)
(* '-', but printnum pads on the left with every padc. The property says   *)
(* what the code does.                                                     *)
(***************************************************************************)
FieldsPadded ==
  /\ JustPrinted({"string"}) => TextShape(Field, width, padc, conv.about.text)
  /\ JustPrinted({"number", "pointer"}) =>
       NumberShape(Field, width, padc, PrefixOf(conv.kind, conv.about), Needed(conv.about),
                   conv.about.base)
=============================================================================
