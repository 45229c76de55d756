------------------------------ MODULE Monitor ------------------------------
(***************************************************************************)
(* What happens after a panic: __panic of kern/debug/panic.c prints its    *)
(* message and stays in kmonitor of kern/debug/kmonitor.c, which reads     *)
(* lines with readline of libs/readline.c, splits them in place with       *)
(* parse, and runs commands. Panics come from boot and from the trap       *)
(* handler, with interrupts off, so nothing runs beside the monitor.       *)
(*                                                                         *)
(* Lines are made of a few printable characters. The three commands have   *)
(* one letter: "h"elp, "k"erninfo and "b"acktrace.                         *)
(***************************************************************************)
EXTENDS Integers, Sequences, FiniteSets, SequencesExt

CONSTANTS
  BUFSIZE,     \* bytes of the line buffer (1024)
  MAXARGS,     \* entries of argv (16)
  Letters,     \* printable characters other than the space
  StackDepth   \* how many panics inside one another KSTACKSIZE has room for

NUL   == "NUL"
Space == " "

ASSUME MonitorConstants ==
  /\ BUFSIZE \in Nat \ {0} /\ MAXARGS \in Nat \ {0} /\ StackDepth \in Nat \ {0}
  /\ {NUL, Space} \cap Letters = {}

Printable == Letters \cup {Space}
commands  == <<"h", "k", "b">>

VARIABLES
  is_panic,
  frames,     \* panics that have not returned (none ever does), innermost last
  at,         \* where the innermost one is
  line,       \* buf of readline.c
  i,          \* local of readline
  buf, argv,  \* locals of parse and runcmd: a position in the line, the arguments
  messages,   \* history: panic messages printed
  typed       \* history: the line on the screen, as the user edited it

vars == <<is_panic, frames, at, line, i, buf, argv, messages, typed>>
panicking == <<is_panic, frames, messages>>
reading   == <<line, i, typed>>
parsing   == <<buf, argv>>

\* Where a local array has been overrun or the stack is used up, the outcome
\* is undefined; the model follows it no further.
Undefined == at = "undefined"

Init ==
  /\ is_panic = FALSE /\ frames = 1 /\ at = "__panic" /\ messages = 0
  /\ line = [k \in 0 .. BUFSIZE - 1 |-> NUL]
  /\ i = 0 /\ buf = 0 /\ argv = <<>> /\ typed = <<>>

-----------------------------------------------------------------------------
\* Mutant: is_panic is never set.
PanicForgets ==
  /\ at = "__panic"
  /\ messages' = IF is_panic THEN messages ELSE messages + 1
  /\ at' = "kmonitor"
  /\ UNCHANGED <<is_panic, frames, reading, parsing>>

\* A panic inside a panic prints nothing and goes straight to the monitor.
Panic ==
  /\ at = "__panic"
  /\ is_panic' = TRUE
  /\ messages' = IF is_panic THEN messages ELSE messages + 1
  /\ at' = "kmonitor"
  /\ UNCHANGED <<frames, reading, parsing>>

\* The loop of kmonitor calls readline for a new line.
Prompt ==
  /\ at = "kmonitor"
  /\ i' = 0 /\ typed' = <<>>
  /\ at' = "readline"
  /\ UNCHANGED <<panicking, line, parsing>>

\* A printable character; when the buffer is full it is dropped.
ReadPrintable(c) ==
  /\ at = "readline"
  /\ i < BUFSIZE - 1
  /\ line' = [line EXCEPT ![i] = c]
  /\ i' = i + 1
  /\ typed' = Append(typed, c)
  /\ UNCHANGED <<panicking, at, parsing>>

ReadBackspace ==
  /\ at = "readline"
  /\ i > 0
  /\ i' = i - 1
  /\ typed' = Front(typed)
  /\ UNCHANGED <<panicking, at, line, parsing>>

\* Mutant: the terminating '\0' is not written.
ReadNewlineOnly ==
  /\ at = "readline"
  /\ buf' = 0 /\ argv' = <<>>
  /\ at' = "skip"
  /\ UNCHANGED <<panicking, reading>>

ReadNewline ==
  /\ at = "readline"
  /\ line' = [line EXCEPT ![i] = NUL]
  /\ buf' = 0 /\ argv' = <<>>
  /\ at' = "skip"
  /\ UNCHANGED <<panicking, i, typed>>

\* getchar returns a negative number: readline returns NULL.
ReadError ==
  /\ at = "readline"
  /\ at' = "kmonitor"
  /\ UNCHANGED <<panicking, reading, parsing>>

-----------------------------------------------------------------------------
(***************************************************************************)
(* parse. Whitespace is overwritten with '\0', which ends the argument     *)
(* before it; the 17th argument is stored past the end of argv although    *)
(* the message "Too many arguments" has been printed.                      *)
(***************************************************************************)
\* Mutant: whitespace is skipped and stays in the buffer.
SkipOnly ==
  /\ at = "skip" /\ line[buf] = Space
  /\ buf' = buf + 1
  /\ UNCHANGED <<panicking, at, reading, argv>>

SkipSpace ==
  /\ at = "skip" /\ line[buf] = Space
  /\ line' = [line EXCEPT ![buf] = NUL]
  /\ buf' = buf + 1
  /\ UNCHANGED <<panicking, at, i, typed, argv>>

SaveArg ==
  /\ at = "skip" /\ line[buf] \notin {NUL, Space}
  /\ \/ /\ Len(argv) < MAXARGS
        /\ argv' = Append(argv, buf)
        /\ at' = "scan"
     \/ /\ Len(argv) >= MAXARGS
        /\ at' = "undefined"
        /\ UNCHANGED argv
  /\ UNCHANGED <<panicking, reading, buf>>

\* Mutant: the scan past an argument does not advance.
ScanArgStuck ==
  /\ at = "scan"
  /\ line[buf] \in {NUL, Space} /\ at' = "skip"
  /\ UNCHANGED <<panicking, reading, parsing>>

ScanArg ==
  /\ at = "scan"
  /\ \/ line[buf] \notin {NUL, Space} /\ buf' = buf + 1 /\ UNCHANGED at
     \/ line[buf] \in {NUL, Space} /\ at' = "skip" /\ UNCHANGED buf
  /\ UNCHANGED <<panicking, reading, argv>>

ParseDone ==
  /\ at = "skip" /\ line[buf] = NUL
  /\ at' = "runcmd"
  /\ UNCHANGED <<panicking, reading, parsing>>

-----------------------------------------------------------------------------
\* The string that starts at position b of the buffer.
StringAt(b) ==
  LET ends == {k \in b .. BUFSIZE - 1 : line[k] = NUL}
      len  == CHOOSE d \in 0 .. BUFSIZE : b + d \in ends /\ \A k \in ends : b + d <= k
  IN  [k \in 1 .. len |-> line[b + k - 1]]

Matches(j) == argv # <<>> /\ StringAt(argv[1]) = <<commands[j]>>

\* No argument, an unknown command, or a command that prints and returns 0.
\* kmonitor would end on a negative result, but no command has one.
CommandReturns ==
  /\ at = "runcmd" /\ ~Matches(3)
  /\ at' = "kmonitor"
  /\ UNCHANGED <<panicking, reading, parsing>>

\* mon_backtrace calls print_stackframe, which panics.
mon_backtrace ==
  /\ at = "runcmd" /\ Matches(3)
  /\ \/ frames < StackDepth /\ at' = "__panic" /\ frames' = frames + 1
     \/ frames = StackDepth /\ at' = "undefined" /\ UNCHANGED frames
  /\ UNCHANGED <<is_panic, messages, reading, parsing>>

Code ==
  \/ Panic \/ Prompt
  \/ SkipSpace \/ SaveArg \/ ScanArg \/ ParseDone
  \/ CommandReturns \/ mon_backtrace
Input ==
  \/ \E c \in Printable : ReadPrintable(c)
  \/ ReadBackspace \/ ReadNewline \/ ReadError

Next == Code \/ Input

\* The code runs; nobody has to type.
Spec == Init /\ [][Next]_vars /\ WF_vars(Code)

-----------------------------------------------------------------------------
\* The whitespace-separated words of a line.
Words(l) ==
  LET starts == {k \in 1 .. Len(l) : l[k] # Space /\ (k = 1 \/ l[k - 1] = Space)}
      last(k) == CHOOSE e \in k .. Len(l) :
                   /\ \A m \in k .. e : l[m] # Space
                   /\ e = Len(l) \/ l[e + 1] = Space
  IN  [w \in 1 .. Cardinality(starts) |->
         LET k == CHOOSE s \in starts : Cardinality({t \in starts : t < s}) = w - 1
         IN  SubSeq(l, k, last(k))]

(***************************************************************************)
(* The arguments a command gets are the words of the line on the screen,   *)
(* whatever longer line the buffer held before, whatever was erased, and   *)
(* although parse cuts the line up in place.                               *)
(***************************************************************************)
RunsWhatWasTyped ==
  at = "runcmd" => [w \in 1 .. Len(argv) |-> StringAt(argv[w])] = Words(typed)

(***************************************************************************)
(* The message of the first panic is printed, and no other, however many   *)
(* panics happen inside the monitor: the screen keeps the first cause.     *)
(***************************************************************************)
OneMessage == at # "__panic" => messages = 1

(***************************************************************************)
(* Every line that has been entered comes back to the prompt, unless the   *)
(* run of the code has become undefined: parse stops at the end of the     *)
(* line and no command keeps the monitor.                                  *)
(***************************************************************************)
PromptComesBack == (at # "readline") ~> (at \in {"readline", "undefined"})

(***************************************************************************)
(* "Too many arguments (max 16)": what parse stores fits in argv.          *)
(***************************************************************************)
ArgsWithinMax == ~Undefined
=============================================================================
