--------------------------- MODULE FindFreePages ---------------------------
(***************************************************************************)
(* find-free-pages of verif/llvm-spec.rkt: the walk that the verified      *)
(* specification of alloc_pages makes over the page database, one call of  *)
(* the tail-recursive find-free-accumulate per step. The rest of the list  *)
(* lst is the pages lst .. NPAGE - 1. The names of the specification are   *)
(* its own, so that PagedbProofs can extend NonInterference as well.       *)
(***************************************************************************)
EXTENDS PageDefs

VARIABLES
  flag,          \* the page database, fixed during the walk
  num,           \* pages asked for
  lst, acc, ans, \* the arguments of find-free-accumulate
  result         \* "walking", "found" (the answer is ans) or "failed" (#f)

find_vars == <<flag, num, lst, acc, ans, result>>

\* spec-default_alloc_pages only calls with 0 < num <= NPAGE.
FindInit ==
  /\ flag \in [Pages -> Flags]
  /\ num \in 1 .. NPAGE
  /\ lst = 0 /\ acc = 0 /\ ans = 0
  /\ result = "walking"

Success ==
  /\ result = "walking" /\ acc = num
  /\ result' = "found"
  /\ UNCHANGED <<flag, num, lst, acc, ans>>

Failure ==
  /\ result = "walking" /\ acc # num /\ lst = NPAGE
  /\ result' = "failed"
  /\ UNCHANGED <<flag, num, lst, acc, ans>>

Continue ==
  /\ result = "walking" /\ acc # num /\ lst < NPAGE
  /\ lst \in Available(flag)
  /\ lst' = lst + 1
  /\ acc' = acc + 1
  /\ ans' = IF acc = 0 THEN lst ELSE ans
  /\ UNCHANGED <<flag, num, result>>

\* Mutant: pages on both sides of a taken one are counted as one run.
RestartKeepsCount ==
  /\ result = "walking" /\ acc # num /\ lst < NPAGE
  /\ lst \notin Available(flag)
  /\ lst' = lst + 1
  /\ UNCHANGED <<flag, num, acc, ans, result>>

\* Mutant: the pages after a taken one are never looked at.
RestartGivesUp ==
  /\ result = "walking" /\ acc # num /\ lst < NPAGE
  /\ lst \notin Available(flag)
  /\ lst' = NPAGE
  /\ acc' = 0 /\ ans' = 0
  /\ UNCHANGED <<flag, num, result>>

Restart ==
  /\ result = "walking" /\ acc # num /\ lst < NPAGE
  /\ lst \notin Available(flag)
  /\ lst' = lst + 1
  /\ acc' = 0 /\ ans' = 0
  /\ UNCHANGED <<flag, num, result>>

FindNext == Success \/ Failure \/ Continue \/ Restart

FindSpec == FindInit /\ [][FindNext]_find_vars

-----------------------------------------------------------------------------
(***************************************************************************)
(* What a walk that has come to lst knows: the last acc pages are          *)
(* available, ans is the first of them, and a block of num pages that      *)
(* starts before them has a page that is not available.                    *)
(***************************************************************************)
WalkInv ==
  /\ flag \in [Pages -> Flags] /\ num \in 1 .. NPAGE
  /\ lst \in 0 .. NPAGE /\ acc \in 0 .. num /\ ans \in 0 .. NPAGE
  /\ result \in {"walking", "found", "failed"}
  /\ acc <= lst
  /\ acc > 0 => ans = lst - acc
  /\ \A q \in lst - acc .. lst - 1 : q \in Available(flag)
  /\ \A c \in 0 .. lst - acc - 1 : \E q \in c .. c + num - 1 : q \notin Available(flag)
  /\ result = "found" => acc = num
  /\ result = "failed" => acc # num /\ lst = NPAGE

(***************************************************************************)
(* The walk answers the first block that fits, and #f only when none does. *)
(***************************************************************************)
AnswersFirstFit ==
  /\ result = "found" => first_free_block(flag, ans, num)
  /\ result = "failed" => \A b \in Pages : ~free_block(flag, b, num)
=============================================================================
