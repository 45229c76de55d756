----------------------------- MODULE PagedbCalls -----------------------------
(***************************************************************************)
(* The page allocator as its callers see it: an object with the methods of *)
(* verif/llvm-spec.rkt, each of which takes effect in one step.            *)
(*                                                                         *)
(* The state shows which call is being made and with which arguments, so   *)
(* that a refusal or a result answers that call and no other, and a call   *)
(* takes effect once. A call that is made may take effect at once or       *)
(* later, and return with its effect or after it.                          *)
(***************************************************************************)
EXTENDS PagedbSpec

VARIABLES
  op,      \* the last call: its method and its arguments
  phase    \* "idle" (it has returned), "called" or "done" (it took effect)

call_vars == <<nrfree, flag, ret, op, phase>>

Calls ==
  {<<"init_memmap", b, k>> : b, k \in Word} \cup {<<"alloc_pages", k>> : k \in Word}
    \cup {<<"free_pages", b, k>> : b, k \in Word} \cup {<<"nr_free_pages">>}

NoCall == <<"none">>

\* What a call does to the page database, and what it answers.
Effect(c) ==
  \/ c[1] = "init_memmap" /\ spec_default_init_memmap(c[2], c[3])
  \/ c[1] = "alloc_pages" /\ spec_default_alloc_pages(c[2])
  \/ c[1] = "free_pages" /\ spec_default_free_pages(c[2], c[3])
  \/ c[1] = "nr_free_pages" /\ spec_default_nr_free_pages

Call(c) ==
  /\ op' = c
  /\ phase = "idle" /\ phase' = "called"
  /\ UNCHANGED <<nrfree, flag, ret>>

\* A call takes effect: the one that was made, or one that is made now.
TakeEffect(c) ==
  /\ op' = c
  /\ phase = "idle" \/ (phase = "called" /\ op = c)
  /\ Effect(c)
  /\ phase' \in {"done", "idle"}

\* A call that has returned may be forgotten.
Return ==
  /\ phase = "done" /\ phase' = "idle"
  /\ op' \in {op, NoCall}
  /\ UNCHANGED <<nrfree, flag, ret>>

(***************************************************************************)
(* Init is the state spec-default_init and the descriptor loop of          *)
(* page_init (kern/mm/pmm.c) leave: nothing free, every page reserved.     *)
(***************************************************************************)
Init ==
  /\ nrfree = 0
  /\ flag = [q \in Pages |-> {PG_reserved}]
  /\ ret = Void
  /\ op = NoCall /\ phase = "idle"

Next == Return \/ \E c \in Calls : Call(c) \/ TakeEffect(c)

Spec == Init /\ [][Next]_call_vars
=============================================================================
