--------------------------- MODULE NonInterference ---------------------------
(***************************************************************************)
(* verif/llvm-ni.rkt: pages are the domains, and what a domain sees of the *)
(* page database is the flags of its page. A call with a block as its      *)
(* arguments acts on behalf of the pages of the block. The file checks one *)
(* call of spec-default_free_pages from two arbitrary states s and t, for  *)
(* five pages; spec-default_init_memmap is commented out there, and is     *)
(* included here.                                                          *)
(*                                                                         *)
(* The two states are two copies of PagedbSpec that make the same call.    *)
(***************************************************************************)
EXTENDS PageDefs

CONSTANT Counts    \* the free counts that s and t may start with

ASSUME CountsAssumption == Counts \subseteq Word

VARIABLES
  s_nrfree, s_flag, s_ret,
  t_nrfree, t_flag, t_ret,
  block                      \* <<base, num>> of the call once made, <<>> before

vars == <<s_nrfree, s_flag, s_ret, t_nrfree, t_flag, t_ret, block>>

S == INSTANCE PagedbSpec WITH nrfree <- s_nrfree, flag <- s_flag, ret <- s_ret
T == INSTANCE PagedbSpec WITH nrfree <- t_nrfree, flag <- t_flag, ret <- t_ret

\* make-havoc-state, twice: not only the states the kernel reaches.
Init ==
  /\ s_nrfree \in Counts /\ s_flag \in [Pages -> Flags] /\ s_ret = Void
  /\ t_nrfree \in Counts /\ t_flag \in [Pages -> Flags] /\ t_ret = Void
  /\ block = <<>>

FreeBoth(base, num) ==
  /\ block = <<>> /\ block' = <<base, num>>
  /\ S!spec_default_free_pages(base, num)
  /\ T!spec_default_free_pages(base, num)

InitMemmapBoth(base, num) ==
  /\ block = <<>> /\ block' = <<base, num>>
  /\ S!spec_default_init_memmap(base, num)
  /\ T!spec_default_init_memmap(base, num)

Next ==
  \/ \E base, num \in Word : FreeBoth(base, num)
  \/ \E base, num \in Word : InitMemmapBoth(base, num)

Spec == Init /\ [][Next]_vars

-----------------------------------------------------------------------------
\* The two states look the same to page u.
unwinding(u) == s_flag[u] = t_flag[u]

\* Page q belongs to the block of the call.
Acting(q) == InBlock(q, block[1], block[2])

(***************************************************************************)
(* Weak step consistency: what page u sees after a call depends only on    *)
(* what u and the pages of the block saw before it, not on the counter and *)
(* not on any other page, although init_memmap decides by the flags of the *)
(* whole block whether it does anything.                                   *)
(***************************************************************************)
WeakStepConsistency ==
  [][\A u \in Pages :
       /\ unwinding(u)
       /\ \A q \in Pages : Acting(q)' => unwinding(q)
       => unwinding(u)']_vars

(***************************************************************************)
(* Local respect: a call leaves the flags of every page outside its block  *)
(* alone, for every pair of words, those whose sum wraps included.         *)
(***************************************************************************)
LocalRespect ==
  [][\A u \in Pages : ~Acting(u)' => s_flag'[u] = s_flag[u]]_vars

(***************************************************************************)
(* The caller learns nothing but the flags of its block: if s and t agree  *)
(* on the block, the two calls return the same status.                     *)
(***************************************************************************)
OutputConsistency ==
  [][(\A q \in Pages : Acting(q)' => unwinding(q)) => s_ret' = t_ret']_vars
=============================================================================
