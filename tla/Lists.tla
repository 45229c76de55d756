------------------------------- MODULE Lists -------------------------------
(***************************************************************************)
(* libs/list.h: circular doubly linked lists. A list head and the entries  *)
(* of its list are all list_entry_t, linked in one ring. Callers keep the  *)
(* rules the comments of the file state: an entry is put next to an entry  *)
(* that is "already in the list", and only an entry that is in a list is   *)
(* deleted. An entry that was deleted keeps its old links.                 *)
(***************************************************************************)
EXTENDS Integers, Sequences, FiniteSets

CONSTANTS Heads, Nodes
ASSUME ListConstants == Heads \cap Nodes = {} /\ IsFiniteSet(Heads \cup Nodes)

Entries == Heads \cup Nodes

VARIABLES
  next, prev,   \* the links
  linked,       \* history: the entries that are in a list, the heads included
  fresh,        \* history: entries list_init was the last to touch
  op            \* history: the last operation and its arguments

vars == <<next, prev, linked, fresh, op>>

\* Every entry starts out initialized; heads are lists from the beginning.
Init ==
  /\ next = [x \in Entries |-> x]
  /\ prev = [x \in Entries |-> x]
  /\ linked = Heads
  /\ fresh = Entries
  /\ op = <<"none">>

\* Mutant: next->prev = elm is left out.
AddLinkForward(elm, p, n) ==
  /\ next' = [next EXCEPT ![p] = elm, ![elm] = n]
  /\ prev' = [prev EXCEPT ![elm] = p]

\* __list_add and __list_del. p and n may be the same entry, elm is neither.
AddLink(elm, p, n) ==
  /\ next' = [next EXCEPT ![p] = elm, ![elm] = n]
  /\ prev' = [prev EXCEPT ![n] = elm, ![elm] = p]

DelLink(p, n) ==
  /\ next' = [next EXCEPT ![p] = n]
  /\ prev' = [prev EXCEPT ![n] = p]

\* list_add is list_add_after.
list_add_after(listelm, elm) ==
  /\ listelm \in linked /\ elm \in Nodes \ linked
  /\ AddLink(elm, listelm, next[listelm])
  /\ linked' = linked \cup {elm}
  /\ fresh' = fresh \ {elm}
  /\ op' = <<"after", listelm, elm>>

\* Mutant: the entry goes after listelm.
AddBeforeIsAfter(listelm, elm) ==
  /\ listelm \in linked /\ elm \in Nodes \ linked
  /\ AddLink(elm, listelm, next[listelm])
  /\ linked' = linked \cup {elm}
  /\ fresh' = fresh \ {elm}
  /\ op' = <<"before", listelm, elm>>

list_add_before(listelm, elm) ==
  /\ listelm \in linked /\ elm \in Nodes \ linked
  /\ AddLink(elm, prev[listelm], listelm)
  /\ linked' = linked \cup {elm}
  /\ fresh' = fresh \ {elm}
  /\ op' = <<"before", listelm, elm>>

list_del(listelm) ==
  /\ listelm \in linked \cap Nodes
  /\ DelLink(prev[listelm], next[listelm])
  /\ linked' = linked \ {listelm}
  /\ UNCHANGED fresh
  /\ op' = <<"del", listelm>>

\* Mutant: list_init is left out.
DelInitOnlyDeletes(listelm) ==
  /\ listelm \in linked \cap Nodes
  /\ DelLink(prev[listelm], next[listelm])
  /\ linked' = linked \ {listelm}
  /\ fresh' = fresh \cup {listelm}
  /\ op' = <<"del", listelm>>

\* list_del, then list_init.
list_del_init(listelm) ==
  /\ listelm \in linked \cap Nodes
  /\ next' = [next EXCEPT ![prev[listelm]] = next[listelm], ![listelm] = listelm]
  /\ prev' = [prev EXCEPT ![next[listelm]] = prev[listelm], ![listelm] = listelm]
  /\ linked' = linked \ {listelm}
  /\ fresh' = fresh \cup {listelm}
  /\ op' = <<"del", listelm>>

list_init(elm) ==
  /\ elm \in Nodes \ linked
  /\ next' = [next EXCEPT ![elm] = elm]
  /\ prev' = [prev EXCEPT ![elm] = elm]
  /\ fresh' = fresh \cup {elm}
  /\ UNCHANGED <<linked, op>>

list_empty(list) == next[list] = list

Next ==
  \/ \E x \in Entries, e \in Nodes : list_add_after(x, e) \/ list_add_before(x, e)
  \/ \E e \in Nodes : list_del(e) \/ list_del_init(e) \/ list_init(e)

Spec == Init /\ [][Next]_vars

-----------------------------------------------------------------------------
\* The entries met from h along the links f until h comes round again; as many
\* as there are entries if it does not.
Walk(f, h) ==
  LET most == Cardinality(Entries)
      w[k \in 0 .. most] == IF k = 0 THEN h ELSE f[w[k - 1]]
      round == {k \in 1 .. most : w[k] = h}
      len == IF round = {} THEN most ELSE CHOOSE k \in round : \A j \in round : k <= j
  IN  [k \in 1 .. len - 1 |-> w[k]]

Abstract == INSTANCE ListSpec WITH seqs <- [h \in Heads |-> Walk(next, h)]

(***************************************************************************)
(* Read along next, the rings are the sequences of ListSpec: an entry goes *)
(* exactly where the caller said, the order of the others is kept, and     *)
(* entries of other lists and stale links of deleted entries do not        *)
(* matter.                                                                 *)
(***************************************************************************)
ImplementsLists == Abstract!Spec

(***************************************************************************)
(* Read along prev, every list is the same list backwards, and a list      *)
(* holds exactly what was put in: list_prev and list_next never disagree.  *)
(***************************************************************************)
Mirror ==
  /\ \A h \in Heads :
       LET fwd == Walk(next, h)
           bwd == Walk(prev, h)
       IN  Len(bwd) = Len(fwd) /\ \A k \in 1 .. Len(fwd) : bwd[k] = fwd[Len(fwd) + 1 - k]
  /\ linked = Heads \cup UNION {{Walk(next, h)[k] : k \in 1 .. Len(Walk(next, h))} : h \in Heads}

(***************************************************************************)
(* An entry outside all lists is list_empty if list_init or list_del_init  *)
(* touched it last, and is not after a plain list_del, as the comments say *)
(* -- whatever has happened to its old neighbours meanwhile.               *)
(***************************************************************************)
EmptyMeansInit ==
  \A e \in Nodes \ linked : list_empty(e) <=> e \in fresh
=============================================================================
