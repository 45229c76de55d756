------------------------------ MODULE ListSpec ------------------------------
(***************************************************************************)
(* What libs/list.h promises: a list head stands for a sequence of         *)
(* entries; an entry is in at most one list and is put after or before an  *)
(* entry of a list (the head counts as the entry before the first and      *)
(* after the last), or taken out.                                          *)
(***************************************************************************)
EXTENDS Sequences, SequencesExt, Integers

CONSTANTS Heads, Nodes

VARIABLES
  seqs,   \* head -> the entries of its list
  op      \* the last operation and its arguments

vars == <<seqs, op>>

Listed == UNION {ToSet(seqs[h]) : h \in Heads}

\* x is the k-th entry of the list of h; the head is its 0-th.
IsAt(x, h, k) == IF k = 0 THEN x = h ELSE seqs[h][k] = x

Put(h, k, e) == seqs' = [seqs EXCEPT ![h] = InsertAt(@, k, e)]

Init == seqs = [h \in Heads |-> <<>>] /\ op = <<"none">>

AddAfter(x, e) ==
  /\ e \in Nodes \ Listed
  /\ \E h \in Heads : \E k \in 0 .. Len(seqs[h]) : IsAt(x, h, k) /\ Put(h, k + 1, e)
  /\ op' = <<"after", x, e>>

AddBefore(x, e) ==
  /\ e \in Nodes \ Listed
  /\ \E h \in Heads :
       \/ x = h /\ Put(h, Len(seqs[h]) + 1, e)
       \/ \E k \in 1 .. Len(seqs[h]) : IsAt(x, h, k) /\ Put(h, k, e)
  /\ op' = <<"before", x, e>>

Delete(e) ==
  /\ \E h \in Heads : \E k \in 1 .. Len(seqs[h]) :
       IsAt(e, h, k) /\ seqs' = [seqs EXCEPT ![h] = RemoveAt(@, k)]
  /\ op' = <<"del", e>>

Next ==
  \/ \E x \in Heads \cup Nodes, e \in Nodes : AddAfter(x, e) \/ AddBefore(x, e)
  \/ \E e \in Nodes : Delete(e)

Spec == Init /\ [][Next]_vars
=============================================================================
