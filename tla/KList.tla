------------------------------- MODULE KList -------------------------------
(***************************************************************************)
(* kernel/list.c at the level its callers see it: an intrusive doubly      *)
(* linked list is the sequence of the nodes met from head to tail.  A node *)
(* has one pair of links and one "list" back pointer, so the kernel's      *)
(* lists are kept together in one function from list names to sequences    *)
(* and list_remove, which takes a node and no list, finds the list itself. *)
(* The pointers, and the size field that only the buffer cache reads, are  *)
(* abstracted.                                                             *)
(***************************************************************************)
EXTENDS Integers, Sequences, SequencesExt

\* Families of lists with names in Q and nodes in S.
ListsOver(Q, S) == [Q -> Seq(S)]

\* The nodes with node->list # 0: linked into one of the lists L.
Linked(L) == UNION {Range(L[q]) : q \in DOMAIN L}

\* list_push_tail(q, n).
PushTail(L, q, n) == [L EXCEPT ![q] = Append(@, n)]

\* list_pop_head(q), for a list that is not empty; the node is Head(L[q]).
PopHead(L, q) == [L EXCEPT ![q] = Tail(@)]

\* list_remove(n): unlink n from the list it is in, if it is in one.
Unlink(L, n) == [q \in DOMAIN L |-> RemoveFirst(L[q], n)]

\* Every node is linked at most once, in at most one list.
NoDup(L) ==
  /\ \A q \in DOMAIN L : IsInjective(L[q])
  /\ \A q, r \in DOMAIN L : q # r => Range(L[q]) \cap Range(L[r]) = {}
=============================================================================
