------------------------------- MODULE Tables -------------------------------
(***************************************************************************)
(* Lists and hash sets.  The first half is kernel/list.c at the level of   *)
(* its pointers.  The nodes are embedded in processes and cache entries; 0 *)
(* is the null pointer.  Along with the pointers goes what KList makes of  *)
(* every call, and the invariants say that the two agree, so that the      *)
(* modules that use KList stand on the code of list.c.  Hash sets are an   *)
(* instance of HashSet.  Resources adds its other parts to these two.      *)
(***************************************************************************)
EXTENDS KList, FiniteSets

CONSTANTS
  List, Node,      \* the lists and the nodes that are linked into them
  Priority,        \* priorities used
  MaxStray,        \* bound: inner nodes removed
  Keys, Data, Buckets, MaxNodes   \* of the hash set

ListAssumption ==
  0 \notin Node \cup List /\ IsFiniteSet(Node) /\ Priority \subseteq Int /\ MaxStray \in Nat

VARIABLES
  part,     \* "lists", "sets", or a part of Resources
  list,     \* head, tail and size of every list
  node,     \* next, prev, list and priority of every node
  stray,    \* how often list_remove counted down through the null pointer
  view,     \* the lists as KList has them
  phase, bucket, num_entries, live, refused, content, middle   \* the hash set

listsVars == <<list, node, stray, view>>

NoNode == [next |-> 0, prev |-> 0, list |-> 0, priority |-> 0]

ListsTypeOK ==
  /\ list \in [List -> [head : {0} \cup Node, tail : {0} \cup Node, size : 0..(Cardinality(Node) + MaxStray)]]
  /\ node \in [Node -> [next : {0} \cup Node, prev : {0} \cup Node,
                        list : {0} \cup List, priority : {0} \cup Priority]]
  /\ \A n \in Node : node[n].list = 0 => node[n].next = 0 /\ node[n].prev = 0
  /\ stray \in [List -> 0..MaxStray]
  /\ view \in [List -> SeqOf(Node, Cardinality(Node))]

ListsInit ==
  /\ list = [q \in List |-> [head |-> 0, tail |-> 0, size |-> 0]]
  /\ node = [n \in Node |-> NoNode]
  /\ stray = [q \in List |-> 0]
  /\ view = [q \in List |-> <<>>]

\* A write through a pointer: p->next = v or p->prev = v for a node p, nothing for a null
\* pointer that the code has looked at.
SetNext(nd, p, v) == IF p = 0 THEN nd ELSE [nd EXCEPT ![p].next = v]
SetPrev(nd, p, v) == IF p = 0 THEN nd ELSE [nd EXCEPT ![p].prev = v]

\* list_push_head.  Mutant: the old head does not learn of its predecessor.
PushedHead_OneWay(q, n) == [node EXCEPT ![n] = [next |-> list[q].head, prev |-> 0, list |-> q, priority |-> 0]]
PushedHead(q, n) ==
  SetPrev([node EXCEPT ![n] = [next |-> list[q].head, prev |-> 0, list |-> q, priority |-> 0]],
          list[q].head, n)

list_push_head(q, n) ==
  /\ node[n].list = 0
  /\ node' = PushedHead(q, n)
  /\ list' = [list EXCEPT ![q] = [head |-> n, tail |-> IF @.tail = 0 THEN n ELSE @.tail,
                                  size |-> @.size + 1]]
  /\ view' = [view EXCEPT ![q] = <<n>> \o @]
  /\ UNCHANGED stray

\* list_push_tail.
PushedTail(q, n) ==
  /\ node' = SetNext([node EXCEPT ![n] = [next |-> 0, prev |-> list[q].tail, list |-> q, priority |-> 0]],
                     list[q].tail, n)
  /\ list' = [list EXCEPT ![q] = [head |-> IF @.head = 0 THEN n ELSE @.head, tail |-> n,
                                  size |-> @.size + 1]]
  /\ view' = PushTail(view, q, n)

list_push_tail(q, n) == node[n].list = 0 /\ PushedTail(q, n) /\ UNCHANGED stray

\* list_push_priority: before the first node of a lower priority, else at the tail (with
\* the priority list_push_tail and list_push_head give).  Lists are too short here for
\* the limit of 5000 nodes.
Lower(q, pri) == {i \in DOMAIN view[q] : pri > node[view[q][i]].priority}
list_push_priority(q, n, pri) ==
  /\ node[n].list = 0
  /\ IF Lower(q, pri) = {} THEN PushedTail(q, n)
     ELSE LET i == CHOOSE i \in Lower(q, pri) : \A j \in Lower(q, pri) : i <= j
              m == view[q][i]
              p == node[m].prev
          IN  /\ node' = [SetNext(node, p, n) EXCEPT
                            ![m].prev = n,
                            ![n] = [next |-> m, prev |-> p, list |-> q, priority |-> pri]]
              /\ list' = [list EXCEPT ![q].head = IF p = 0 THEN n ELSE @, ![q].size = @ + 1]
              /\ view' = [view EXCEPT ![q] = InsertAt(@, i, n)]
  /\ UNCHANGED stray

\* list_pop_head.
PoppedHead(q) ==
  LET n == list[q].head
      h == node[n].next
  IN  /\ node' = SetPrev([node EXCEPT ![n] = [NoNode EXCEPT !.priority = node[n].priority]], h, 0)
      /\ list' = [list EXCEPT ![q] = [head |-> h, tail |-> IF h = 0 THEN 0 ELSE @.tail,
                                      size |-> @.size - 1]]
list_pop_head(q) ==
  /\ list[q].head # 0
  /\ PoppedHead(q)
  /\ view' = PopHead(view, q)
  /\ UNCHANGED stray

\* list_pop_tail.
PoppedTail(q) ==
  LET n == list[q].tail
      t == node[n].prev
  IN  /\ node' = SetNext([node EXCEPT ![n] = [NoNode EXCEPT !.priority = node[n].priority]], t, 0)
      /\ list' = [list EXCEPT ![q] = [head |-> IF t = 0 THEN 0 ELSE @.head, tail |-> t,
                                      size |-> @.size - 1]]
list_pop_tail(q) ==
  /\ list[q].tail # 0
  /\ PoppedTail(q)
  /\ view' = [view EXCEPT ![q] = Front(@)]
  /\ UNCHANGED stray

\* The last branch of list_remove: the node is unlinked and its list pointer cleared, and
\* the size that is counted down is then one at the null pointer.
\* Mutant: the size of the list is counted down as well.
RemovedInner_Counted(q, n) ==
  /\ node' = [node EXCEPT ![node[n].next].prev = node[n].prev,
                          ![node[n].prev].next = node[n].next,
                          ![n] = [NoNode EXCEPT !.priority = node[n].priority]]
  /\ stray' = [stray EXCEPT ![q] = @ + 1]
  /\ list' = [list EXCEPT ![q].size = @ - 1]
RemovedInner(q, n) ==
  /\ node' = [node EXCEPT ![node[n].next].prev = node[n].prev,
                          ![node[n].prev].next = node[n].next,
                          ![n] = [NoNode EXCEPT !.priority = node[n].priority]]
  /\ stray' = [stray EXCEPT ![q] = @ + 1]
  /\ UNCHANGED list

list_remove(n) ==
  LET q == node[n].list IN
  /\ q # 0
  /\ CASE list[q].head = n -> PoppedHead(q) /\ UNCHANGED stray
       [] list[q].head # n /\ list[q].tail = n -> PoppedTail(q) /\ UNCHANGED stray
       [] OTHER -> stray[q] < MaxStray /\ RemovedInner(q, n)
  /\ view' = Unlink(view, n)

ListsNext ==
  \/ \E n \in Node : list_remove(n)
  \/ \E q \in List : list_pop_head(q) \/ list_pop_tail(q)
  \/ \E q \in List, n \in Node : list_push_head(q, n) \/ list_push_tail(q, n)
  \/ \E q \in List, n \in Node, pri \in Priority : list_push_priority(q, n, pri)

ListsSpec == ListsInit /\ [][ListsNext]_listsVars

-----------------------------------------------------------------------------
(* Properties *)

\* The pointers implement KList: from head to tail along next, and from tail to head
\* along prev, one meets the nodes of the abstract list, and a node knows its list.
At(q, i) == IF i \in DOMAIN view[q] THEN view[q][i] ELSE 0
IsKList ==
  /\ \A q \in List :
       /\ list[q].head = At(q, 1) /\ list[q].tail = At(q, Len(view[q]))
       /\ \A i \in DOMAIN view[q] :
            /\ node[view[q][i]].list = q
            /\ node[view[q][i]].next = At(q, i + 1) /\ node[view[q][i]].prev = At(q, i - 1)
  /\ \A n \in Node : node[n].list = 0 <=> n \notin Linked(view)

\* The size field, by which the buffer cache trims itself, is never below the number of
\* nodes and exceeds it by exactly the inner nodes that list_remove took out.
SizeDrift == \A q \in List : list[q].size = Len(view[q]) + stray[q]

-----------------------------------------------------------------------------
(* Lists and hash sets among other parts *)

HashSet == INSTANCE HashSet WITH head <- bucket
ASSUME TablesAssumption == ListAssumption /\ HashSet!HashAssumption

setVars == <<phase, bucket, num_entries, live, refused, content, middle>>

NoLists == list = 0 /\ node = 0 /\ stray = 0 /\ view = 0
NoSet ==
  /\ phase = 0 /\ bucket = 0 /\ num_entries = 0 /\ live = 0 /\ refused = 0 /\ content = 0
  /\ middle = 0

ListsStart == part = "lists" /\ ListsInit /\ NoSet
SetsStart == part = "sets" /\ HashSet!Init /\ NoLists
OthersStart == part \notin {"lists", "sets"} /\ NoLists /\ NoSet
ListsStep == part = "lists" /\ ListsNext /\ UNCHANGED <<part, setVars>>
SetsStep == part = "sets" /\ HashSet!Next /\ UNCHANGED <<part, listsVars>>
OthersStep == part \notin {"lists", "sets"} /\ UNCHANGED <<part, listsVars, setVars>>

TablesInit == ListsStart \/ SetsStart \/ OthersStart
TablesNext == ListsStep \/ SetsStep \/ OthersStep
TablesSpec == TablesInit /\ [][TablesNext]_<<part, listsVars, setVars>>

\* list.c, pointer by pointer, is the sequences of KList, its sizes being off by the inner
\* nodes that were removed; a hash set counts and finds its entries, and gives them back,
\* up to what hash_set_list_add does in the middle of a bucket.
TablesRight ==
  /\ part = "lists" => ListsTypeOK /\ IsKList /\ SizeDrift
  /\ part = "sets" => /\ HashSet!TypeOK /\ HashSet!EntriesExact
                      /\ HashSet!LookupRight /\ HashSet!OnlyRefusedLeak
=============================================================================
