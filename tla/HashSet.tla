------------------------------ MODULE HashSet ------------------------------
(***************************************************************************)
(* The hash sets of kernel/hash_set.c: an array of buckets, each a list    *)
(* that is meant to be sorted by key.  They are linked into the kernel,    *)
(* which does not use them yet.  A list is the sequence of its nodes; a    *)
(* search stops at the first node whose key is not smaller.                *)
(***************************************************************************)
EXTENDS Integers, Sequences, SequencesExt, FiniteSets, FiniteSetsExt

CONSTANTS
  Keys,        \* keys, below 2^16
  Data,        \* what is stored under them
  Buckets,     \* total_buckets
  MaxNodes     \* bound: nodes ever allocated for one set

HashAssumption ==
  /\ Keys \subseteq Nat /\ \A k \in Keys : k < 65536
  /\ Buckets \in Nat \ {0} /\ Buckets <= 1000
  /\ Data \subseteq Nat \ {0} /\ MaxNodes \in Nat

VARIABLES
  phase,        \* "none", "live", or "wild" after a write through a failed kmalloc
  head,         \* the nodes of each bucket
  num_entries,
  live,         \* nodes that kmalloc gave out and kfree has not got back
  refused,      \* history: adds that returned -1
  content,      \* history: what a dictionary would hold, 0 for nothing
  middle        \* history: buckets that got a node between two others

vars == <<phase, head, num_entries, live, refused, content, middle>>

Bucket == 0..(Buckets - 1)
SetNode == [key : Keys, data : Data]

\* hash_uint: 0x61C88647 is 25032 * 2^16 + 34375; the product wraps at 2^32.
hash_uint(k) ==
  LET low == k * 34375
      high == (k * 25032 + low \div 65536) % 65536
  IN  ((high % Buckets) * (65536 % Buckets) + (low % 65536)) % Buckets

TypeOK ==
  /\ phase \in {"none", "live", "wild"} /\ num_entries \in Nat /\ live \in Nat /\ refused \in Nat
  /\ head \in [Bucket -> Seq(SetNode)] /\ content \in [Keys -> Data \cup {0}] /\ middle \subseteq Bucket
  /\ \A b \in Bucket : \A i \in DOMAIN head[b] : hash_uint(head[b][i].key) = b

Empty == [b \in Bucket |-> <<>>]
Init ==
  /\ phase = "none" /\ head = Empty /\ num_entries = 0 /\ live = 0 /\ refused = 0
  /\ content = [k \in Keys |-> 0] /\ middle = {}

\* Where the loop of a search stops: the index of curr, Len(s) + 1 for null.
Stop(s, k) == Min({i \in DOMAIN s : s[i].key >= k} \cup {Len(s) + 1})
IsAt(s, i, k) == i <= Len(s) /\ s[i].key = k

\* hash_set_list_add: at the front, at the end, or behind the first node with a larger key.
Between(s, k) == LET i == Stop(s, k) IN i \in 2..Len(s) /\ s[i].key # k
hash_set_list_add(s, n) ==
  LET i == Stop(s, n.key)
  IN  IF IsAt(s, i, n.key) THEN s
      ELSE IF Between(s, n.key) THEN InsertAt(s, i + 1, n)
      ELSE InsertAt(s, i, n)

hash_set_list_lookup(s, k) == LET i == Stop(s, k) IN IF IsAt(s, i, k) THEN s[i].data ELSE 0

\* hash_set_list_delete.  Mutant: the list is cut off at the node.
hash_set_list_delete_Rest(s, k) == LET i == Stop(s, k) IN IF IsAt(s, i, k) THEN SubSeq(s, 1, i - 1) ELSE s
hash_set_list_delete(s, k) == LET i == Stop(s, k) IN IF IsAt(s, i, k) THEN RemoveAt(s, i) ELSE s

\* hash_set_create; its test of the two results comes after they were used.
hash_set_create ==
  /\ phase = "none" /\ live < MaxNodes
  /\ phase' \in {"live", "wild"}
  /\ head' = Empty /\ num_entries' = 0
  /\ UNCHANGED <<live, refused, content, middle>>

\* hash_set_add.
Counted(before, after) == num_entries + (Len(after) - Len(before))
hash_set_add(k, d) ==
  LET b == hash_uint(k)
      s == hash_set_list_add(head[b], [key |-> k, data |-> d])
  IN  /\ phase = "live" /\ live < MaxNodes
      /\ head' = [head EXCEPT ![b] = s]
      /\ num_entries' = Counted(head[b], s)
      /\ live' = live + 1
      /\ refused' = refused + (IF s = head[b] THEN 1 ELSE 0)
      /\ content' = IF content[k] = 0 THEN [content EXCEPT ![k] = d] ELSE content
      /\ middle' = IF Between(head[b], k) THEN middle \cup {b} ELSE middle
      /\ UNCHANGED phase

\* hash_set_add when the heap is exhausted: the node is filled in all the same.
AddExhausted ==
  /\ phase = "live" /\ phase' = "wild"
  /\ UNCHANGED <<head, num_entries, live, refused, content, middle>>

hash_set_remove(k) ==
  LET b == hash_uint(k)
      s == hash_set_list_delete(head[b], k)
  IN  /\ phase = "live"
      /\ head' = [head EXCEPT ![b] = s]
      /\ num_entries' = Counted(head[b], s)
      /\ live' = live + Len(s) - Len(head[b])
      /\ content' = [content EXCEPT ![k] = 0]
      /\ UNCHANGED <<phase, refused, middle>>

\* hash_set_list_dealloc.  Mutant: the walk ends at the node just freed.
Freed_First(s) == DOMAIN s \cap {1}
Freed(s) == DOMAIN s
\* hash_set_delete; a freed struct keeps its contents until kmalloc is called again.
hash_set_delete ==
  /\ phase = "live" /\ phase' = "none"
  /\ live' = live - Cardinality(UNION {{b} \X Freed(head[b]) : b \in Bucket})
  /\ head' = Empty /\ num_entries' = 0 /\ content' = [k \in Keys |-> 0] /\ middle' = {}
  /\ UNCHANGED refused

Next ==
  \/ hash_set_create \/ AddExhausted \/ hash_set_delete
  \/ \E k \in Keys : hash_set_remove(k) \/ \E d \in Data : hash_set_add(k, d)

Spec == Init /\ [][Next]_vars

----------------------------------------------------------------------------
\* num_entries is the number of linked nodes, whatever was added twice, not found or linked in
\* the wrong place (hash_set_add, hash_set_remove).
Places(h) == UNION {{b} \X DOMAIN h[b] : b \in Bucket}
EntriesExact == num_entries = Cardinality(Places(head))

\* hash_set_lookup finds what was stored last under each key, as long as no node came between
\* two others of its bucket; hash_set_list_add links such a node behind its successor, and from
\* then on keys of the bucket are missed.
LookupRight ==
  phase = "live" =>
    \A k \in Keys : hash_uint(k) \notin middle =>
      hash_set_list_lookup(head[hash_uint(k)], k) = content[k]

\* Deleting a set gives back every node but those of the adds that were refused, which
\* hash_set_add never frees.
OnlyRefusedLeak == phase = "none" => live = refused
=============================================================================
