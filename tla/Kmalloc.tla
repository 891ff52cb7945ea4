------------------------------ MODULE Kmalloc ------------------------------
(***************************************************************************)
(* The kernel heap, kernel/kmalloc.c.  hdr is the memory of the arena seen *)
(* as chunk headers: hdr[a] is what a struct kmalloc_chunk read at address *)
(* a (counted from KMALLOC_START) holds.  No interrupt handler allocates   *)
(* and kernel code is not preempted, so each call is one step.             *)
(***************************************************************************)
EXTENDS FiniteSetsExt

CONSTANTS
  Unit,         \* KUNIT, the size of a chunk header
  Length,       \* KMALLOC_LENGTH
  MaxRequest    \* largest request considered; far from overflowing an int

ASSUME HeapAssumption ==
  /\ Unit \in Nat \ {0} /\ Length \in Nat \ {0} /\ Length >= Unit
  /\ MaxRequest \in Nat

Addr == 0..(Length - 1)
Null == -1
head == 0

VARIABLES
  hdr,       \* chunk headers, current, stale or overwritten
  chunks,    \* history: the addresses of the headers linked into the list
  owned,     \* history: address of the chunk of every live allocation -> request
  result     \* the chunk kmalloc last returned (it returns result + Unit) or Null

vars == <<hdr, chunks, owned, result>>

Header == [state : {"FREE", "USED", "JUNK"}, length : 0..Length,
           next : Addr \cup {Null}, prev : Addr \cup {Null}]
Junk == [state |-> "JUNK", length |-> 0, next |-> Null, prev |-> Null]

TypeOK ==
  /\ hdr \in [Addr -> Header]
  /\ chunks \in SUBSET Addr
  /\ DOMAIN owned \subseteq chunks
  /\ \A c \in DOMAIN owned : owned[c] \in 0..MaxRequest
  /\ result \in Addr \cup {Null}

\* kmalloc_init.
Init ==
  /\ hdr = [a \in Addr |->
              IF a = head THEN [state |-> "FREE", length |-> Length,
                                next |-> Null, prev |-> Null]
              ELSE Junk]
  /\ chunks = {head}
  /\ owned = [c \in {} |-> 0]
  /\ result = Null

-----------------------------------------------------------------------------
\* kmalloc: round up to whole units and add one for the header.
\* Mutant: the length is rounded down.
Gross_Down(n) == n - (n % Unit) + Unit
Gross(n) == (IF n % Unit = 0 THEN n ELSE n + (Unit - (n % Unit))) + Unit

\* The search of kmalloc follows next from head.  The list is in the order of
\* the addresses (ListOK), so the first chunk that fits is the least one.
\* Mutant: the state of the chunk is not looked at.
Fits_AnyState(n) == {c \in chunks : hdr[c].length >= n}
Fits(n) == {c \in chunks : hdr[c].state = "FREE" /\ hdr[c].length >= n}
FirstFit(n) == Min(Fits(n))

\* Mutant: c->next->prev is not set.
ksplit_NoBackLink(h, c, n) == [a \in Addr |->
  IF a = c + n THEN [state |-> "FREE", length |-> h[c].length - n,
                     next |-> h[c].next, prev |-> c]
  ELSE IF a = c THEN [h[c] EXCEPT !.next = c + n, !.length = n]
  ELSE h[a]]
ksplit(h, c, n) == [a \in Addr |->
  IF a = c + n THEN [state |-> "FREE", length |-> h[c].length - n,
                     next |-> h[c].next, prev |-> c]
  ELSE IF a = c THEN [h[c] EXCEPT !.next = c + n, !.length = n]
  ELSE IF a = h[c].next THEN [h[a] EXCEPT !.prev = c + n]
  ELSE h[a]]

\* The bytes of a live allocation belong to its owner, who writes what he likes.
Scribble(h, c) == [a \in Addr |->
  IF c < a /\ a < c + h[c].length THEN Junk ELSE h[a]]

\* Mutant: the chunk is not marked.
Take_Unmarked(h, c) == Scribble(h, c)
Take(h, c) == Scribble([h EXCEPT ![c].state = "USED"], c)

\* Mutant: a remainder too small for a chunk, or empty, is split off as well.
Splits_Always(c, n) == hdr[c].length - n >= 0
Splits(c, n) == hdr[c].length - n > 2 * Unit

kmalloc(request) ==
  LET n == Gross(request)
      c == FirstFit(n)
  IN \/ /\ Fits(n) # {}
        /\ hdr' = Take(IF Splits(c, n) THEN ksplit(hdr, c, n) ELSE hdr, c)
        /\ chunks' = IF Splits(c, n) THEN chunks \cup {c + n} ELSE chunks
        /\ owned' = [a \in DOMAIN owned \cup {c} |->
                       IF a = c THEN request ELSE owned[a]]
        /\ result' = c
     \/ /\ Fits(n) = {}                       \* "kmalloc: out of memory!"
        /\ result' = Null
        /\ UNCHANGED <<hdr, chunks, owned>>

\* Whether kmerge(c) merges, and what it makes of the headers.
Merges(h, c) ==
  /\ c # Null
  /\ h[c].state = "FREE"
  /\ h[c].next # Null
  /\ h[h[c].next].state = "FREE"
\* Mutant: the length of the successor is not added.
kmerge_NoLength(h, c) ==
  IF Merges(h, c)
  THEN LET m == h[h[c].next] IN [a \in Addr |->
         IF a = c THEN [h[c] EXCEPT !.next = m.next]
         ELSE IF a = m.next THEN [h[a] EXCEPT !.prev = c]
         ELSE h[a]]
  ELSE h
kmerge(h, c) ==
  IF Merges(h, c)
  THEN LET m == h[h[c].next] IN [a \in Addr |->
         IF a = c THEN [h[c] EXCEPT !.length = @ + m.length, !.next = m.next]
         ELSE IF a = m.next THEN [h[a] EXCEPT !.prev = c]
         ELSE h[a]]
  ELSE h

\* The successor that kmerge(c) takes off the list.
Merged(h, c) == IF Merges(h, c) THEN {h[c].next} ELSE {}

\* kfree, on the address of a header nobody has overwritten: a live allocation,
\* or one that was freed before, on which the check of the state returns early.
\* Mutant: the predecessor is not merged.
kfree_NoPrev(c) ==
  /\ hdr[c].state = "USED"
  /\ LET h1 == [hdr EXCEPT ![c].state = "FREE"] IN
       /\ hdr' = kmerge(h1, c)
       /\ chunks' = chunks \ Merged(h1, c)
  /\ owned' = [a \in DOMAIN owned \ {c} |-> owned[a]]
  /\ UNCHANGED result
kfree(c) ==
  /\ hdr[c].state = "USED"
  /\ LET h1 == [hdr EXCEPT ![c].state = "FREE"]
         h2 == kmerge(h1, c)
     IN /\ hdr' = kmerge(h2, h2[c].prev)
        /\ chunks' = chunks \ (Merged(h1, c) \cup Merged(h2, h2[c].prev))
  /\ owned' = [a \in DOMAIN owned \ {c} |-> owned[a]]
  /\ UNCHANGED result

Next == (\E n \in 0..MaxRequest : kmalloc(n)) \/ (\E c \in Addr : kfree(c))

Spec == Init /\ [][Next]_vars

-----------------------------------------------------------------------------
(* Properties *)

End(c) == c + hdr[c].length

\* The list is doubly linked in the order of the addresses and tiles the arena:
\* what kmalloc splits off and what kfree merges never leaves a gap, an overlap
\* or a link to a header that is gone.
ListOK ==
  /\ head \in chunks
  /\ \A c \in chunks :
       /\ hdr[c].state # "JUNK" /\ hdr[c].length > 0 /\ End(c) <= Length
       /\ hdr[c].next = IF End(c) = Length THEN Null ELSE End(c)
       /\ End(c) < Length => End(c) \in chunks /\ hdr[End(c)].prev = c
  /\ hdr[head].prev = Null
  /\ \A c, d \in chunks : c < d => End(c) <= d

\* The memory handed to an owner overlaps neither a header of the list nor the
\* memory of another owner, and lies in the arena.
NoOverlap ==
  \A c \in DOMAIN owned :
     /\ c + Unit + owned[c] <= Length
     /\ \A d \in chunks : d > c => c + Unit + owned[c] <= d

\* The state of a header that is still readable is USED exactly for the live
\* allocations: a second kfree of the same pointer is recognised as invalid, also
\* after the chunk was merged into another.
FreeOnce == \A c \in Addr : hdr[c].state = "USED" <=> c \in DOMAIN owned

\* No two neighbours are free: kfree always restores the largest free chunks.
Coalesced ==
  \A c, d \in chunks :
     hdr[c].state = "FREE" /\ hdr[c].next = d => hdr[d].state # "FREE"

\* The heap implements the allocator of the interface.  In particular kmalloc
\* fails only when there is no free place of the size it needs.
A == INSTANCE Allocator WITH
       Sizes <- {Gross(n) : n \in 0..MaxRequest},
       extent <- [c \in DOMAIN owned |-> hdr[c].length]
IsAllocator == A!ASpec
=============================================================================
