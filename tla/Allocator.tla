----------------------------- MODULE Allocator -----------------------------
(***************************************************************************)
(* What kernel/kmalloc.h promises: kmalloc reserves an extent of the arena *)
(* that overlaps no other reserved extent, and returns null only when no   *)
(* free place is large enough; kfree releases an extent.                   *)
(***************************************************************************)
EXTENDS Integers

CONSTANTS Length,    \* size of the arena
          Sizes      \* the sizes that are asked for

VARIABLES extent,    \* the reserved extents: start address -> size
          result     \* what kmalloc last returned: a start address, or -1

avars == <<extent, result>>

\* The n bytes from address a on lie in the arena and are not reserved.
Clear(a, n) ==
  /\ a + n <= Length
  /\ \A c \in DOMAIN extent : a + n <= c \/ c + extent[c] <= a

AInit == extent = [c \in {} |-> 0] /\ result = -1

\* Reserve at least n bytes.  (The allocator may round up.)
Reserve(n) ==
  \E a \in 0..(Length - 1), size \in n..Length :
     /\ Clear(a, size)
     /\ extent' = [c \in DOMAIN extent \cup {a} |->
                     IF c = a THEN size ELSE extent[c]]
     /\ result' = a

Refuse(n) ==
  /\ ~\E a \in 0..(Length - 1) : Clear(a, n)
  /\ result' = -1
  /\ UNCHANGED extent

Release(a) ==
  /\ extent' = [c \in DOMAIN extent \ {a} |-> extent[c]]
  /\ UNCHANGED result

ANext == \/ \E n \in Sizes : Reserve(n) \/ Refuse(n)
         \/ \E a \in DOMAIN extent : Release(a)

ASpec == AInit /\ [][ANext]_avars
=============================================================================
