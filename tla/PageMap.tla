------------------------------- MODULE PageMap ------------------------------
(***************************************************************************)
(* The allocator of physical pages, kernel/page.c: a bit per page in cells *)
(* of CellBits, kept in the first pages of the memory it describes.  The   *)
(* map is cleared by whole bytes but searched by whole cells, so bits      *)
(* after the last page are set, or are whatever the memory held at boot.   *)
(***************************************************************************)
EXTENDS Integers, FiniteSets, FiniteSetsExt

CONSTANTS
  PagesTotal,             \* pages of memory
  ByteBits, CellBits,     \* 8 and 32
  PageBytes               \* PAGE_SIZE

MapAssumption ==
  /\ {PagesTotal, ByteBits, CellBits, PageBytes} \subseteq Nat \ {0}
  /\ CellBits % ByteBits = 0

\* page_init.
MapBytes == 1 + PagesTotal \div ByteBits
MapCells == 1 + PagesTotal \div CellBits
MapPages == 1 + MapBytes \div PageBytes
Bit == 0..(MapCells * CellBits - 1)
Real == 0..(PagesTotal - 1)
FirstCell == 0..(CellBits - 1)

VARIABLES
  freemap,      \* the bits that are set
  pages_free,   \* the counter
  used,         \* the pages that were given out
  halted

vars == <<freemap, pages_free, used, halted>>

TypeOK ==
  /\ freemap \subseteq Bit /\ pages_free \in Int /\ used \subseteq Bit /\ halted \in BOOLEAN

\* The bytes of the map are set, the pages of the map taken, and then the first cell is
\* cleared.  What is beyond the last byte is left as it was.
Cleared == FirstCell
Init ==
  /\ \E garbage \in SUBSET (Bit \ (0..(MapBytes * ByteBits - 1))) :
       freemap = ((0..(MapBytes * ByteBits - 1)) \cup garbage) \ Cleared
  /\ pages_free = PagesTotal - MapPages /\ used = {} /\ halted = FALSE

\* page_alloc: the first bit that is set; without one the machine halts.
\* Mutant: the last bit is taken.
Without(b) == freemap \ {b}
First_Last == Max(freemap)
First == Min(freemap)
Alloc ==
  /\ ~halted
  /\ \/ /\ freemap # {}
        /\ freemap' = Without(First) /\ used' = used \cup {First}
        /\ pages_free' = pages_free - 1 /\ UNCHANGED halted
     \/ freemap = {} /\ halted' = TRUE /\ UNCHANGED <<freemap, pages_free, used>>

\* page_free: bit of the page within its cell.
Free(page) ==
  /\ ~halted /\ page \in used
  /\ freemap' = freemap \cup {(page \div CellBits) * CellBits + (page % CellBits)}
  /\ used' = used \ {page}
  /\ pages_free' = pages_free + 1 /\ UNCHANGED halted

Next == Alloc \/ \E page \in Bit : Free(page)
Spec == Init /\ [][Next]_vars

-----------------------------------------------------------------------------
\* Pages after the end of memory are given out only when all the others are.
RealFirst == \A b \in used' \ used : b \notin Real => freemap \cap Real = {}

\* The counter is too high by the pages of the first cell that do not hold the map, always
\* by the same number, and pages after the end are counted down like others.
CounterExact ==
  pages_free - Cardinality(freemap \cap Real) = CellBits - MapPages - Cardinality(used \ Real)
=============================================================================
