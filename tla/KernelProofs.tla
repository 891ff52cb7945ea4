---------------------------- MODULE KernelProofs ----------------------------
(***************************************************************************)
(* Theorems about structures that all of the kernel uses, each for itself. *)
(* The first part is about the heap (Kmalloc), for every arena, header     *)
(* size and request: its invariant is stated for any memory h and set C of *)
(* chunks, so that the intermediate states of kmalloc (after ksplit) and   *)
(* of kfree (between the two calls of kmerge) have it too.  The second     *)
(* part is about pipes (Pipe), for buffers of any size, any finite number  *)
(* of processes and requests of any size.  The third is about Tables:      *)
(* lists as chains of pointers, for any lists and nodes, and hash sets     *)
(* (HashSet), for any keys and buckets.  The last is about Boot, for any   *)
(* disks, kernels and machines that it admits.                             *)
(***************************************************************************)
EXTENDS Kmalloc, Pipe, Tables, Boot, BasicLemmas

-----------------------------------------------------------------------------
(* Tilings *)

\* A chunk and its links.
LinkOK(h, C, c) ==
  /\ h[c].state # "JUNK" /\ h[c].length > 0 /\ c + h[c].length <= Length
  /\ h[c].next = IF c + h[c].length = Length THEN Null ELSE c + h[c].length
  /\ c + h[c].length < Length =>
       c + h[c].length \in C /\ h[c + h[c].length].prev = c

\* ListOK for memory h and chunks C, and: every byte is in a chunk.
Tiles(h, C) ==
  /\ h \in [Addr -> Header] /\ C \in SUBSET Addr
  /\ head \in C /\ h[head].prev = Null
  /\ \A c \in C : LinkOK(h, C, c)
  /\ \A c, d \in C : c < d => c + h[c].length <= d
  /\ \A a \in Addr : \E c \in C : c <= a /\ a < c + h[c].length

\* The values of the constants, and the first chunk.
LEMMA AddrFacts ==
  /\ Length \in Nat \ {0} /\ Unit \in Nat \ {0} /\ Addr \subseteq Nat
  /\ Null \notin Addr /\ head \in Addr /\ head = 0
  /\ Junk \in Header
<1>1. /\ Length \in Nat \ {0} /\ Unit \in Nat \ {0} /\ Addr \subseteq Nat
      /\ Null \notin Addr /\ head \in Addr /\ head = 0
  BY HeapAssumption DEF Addr, Null, head
<1>2. Junk \in Header
  BY <1>1 DEF Junk, Header
<1> QED BY <1>1, <1>2

\* The fields of a header, and of one with a field replaced.
LEMMA HeaderFacts ==
  ASSUME NEW r \in Header
  PROVE  /\ r.state \in {"FREE", "USED", "JUNK"} /\ r.length \in 0..Length
         /\ r.next \in Addr \cup {Null} /\ r.prev \in Addr \cup {Null}
BY DEF Header

\* The predecessor of a chunk other than the first is a chunk that ends at it.
LEMMA Predecessor ==
  ASSUME NEW h, NEW C, Tiles(h, C), NEW c \in C, c # head
  PROVE  /\ h[c].prev \in C /\ h[c].prev < c
         /\ h[c].prev + h[h[c].prev].length = c /\ h[h[c].prev].next = c
<1>1. c \in Addr /\ c - 1 \in Addr /\ C \subseteq Nat
  BY AddrFacts DEF Tiles, Addr
<1>2. PICK d \in C : d <= c - 1 /\ c - 1 < d + h[d].length
  BY <1>1 DEF Tiles
<1>3. d \in Nat /\ h[d].length \in Nat
  <2>1. h[d] \in Header
    BY <1>2 DEF Tiles
  <2>2. h[d].length \in 0..Length /\ Length \in Nat
    BY <2>1, HeaderFacts, AddrFacts
  <2>3. h[d].length \in Nat
    BY <2>2
  <2> QED BY <2>3, <1>1, <1>2
<1>4. d < c
  BY <1>1, <1>2, <1>3, AddrFacts
<1>5. d + h[d].length <= c
  BY <1>2, <1>4 DEF Tiles
<1>6. d + h[d].length = c /\ c < Length
  BY <1>1, <1>2, <1>3, <1>5, AddrFacts DEF Addr
<1>7. LinkOK(h, C, d)
  BY <1>2 DEF Tiles
<1>8. h[c].prev = d /\ h[d].next = c
  BY <1>6, <1>7, AddrFacts DEF LinkOK
<1> QED BY <1>2, <1>4, <1>6, <1>8

\* g, D are a tiling in which the tile c of h, C is cut in two, n bytes from its
\* start, and that differs from it by the links of its neighbours only.
Halved(h, C, c, n, g, D) ==
  /\ Tiles(g, D) /\ D = C \cup {c + n} /\ c + n \in Addr \ C
  /\ g[c + n].state = "FREE" /\ g[c + n].next = h[c].next
  /\ g[c].state = h[c].state /\ g[c].length = n
  /\ \A a \in Addr \ {c, c + n} :
       /\ g[a].state = h[a].state
       /\ g[a].length = h[a].length
       /\ g[a].next = h[a].next

\* ksplit cuts one tile in two.
LEMMA SplitTiles ==
  ASSUME NEW h, NEW C, Tiles(h, C), NEW c \in C, NEW n \in Nat \ {0},
         n < h[c].length
  PROVE  Halved(h, C, c, n, ksplit(h, c, n), C \cup {c + n})
<1> DEFINE g == ksplit(h, c, n)
           D == C \cup {c + n}
           e == c + h[c].length
<1>1. /\ c \in Addr /\ h \in [Addr -> Header] /\ C \subseteq Addr
      /\ h[c] \in Header /\ LinkOK(h, C, c)
  BY DEF Tiles
<1>2. h[c].length \in Nat /\ e <= Length /\ c \in Nat /\ Length \in Nat
  BY <1>1, HeaderFacts, AddrFacts DEF LinkOK
<1>3. c + n \in Addr /\ c + n \notin C /\ c + n # c /\ c + n < e
  <2>1. c + n \in Addr /\ c < c + n /\ c + n < e
    BY <1>2 DEF Addr
  <2>2. c + n \notin C
    BY <2>1, <1>2 DEF Tiles
  <2> QED BY <2>1, <2>2, <1>2
<1>4. h[c].next # c /\ h[c].next # c + n
  BY <1>1, <1>2, <1>3, AddrFacts DEF LinkOK, Null
<1>5. /\ h[c].length - n \in 1..Length /\ n \in 0..Length
  BY <1>2 DEF Addr
<1>6. /\ g[c + n] = [state |-> "FREE", length |-> h[c].length - n,
                     next |-> h[c].next, prev |-> c]
      /\ g[c] = [h[c] EXCEPT !.next = c + n, !.length = n]
      /\ \A a \in Addr \ {c, c + n} :
           g[a] = IF a = h[c].next THEN [h[a] EXCEPT !.prev = c + n] ELSE h[a]
  BY <1>1, <1>3 DEF ksplit
<1>7. /\ g[c + n].state = "FREE" /\ g[c + n].length = h[c].length - n
      /\ g[c + n].next = h[c].next /\ g[c + n].prev = c /\ g[c + n] \in Header
  BY <1>1, <1>5, <1>6, HeaderFacts DEF Header
<1>8. /\ g[c].state = h[c].state /\ g[c].length = n
      /\ g[c].next = c + n /\ g[c].prev = h[c].prev /\ g[c] \in Header
  BY <1>1, <1>3, <1>5, <1>6 DEF Header
<1>9. ASSUME NEW a \in Addr \ {c, c + n}
      PROVE  /\ g[a].state = h[a].state /\ g[a].length = h[a].length
             /\ g[a].next = h[a].next /\ g[a] \in Header
             /\ g[a].prev = IF a = h[c].next THEN c + n ELSE h[a].prev
  <2>1. h[a] \in Header
    BY <1>1
  <2>2. CASE a = h[c].next
    BY <2>1, <2>2, <1>3, <1>6, ZenonT(40) DEF Header
  <2>3. CASE a # h[c].next
    BY <2>1, <2>3, <1>6
  <2> QED BY <2>2, <2>3
<1>10. g \in [Addr -> Header]
  <2>1. g = [a \in Addr |-> g[a]]
    BY DEF ksplit
  <2>2. \A a \in Addr : g[a] \in Header
    BY <1>7, <1>8, <1>9
  <2> HIDE DEF g
  <2> QED BY <2>1, <2>2
<1> HIDE DEF g
<1>11. ASSUME NEW d \in C, d # c
       PROVE  /\ d \in Nat /\ d \in Addr \ {c, c + n} /\ h[d].length \in Nat
              /\ LinkOK(h, C, d)
              /\ d + h[d].length # h[c].next
  <2>1. d \in Addr \ {c, c + n} /\ LinkOK(h, C, d) /\ h[d] \in Header
    BY <1>1, <1>3, <1>11 DEF Tiles
  <2>2. d \in Nat /\ h[d].length \in Nat /\ h[d].length > 0
    BY <2>1, HeaderFacts, AddrFacts DEF LinkOK
  <2>3. (c < d => e <= d) /\ (d < c => d + h[d].length <= c)
    BY <1>11 DEF Tiles
  <2>4. h[c].next = Null \/ h[c].next = e
    BY <1>1 DEF LinkOK
  <2>5. d + h[d].length # Null
    BY <2>2 DEF Null
  <2>6. d + h[d].length # e
    BY <2>2, <2>3, <1>2, <1>11
  <2> QED BY <2>1, <2>2, <2>4, <2>5, <2>6
<1>12. ASSUME NEW d \in D PROVE LinkOK(g, D, d)
  <2>1. CASE d = c
    BY <2>1, <1>1, <1>2, <1>3, <1>7, <1>8 DEF LinkOK
  <2>2. CASE d = c + n
    <3>1. g[d].length > 0 /\ d + g[d].length = e /\ g[d].state # "JUNK"
      BY <2>2, <1>2, <1>7
    <3>2. g[d].next = IF e = Length THEN Null ELSE e
      BY <2>2, <1>1, <1>7 DEF LinkOK
    <3>3. ASSUME e < Length PROVE e \in C /\ g[e].prev = c + n
      <4>1. e \in C /\ h[c].next = e
        BY <3>3, <1>1, <1>2 DEF LinkOK
      <4>2. e \in Addr \ {c, c + n}
        BY <4>1, <1>1, <1>2, <1>3
      <4> QED BY <4>1, <4>2, <1>9
    <3> QED BY <3>1, <3>2, <3>3, <2>2, <1>2 DEF LinkOK
  <2>3. CASE d # c /\ d # c + n
    <3>1. /\ d \in C /\ d \in Nat /\ d \in Addr \ {c, c + n} /\ h[d].length \in Nat
          /\ LinkOK(h, C, d) /\ d + h[d].length # h[c].next
      BY <2>3, <1>11
    <3> DEFINE x == d + h[d].length
    <3>2. /\ g[d].state = h[d].state /\ g[d].length = h[d].length
          /\ g[d].next = h[d].next
      BY <3>1, <1>9
    <3>3. ASSUME x < Length PROVE x \in D /\ g[x].prev = d
      <4>1. x \in C /\ h[x].prev = d
        BY <3>1, <3>3 DEF LinkOK
      <4>2. x \in Addr /\ x # c + n
        BY <4>1, <1>1, <1>3
      <4>3. CASE x = c
        BY <4>1, <4>3, <1>8
      <4>4. CASE x # c
        BY <4>1, <4>2, <4>4, <3>1, <1>9
      <4> QED BY <4>1, <4>3, <4>4
    <3> QED BY <3>1, <3>2, <3>3 DEF LinkOK
  <2> QED BY <2>1, <2>2, <2>3
<1>13. ASSUME NEW x \in D, NEW y \in D, x < y PROVE x + g[x].length <= y
  <2>1. \A d \in C \ {c} : g[d].length = h[d].length /\ d \in Nat /\ h[d].length \in Nat
    BY <1>9, <1>11
  <2>2. \A d \in C \ {c} : (c < d => e <= d) /\ (d < c => d + h[d].length <= c)
    BY DEF Tiles
  <2>3. \A p, q \in C : p < q => p + h[p].length <= q
    BY DEF Tiles
  <2>4. CASE x = c
    BY <2>4, <2>1, <2>2, <1>13, <1>2, <1>3, <1>8
  <2>5. CASE x = c + n
    BY <2>5, <2>1, <2>2, <1>13, <1>2, <1>3, <1>7
  <2>6. CASE x \in C \ {c} /\ y = c + n
    BY <2>6, <2>1, <2>2, <1>13, <1>2, <1>3
  <2>7. CASE x \in C \ {c} /\ y \in C
    BY <2>7, <2>1, <2>3, <1>13
  <2> QED BY <2>4, <2>5, <2>6, <2>7
<1>14. ASSUME NEW a \in Addr PROVE \E d \in D : d <= a /\ a < d + g[d].length
  <2>1. PICK d \in C : d <= a /\ a < d + h[d].length
    BY DEF Tiles
  <2>2. CASE d # c
    BY <2>1, <2>2, <1>9, <1>11
  <2>3. CASE d = c /\ a < c + n
    BY <2>1, <2>3, <1>8
  <2>4. CASE d = c /\ ~(a < c + n)
    <3>1. a \in Nat
      BY AddrFacts
    <3> QED BY <2>1, <2>4, <3>1, <1>2, <1>7
  <2> QED BY <2>2, <2>3, <2>4
<1>15. head \in D /\ g[head].prev = Null
  <2>1. head \in C /\ h[head].prev = Null /\ head \in Addr /\ head # c + n
    BY <1>3 DEF Tiles
  <2>2. CASE head = c
    BY <2>1, <2>2, <1>8
  <2>3. CASE head # c
    <3>1. head # h[c].next
      BY <1>1, <1>2, AddrFacts DEF LinkOK, Null, head
    <3> QED BY <2>1, <2>3, <3>1, <1>9
  <2> QED BY <2>1, <2>2, <2>3
<1>16. D \in SUBSET Addr
  BY <1>1, <1>3
<1>17. Tiles(g, D)
  BY <1>10, <1>12, <1>13, <1>14, <1>15, <1>16 DEF Tiles
<1>18. Halved(h, C, c, n, g, D)
  BY <1>3, <1>7, <1>8, <1>9, <1>17 DEF Halved
<1> QED BY <1>18 DEF g

\* The memory g after the chunk c was merged with its successor in memory h.
MergeFacts(h, C, c, g) ==
  /\ Tiles(g, C \ {h[c].next})
  /\ h[c].next \in C /\ c < h[c].next
  /\ g[c].state = "FREE" /\ g[c].next = h[h[c].next].next
  /\ g[c].prev = h[c].prev
  /\ \A a \in Addr \ {c} : /\ g[a].state = h[a].state
                           /\ g[a].length = h[a].length
                           /\ g[a].next = h[a].next

\* kmerge joins a tile with its successor, when both are free.
LEMMA MergeTiles ==
  ASSUME NEW h, NEW C, Tiles(h, C), NEW c \in C, Merges(h, c)
  PROVE  MergeFacts(h, C, c, kmerge(h, c))
<1> DEFINE g == kmerge(h, c)
           n == h[c].next
           D == C \ {n}
           e == n + h[n].length
<1>1. /\ c \in Addr /\ h \in [Addr -> Header] /\ C \subseteq Addr /\ C \subseteq Nat
      /\ h[c] \in Header /\ LinkOK(h, C, c)
  BY AddrFacts DEF Tiles
<1>2. /\ n = c + h[c].length /\ n \in C /\ n < Length /\ h[n].prev = c
      /\ h[c].length \in Nat /\ c < n
  BY <1>1, HeaderFacts, AddrFacts DEF Merges, LinkOK, Null
<1>3. /\ n \in Addr /\ h[n] \in Header /\ LinkOK(h, C, n) /\ h[n].length \in Nat
      /\ h[n].length > 0 /\ e <= Length /\ n < e /\ n \in Nat
  <2>1. n \in Addr /\ h[n] \in Header /\ LinkOK(h, C, n) /\ n \in Nat
    BY <1>1, <1>2 DEF Tiles
  <2> QED BY <2>1, HeaderFacts DEF LinkOK
<1>4. h[n].next # c /\ h[n].next # n /\ (h[n].next = Null \/ h[n].next = e)
  BY <1>1, <1>2, <1>3, AddrFacts DEF LinkOK, Null
<1>5. h[c].length + h[n].length \in 0..Length
  BY <1>1, <1>2, <1>3, AddrFacts
<1>6. /\ g[c] = [h[c] EXCEPT !.length = h[c].length + h[n].length,
                             !.next = h[n].next]
      /\ \A a \in Addr \ {c} :
           g[a] = IF a = h[n].next THEN [h[a] EXCEPT !.prev = c] ELSE h[a]
      /\ g = [a \in Addr |-> g[a]]
  BY <1>1, <1>4 DEF kmerge
<1> HIDE DEF g
<1>7. /\ g[c].state = "FREE" /\ g[c].length = h[c].length + h[n].length
      /\ g[c].next = h[n].next /\ g[c].prev = h[c].prev /\ g[c] \in Header
  <2>1. h[n].next \in Addr \cup {Null}
    BY <1>3, HeaderFacts
  <2> HIDE DEF n
  <2> QED BY <2>1, <1>1, <1>5, <1>6 DEF Header, Merges
<1>8. ASSUME NEW a \in Addr \ {c}
      PROVE  /\ g[a].state = h[a].state /\ g[a].length = h[a].length
             /\ g[a].next = h[a].next /\ g[a] \in Header
             /\ g[a].prev = IF a = h[n].next THEN c ELSE h[a].prev
  <2>1. h[a] \in Header
    BY <1>1
  <2>2. CASE a = h[n].next
    BY <2>1, <2>2, <1>1, <1>6, SMTT(20) DEF Header
  <2>3. CASE a # h[n].next
    BY <2>1, <2>3, <1>6
  <2> QED BY <2>2, <2>3
<1>9. g \in [Addr -> Header]
  BY <1>6, <1>7, <1>8
<1>10. c + g[c].length = e /\ c \in D /\ c \in Nat
  BY <1>1, <1>2, <1>3, <1>7
<1>11. ASSUME NEW d \in C, d # c, d # n
       PROVE  /\ d \in Nat /\ d \in Addr \ {c} /\ h[d].length \in Nat
              /\ LinkOK(h, C, d) /\ d + h[d].length # e /\ d + h[d].length # n
              /\ d + h[d].length # h[n].next
              /\ g[d].state = h[d].state /\ g[d].length = h[d].length
              /\ g[d].next = h[d].next
  <2>1. d \in Addr \ {c} /\ LinkOK(h, C, d) /\ h[d] \in Header
    BY <1>1, <1>11 DEF Tiles
  <2>2. d \in Nat /\ h[d].length \in Nat /\ h[d].length > 0
    BY <2>1, HeaderFacts, AddrFacts DEF LinkOK
  <2>3. (c < d => n <= d) /\ (n < d => e <= d) /\ (d < c => d + h[d].length <= c)
    BY <1>11, <1>2 DEF Tiles
  <2>4. d + h[d].length # e /\ d + h[d].length # n /\ d + h[d].length # Null
    BY <2>2, <2>3, <1>2, <1>3, <1>10, <1>11 DEF Null
  <2> QED BY <2>1, <2>2, <2>4, <1>4, <1>8
<1>12. ASSUME NEW d \in D PROVE LinkOK(g, D, d)
  <2>1. CASE d = c
    <3>1. g[c].next = IF e = Length THEN Null ELSE e
      BY <1>3, <1>7 DEF LinkOK
    <3>2. ASSUME e < Length PROVE e \in D /\ g[e].prev = c
      <4>1. e \in C /\ h[n].next = e /\ e # n /\ e \in Addr /\ e # c
        BY <3>2, <1>1, <1>2, <1>3 DEF LinkOK
      <4> QED BY <4>1, <1>8
    <3>3. g[c].length > 0 /\ g[c].state # "JUNK"
      BY <1>2, <1>3, <1>7
    <3> QED BY <2>1, <3>1, <3>2, <3>3, <1>3, <1>10 DEF LinkOK
  <2>2. CASE d # c
    <3>1. /\ d \in Nat /\ d \in Addr \ {c} /\ h[d].length \in Nat
          /\ LinkOK(h, C, d) /\ d + h[d].length # e /\ d + h[d].length # n
          /\ d + h[d].length # h[n].next
          /\ g[d].state = h[d].state /\ g[d].length = h[d].length
          /\ g[d].next = h[d].next
      BY <2>2, <1>11
    <3> DEFINE x == d + h[d].length
    <3>2. ASSUME x < Length PROVE x \in D /\ g[x].prev = d
      <4>1. x \in C /\ h[x].prev = d /\ x # n /\ x \in Addr /\ x # h[n].next
        BY <3>1, <3>2, <1>1 DEF LinkOK
      <4>2. CASE x = c
        BY <4>1, <4>2, <1>7
      <4>3. CASE x # c
        BY <4>1, <4>3, <1>8
      <4> QED BY <4>1, <4>2, <4>3
    <3> QED BY <3>1, <3>2 DEF LinkOK
  <2> QED BY <2>1, <2>2
<1>13. ASSUME NEW x \in D, NEW y \in D, x < y PROVE x + g[x].length <= y
  <2>1. \A p, q \in C : p < q => p + h[p].length <= q
    BY DEF Tiles
  <2>2. CASE x = c
    <3>1. n <= y /\ y # n /\ y \in Nat
      BY <1>1, <1>2, <1>13, <2>1, <2>2
    <3>2. n < y
      BY <3>1, <1>3
    <3>3. e <= y
      BY <3>2, <2>1, <1>2, <1>13
    <3> QED BY <2>2, <3>3, <1>10
  <2>3. CASE x # c
    <3>1. g[x].length = h[x].length
      BY <2>3, <1>11, <1>13
    <3> QED BY <3>1, <2>1, <1>13
  <2> QED BY <2>2, <2>3
<1>14. ASSUME NEW a \in Addr PROVE \E d \in D : d <= a /\ a < d + g[d].length
  <2>1. PICK d \in C : d <= a /\ a < d + h[d].length
    BY DEF Tiles
  <2>2. CASE d = c \/ d = n
    <3>1. a \in Nat
      BY AddrFacts
    <3>2. c <= a /\ a < e
      BY <2>1, <2>2, <3>1, <1>2, <1>3, <1>10
    <3> QED BY <3>2, <1>10
  <2>3. CASE d # c /\ d # n
    BY <2>1, <2>3, <1>11
  <2> QED BY <2>2, <2>3
<1>15. head \in D /\ g[head].prev = Null
  <2>1. head \in C /\ h[head].prev = Null /\ head \in Addr /\ head # n
    BY <1>1, <1>2, AddrFacts DEF Tiles
  <2>2. head # h[n].next
    BY <1>3, <1>4, AddrFacts DEF Null, head
  <2>3. CASE head = c
    BY <2>1, <2>3, <1>7
  <2>4. CASE head # c
    BY <2>1, <2>2, <2>4, <1>8
  <2> QED BY <2>1, <2>3, <2>4
<1>16. Tiles(g, D)
  <2>1. D \in SUBSET Addr
    BY <1>1
  <2> QED BY <2>1, <1>9, <1>12, <1>13, <1>14, <1>15 DEF Tiles
<1> QED BY <1>2, <1>7, <1>8, <1>16 DEF g, MergeFacts

\* The memory g after the chunk c was handed out from memory h.
TakeFacts(h, C, c, g) ==
  /\ Tiles(g, C)
  /\ g[c].state = "USED" /\ g[c].length = h[c].length
  /\ \A d \in C \ {c} : g[d] = h[d]
  /\ \A a \in Addr \ C : g[a].state = "USED" => h[a].state = "USED"

\* Marking a chunk used, and what its owner writes into it, touches no other
\* chunk.
LEMMA TakeTiles ==
  ASSUME NEW h, NEW C, Tiles(h, C), NEW c \in C
  PROVE  TakeFacts(h, C, c, Take(h, c))
<1> DEFINE g == Take(h, c)
           k == [h EXCEPT ![c].state = "USED"]
           e == c + h[c].length
<1>1. /\ c \in Addr /\ h \in [Addr -> Header] /\ C \subseteq Addr
      /\ h[c] \in Header /\ LinkOK(h, C, c)
  BY DEF Tiles
<1>2. /\ k \in [Addr -> Header] /\ k[c].state = "USED"
      /\ k[c].length = h[c].length /\ k[c].next = h[c].next
      /\ k[c].prev = h[c].prev /\ \A a \in Addr \ {c} : k[a] = h[a]
  BY <1>1 DEF Header
<1>3. /\ \A a \in Addr : g[a] = IF c < a /\ a < c + k[c].length THEN Junk ELSE k[a]
      /\ g = [a \in Addr |-> g[a]]
  BY DEF Take, Scribble
<1> HIDE DEF k, g
<1>4. c \in Nat /\ h[c].length \in Nat
  BY <1>1, HeaderFacts, AddrFacts
<1>5. g[c] = k[c]
  BY <1>1, <1>3, <1>4
<1>6. \A d \in C \ {c} : g[d] = h[d]
  <2> SUFFICES ASSUME NEW d \in C, d # c PROVE g[d] = h[d]
    OBVIOUS
  <2>1. d \in Addr /\ d \in Nat
    BY <1>1, AddrFacts
  <2>2. c < d => e <= d
    BY DEF Tiles
  <2>3. ~(c < d /\ d < c + k[c].length)
    BY <2>1, <2>2, <1>2, <1>4
  <2> QED BY <2>1, <2>3, <1>2, <1>3
<1>7. g \in [Addr -> Header]
  <2>1. \A a \in Addr : g[a] \in Header
    BY <1>2, <1>3, AddrFacts
  <2> QED BY <2>1, <1>3
<1>8. \A a \in Addr \ C : g[a].state = "USED" => h[a].state = "USED"
  <2>1. Junk.state # "USED"
    BY DEF Junk
  <2> QED BY <2>1, <1>2, <1>3
<1>9. \A d \in C : /\ g[d].length = h[d].length /\ g[d].next = h[d].next
                   /\ g[d].prev = h[d].prev
                   /\ g[d].state # "JUNK"
  <2>1. \A d \in C : h[d].state # "JUNK"
    BY DEF Tiles, LinkOK
  <2> QED BY <2>1, <1>2, <1>5, <1>6
<1>10. \A d \in C : LinkOK(g, C, d)
  <2> SUFFICES ASSUME NEW d \in C PROVE LinkOK(g, C, d)
    OBVIOUS
  <2>1. LinkOK(h, C, d)
    BY DEF Tiles
  <2> QED BY <2>1, <1>9 DEF LinkOK
<1>11. Tiles(g, C)
  <2>1. head \in C /\ g[head].prev = Null
    BY <1>9 DEF Tiles
  <2>2. \A x, y \in C : x < y => x + g[x].length <= y
    BY <1>9 DEF Tiles
  <2>3. \A a \in Addr : \E d \in C : d <= a /\ a < d + g[d].length
    BY <1>9 DEF Tiles
  <2> QED BY <1>1, <1>7, <1>10, <2>1, <2>2, <2>3 DEF Tiles
<1> QED BY <1>2, <1>5, <1>6, <1>8, <1>11 DEF g, TakeFacts

-----------------------------------------------------------------------------
(* The inductive invariant *)

\* Free neighbours in memory h with chunks C.
FreePair(h, p, q) ==
  h[p].state = "FREE" /\ h[p].next = q /\ h[q].state = "FREE"

\* Memory h with chunks C serves the allocations o, each in a chunk of its own
\* with room for the request.
Serves(h, o) ==
  /\ \A a \in Addr : h[a].state = "USED" <=> a \in DOMAIN o
  /\ \A c \in DOMAIN o : o[c] \in 0..MaxRequest /\ o[c] + Unit <= h[c].length

\* A sound heap, but for free neighbours of the chunk c.
SoundBut(h, C, o, c) ==
  /\ Tiles(h, C) /\ DOMAIN o \subseteq C /\ Serves(h, o)
  /\ \A p, q \in C : FreePair(h, p, q) => p = c \/ q = c

Sound(h, C, o) ==
  /\ Tiles(h, C) /\ DOMAIN o \subseteq C /\ Serves(h, o)
  /\ \A p, q \in C : ~FreePair(h, p, q)

HInv == Sound(hdr, chunks, owned) /\ result \in Addr \cup {Null}

\* Rounding up leaves room for the request and a header.
LEMMA GrossRoom ==
  ASSUME NEW n \in Nat
  PROVE  Gross(n) \in Nat /\ Gross(n) >= n + Unit /\ Gross(n) > 0
<1>1. Unit \in Nat \ {0}
  BY HeapAssumption
<1>2. n % Unit \in 0..(Unit - 1)
  BY <1>1
<1>3. PICK r \in 0..(Unit - 1) : r = n % Unit
  BY <1>2
<1> QED BY <1>1, <1>3 DEF Gross

\* The allocations o and one of n bytes in the chunk c.
Owning(o, c, n) == [a \in DOMAIN o \cup {c} |-> IF a = c THEN n ELSE o[a]]

\* The end of kmalloc: the chunk c is large enough and gets marked.
LEMMA Allocate ==
  ASSUME NEW h, NEW C, NEW o, NEW c \in C, SoundBut(h, C, o, c),
         NEW n \in 0..MaxRequest, h[c].length >= n + Unit
  PROVE  Sound(Take(h, c), C, Owning(o, c, n))
<1> DEFINE g == Take(h, c)
           o2 == Owning(o, c, n)
<1>0. /\ Tiles(h, C) /\ DOMAIN o \subseteq C /\ Serves(h, o)
      /\ \A p, q \in C : FreePair(h, p, q) => p = c \/ q = c
  BY DEF SoundBut
<1>1. TakeFacts(h, C, c, g)
  BY <1>0, TakeTiles
<1>2. /\ DOMAIN o2 = DOMAIN o \cup {c} /\ DOMAIN o2 \subseteq C /\ o2[c] = n
      /\ \A d \in DOMAIN o \ {c} : o2[d] = o[d]
  BY <1>0 DEF Owning
<1> HIDE DEF g, o2
<1>3. ASSUME NEW a \in Addr PROVE g[a].state = "USED" <=> a \in DOMAIN o2
  <2>1. h[a].state = "USED" <=> a \in DOMAIN o
    BY <1>0 DEF Serves
  <2>2. CASE a = c
    BY <2>2, <1>1, <1>2 DEF TakeFacts
  <2>3. CASE a \in C \ {c}
    BY <2>1, <2>3, <1>1, <1>2 DEF TakeFacts
  <2>4. CASE a \notin C
    BY <2>1, <2>4, <1>0, <1>1, <1>2 DEF TakeFacts
  <2> QED BY <2>2, <2>3, <2>4
<1>4. ASSUME NEW d \in DOMAIN o2
      PROVE  o2[d] \in 0..MaxRequest /\ o2[d] + Unit <= g[d].length
  <2>1. CASE d = c
    <3>1. o2[d] = n /\ g[d].length = h[c].length /\ h[c] \in Header
      BY <2>1, <1>0, <1>1, <1>2 DEF Tiles, TakeFacts
    <3>2. h[c].length \in Nat
      BY <3>1, HeaderFacts
    <3> QED BY <3>1, <3>2, HeapAssumption
  <2>2. CASE d # c
    <3>1. d \in DOMAIN o /\ o2[d] = o[d] /\ g[d] = h[d]
      BY <2>2, <1>0, <1>1, <1>2 DEF TakeFacts
    <3> QED BY <3>1, <1>0 DEF Serves
  <2> QED BY <2>1, <2>2
<1>5. ASSUME NEW p \in C, NEW q \in C PROVE ~FreePair(g, p, q)
  BY <1>0, <1>1 DEF FreePair, TakeFacts
<1>6. Serves(g, o2)
  BY <1>3, <1>4 DEF Serves
<1> QED BY <1>1, <1>2, <1>5, <1>6 DEF Sound, TakeFacts, g, o2

\* A successful kmalloc of n bytes takes the chunk c, from the memory h that
\* ksplit may have made of hdr.
Handed(h, c, n) ==
  /\ hdr' = Take(h, c) /\ owned' = Owning(owned, c, n) /\ result' = c
  /\ c \in chunks' /\ c \in Addr /\ hdr[c].state = "FREE"
  /\ SoundBut(h, chunks', owned, c)
  /\ h[c].length >= Gross(n)
  /\ \A d \in DOMAIN owned : h[d].length = hdr[d].length

\* kmalloc hands out the first chunk that fits, split where there is room for another.
LEMMA MallocHands ==
  ASSUME HInv, NEW n \in 0..MaxRequest, kmalloc(n), Fits(Gross(n)) # {}
  PROVE  \E h, c : Handed(h, c, n)
<1> DEFINE m == Gross(n)
           c == FirstFit(m)
<1>1. n \in Nat /\ m \in Nat \ {0} /\ m >= n + Unit
  BY GrossRoom, HeapAssumption
<1>2. chunks \subseteq Addr /\ Fits(m) \subseteq Nat
  BY AddrFacts DEF HInv, Sound, Tiles, Fits
<1> HIDE DEF m
<1>4. Fits(m) # {}
  BY DEF m
<1>5. QED
  <2>1. c \in Fits(m)
    BY <1>2, <1>4, MinIn DEF FirstFit
  <2>2. c \in chunks /\ hdr[c].state = "FREE" /\ hdr[c].length >= m
    BY <2>1 DEF Fits
  <2>3. /\ hdr' = Take(IF Splits(c, m) THEN ksplit(hdr, c, m) ELSE hdr, c)
        /\ chunks' = IF Splits(c, m) THEN chunks \cup {c + m} ELSE chunks
        /\ owned' = Owning(owned, c, n)
        /\ result' = c
    BY <1>4 DEF kmalloc, m, Owning
  <2> HIDE DEF c
  <2>4. /\ Tiles(hdr, chunks) /\ DOMAIN owned \subseteq chunks /\ Serves(hdr, owned)
        /\ \A p, q \in chunks : ~FreePair(hdr, p, q)
        /\ hdr[c].length \in Nat /\ c \in Addr
    <3>1. Tiles(hdr, chunks) /\ hdr[c] \in Header /\ c \in Addr
      BY <2>2 DEF HInv, Sound, Tiles
    <3> QED BY <3>1, HeaderFacts DEF HInv, Sound
  <2>5. Unit \in Nat
    BY HeapAssumption
  <2>6. CASE ~Splits(c, m)
    <3>2. hdr' = Take(hdr, c) /\ chunks' = chunks
      BY <2>3, <2>6
    <3>3. SoundBut(hdr, chunks, owned, c)
      BY <2>4 DEF SoundBut
    <3>4. Handed(hdr, c, n)
      BY <3>2, <3>3, <2>2, <2>3, <2>4 DEF Handed, m
    <3> QED BY <3>4
  <2>7. CASE Splits(c, m)
    <3> DEFINE h1 == ksplit(hdr, c, m)
               C1 == chunks \cup {c + m}
    <3>1. m < hdr[c].length
      BY <2>7, <2>4, <2>5, <1>1 DEF Splits
    <3>2. /\ Tiles(h1, C1) /\ c + m \in Addr \ chunks
          /\ h1[c + m].state = "FREE" /\ h1[c + m].next = hdr[c].next
          /\ h1[c].state = "FREE" /\ h1[c].length = m
          /\ \A a \in Addr \ {c, c + m} :
               /\ h1[a].state = hdr[a].state
               /\ h1[a].length = hdr[a].length
               /\ h1[a].next = hdr[a].next
      <4>1. Tiles(hdr, chunks) /\ c \in chunks /\ m \in Nat \ {0} /\ m < hdr[c].length
        BY <3>1, <2>2, <2>4, <1>1
      <4>2. hdr[c].state = "FREE"
        BY <2>2
      <4>3. Halved(hdr, chunks, c, m, h1, C1)
        BY <4>1, SplitTiles
      <4> HIDE DEF m, h1
      <4> QED BY <4>2, <4>3 DEF Halved
    <3> HIDE DEF h1
    <3>3. DOMAIN owned \subseteq C1 /\ c \notin DOMAIN owned /\ c + m \notin DOMAIN owned
      BY <3>2, <2>2, <2>4 DEF Serves
    <3>4. Serves(h1, owned) /\ \A d \in DOMAIN owned : h1[d].length = hdr[d].length
      <4>1. \A a \in Addr : h1[a].state = "USED" <=> a \in DOMAIN owned
        <5> SUFFICES ASSUME NEW a \in Addr
                     PROVE  h1[a].state = "USED" <=> a \in DOMAIN owned
          OBVIOUS
        <5>1. CASE a \in {c, c + m}
          BY <5>1, <3>2, <3>3
        <5>2. CASE a \notin {c, c + m}
          BY <5>2, <3>2, <2>4 DEF Serves
        <5> QED BY <5>1, <5>2
      <4>2. \A d \in DOMAIN owned : h1[d].length = hdr[d].length
        BY <3>2, <3>3, <2>4, <1>2
      <4> QED BY <4>1, <4>2, <2>4 DEF Serves
    <3>5. ASSUME NEW p \in C1, NEW q \in C1, FreePair(h1, p, q), p # c, q # c
          PROVE  FALSE
      <4>1. CASE p = c + m
        <5>1. hdr[c].next = q
          BY <4>1, <3>2, <3>5 DEF FreePair
        <5>2. q # c + m
          <6>1. LinkOK(hdr, chunks, c)
            BY <2>2, <2>4 DEF Tiles
          <6>2. hdr[c].next = Null \/ hdr[c].next = c + hdr[c].length
            BY <6>1 DEF LinkOK
          <6> QED BY <6>2, <5>1, <3>1, <3>2, <2>4, <1>1, AddrFacts DEF Addr
        <5>3. q \in chunks /\ hdr[q].state = "FREE"
          BY <5>2, <3>2, <3>5, <1>2 DEF FreePair
        <5> QED BY <5>1, <5>3, <2>2, <2>4 DEF FreePair
      <4>2. CASE p # c + m /\ q = c + m
        <5>1. p \in chunks /\ hdr[p].next = c + m /\ LinkOK(hdr, chunks, p)
          BY <4>2, <3>2, <3>5, <2>4, <1>2 DEF FreePair, Tiles
        <5>2. p + hdr[p].length < Length => p + hdr[p].length \in chunks
          BY <5>1 DEF LinkOK
        <5>3. c + m \in chunks
          <6>1. p \in Nat /\ hdr[p].length \in Nat /\ p + hdr[p].length <= Length
            <7>1. p \in Addr /\ hdr[p] \in Header
              BY <5>1, <2>4 DEF Tiles
            <7> QED BY <7>1, <5>1, HeaderFacts, AddrFacts DEF LinkOK
          <6>2. c + m # Null
            BY <3>2, AddrFacts
          <6>3. c + m = p + hdr[p].length /\ p + hdr[p].length # Length
            BY <5>1, <6>2 DEF LinkOK
          <6> QED BY <6>1, <6>3, <5>2, AddrFacts
        <5> QED BY <5>3, <3>2
      <4>3. CASE p # c + m /\ q # c + m
        BY <4>3, <3>2, <3>5, <2>4, <1>2 DEF FreePair
      <4> QED BY <4>1, <4>2, <4>3
    <3>6. h1[c].length >= m /\ c \in C1
      BY <3>2, <1>1, <2>2
    <3>7. hdr' = Take(h1, c) /\ chunks' = C1
      BY <2>3, <2>7 DEF h1
    <3> HIDE DEF C1
    <3>8. SoundBut(h1, C1, owned, c)
      BY <3>2, <3>3, <3>4, <3>5 DEF SoundBut
    <3>9. Handed(h1, c, n)
      BY <3>4, <3>6, <3>7, <3>8, <2>2, <2>3, <2>4 DEF Handed, m
    <3> QED BY <3>9
  <2> QED BY <2>6, <2>7

\* kmalloc keeps the invariant of the heap.
LEMMA MallocStep ==
  ASSUME HInv, NEW n \in 0..MaxRequest, kmalloc(n)
  PROVE  HInv'
<1>1. CASE Fits(Gross(n)) = {}
  <2>1. UNCHANGED <<hdr, chunks, owned>> /\ result' = Null
    BY <1>1 DEF kmalloc
  <2> QED BY <2>1 DEF HInv
<1>2. CASE Fits(Gross(n)) # {}
  <2>1. PICK h, c : Handed(h, c, n)
    BY <1>2, MallocHands
  <2>2. /\ c \in chunks' /\ c \in Addr /\ SoundBut(h, chunks', owned, c)
        /\ hdr' = Take(h, c) /\ owned' = Owning(owned, c, n) /\ result' = c
    BY <2>1 DEF Handed
  <2>3. h[c].length >= n + Unit
    <3>1. h[c] \in Header /\ n \in Nat
      BY <2>2, HeapAssumption DEF SoundBut, Tiles
    <3> QED BY <3>1, <2>1, GrossRoom, HeaderFacts, HeapAssumption DEF Handed
  <2>4. Sound(Take(h, c), chunks', Owning(owned, c, n))
    BY <2>2, <2>3, Allocate
  <2> QED BY <2>2, <2>4 DEF HInv
<1> QED BY <1>1, <1>2

\* The allocations o without the one in chunk c.
Releasing(o, c) == [a \in DOMAIN o \ {c} |-> o[a]]

\* The first lines of kfree: the chunk is marked free, and may have free
\* neighbours.
LEMMA Unmark ==
  ASSUME NEW h, NEW C, NEW o, Sound(h, C, o), NEW c \in DOMAIN o
  PROVE  /\ SoundBut([h EXCEPT ![c].state = "FREE"], C, Releasing(o, c), c)
         /\ [h EXCEPT ![c].state = "FREE"][c].state = "FREE" /\ c \in C
<1> DEFINE g == [h EXCEPT ![c].state = "FREE"]
           o2 == Releasing(o, c)
<1>1. /\ Tiles(h, C) /\ DOMAIN o \subseteq C /\ Serves(h, o)
      /\ \A p, q \in C : ~FreePair(h, p, q)
  BY DEF Sound
<1>2. c \in C /\ c \in Addr /\ C \subseteq Addr /\ h \in [Addr -> Header]
  BY <1>1 DEF Tiles
<1>3. /\ g \in [Addr -> Header] /\ g[c].state = "FREE"
      /\ g[c].length = h[c].length /\ g[c].next = h[c].next
      /\ g[c].prev = h[c].prev /\ \A a \in Addr \ {c} : g[a] = h[a]
  BY <1>2 DEF Header
<1>4. DOMAIN o2 = DOMAIN o \ {c} /\ \A d \in DOMAIN o2 : o2[d] = o[d]
  BY DEF Releasing
<1> HIDE DEF g, o2
<1>5. \A d \in C : /\ g[d].length = h[d].length /\ g[d].next = h[d].next
                   /\ g[d].prev = h[d].prev /\ g[d].state # "JUNK"
  <2>1. \A d \in C : h[d].state # "JUNK"
    BY <1>1 DEF Tiles, LinkOK
  <2> QED BY <2>1, <1>2, <1>3
<1>6. \A d \in C : LinkOK(g, C, d)
  <2> SUFFICES ASSUME NEW d \in C PROVE LinkOK(g, C, d)
    OBVIOUS
  <2>1. LinkOK(h, C, d)
    BY <1>1 DEF Tiles
  <2> QED BY <2>1, <1>5 DEF LinkOK
<1>7. Tiles(g, C)
  <2>1. head \in C /\ g[head].prev = Null
    BY <1>1, <1>5 DEF Tiles
  <2>2. \A x, y \in C : x < y => x + g[x].length <= y
    BY <1>1, <1>5 DEF Tiles
  <2>3. \A a \in Addr : \E d \in C : d <= a /\ a < d + g[d].length
    BY <1>1, <1>5 DEF Tiles
  <2> QED BY <1>2, <1>3, <1>6, <2>1, <2>2, <2>3 DEF Tiles
<1>8. Serves(g, o2)
  <2>1. ASSUME NEW a \in Addr PROVE g[a].state = "USED" <=> a \in DOMAIN o2
    BY <1>1, <1>3, <1>4 DEF Serves
  <2>2. ASSUME NEW d \in DOMAIN o2
        PROVE  o2[d] \in 0..MaxRequest /\ o2[d] + Unit <= g[d].length
    <3>1. d \in DOMAIN o /\ d # c /\ o2[d] = o[d] /\ g[d] = h[d]
      BY <1>1, <1>2, <1>3, <1>4
    <3> QED BY <3>1, <1>1 DEF Serves
  <2> QED BY <2>1, <2>2 DEF Serves
<1>9. ASSUME NEW p \in C, NEW q \in C, FreePair(g, p, q) PROVE p = c \/ q = c
  BY <1>1, <1>2, <1>3, <1>9 DEF FreePair
<1> QED BY <1>1, <1>2, <1>3, <1>4, <1>7, <1>8, <1>9 DEF SoundBut, g, o2

\* kmerge of a chunk c keeps tiling and allocations, whether it merges or not.
LEMMA MergeServes ==
  ASSUME NEW h, NEW C, NEW o, NEW c \in C, Merges(h, c),
         Tiles(h, C), DOMAIN o \subseteq C, Serves(h, o)
  PROVE  /\ MergeFacts(h, C, c, kmerge(h, c))
         /\ DOMAIN o \subseteq C \ {h[c].next}
         /\ Serves(kmerge(h, c), o)
<1> DEFINE g == kmerge(h, c)
<1>1. MergeFacts(h, C, c, g)
  BY MergeTiles
<1> HIDE DEF g
<1>2. C \subseteq Addr
  BY DEF Tiles
<1>3. h[c].state = "FREE" /\ h[h[c].next].state = "FREE" /\ h[c].next \in C
  BY <1>1 DEF Merges, MergeFacts
<1>4. c \notin DOMAIN o /\ h[c].next \notin DOMAIN o
  BY <1>2, <1>3 DEF Serves
<1>5. \A a \in Addr : g[a].state = h[a].state
  BY <1>1, <1>3 DEF MergeFacts
<1>6. \A a \in DOMAIN o : g[a].length = h[a].length
  BY <1>1, <1>2, <1>4 DEF MergeFacts
<1>7. Serves(g, o)
  BY <1>5, <1>6 DEF Serves
<1> QED BY <1>1, <1>4, <1>7 DEF g

\* A heap after the first kmerge of kfree: only the predecessor of the free chunk
\* c may be free as well.
SoundButPrev(h, C, o, c) ==
  /\ Tiles(h, C) /\ DOMAIN o \subseteq C /\ Serves(h, o)
  /\ c \in C /\ h[c].state = "FREE"
  /\ \A p, q \in C : FreePair(h, p, q) => q = c

\* The successor of a chunk is the chunk that starts at its end.
LEMMA NextAfter ==
  ASSUME NEW h, NEW C, Tiles(h, C), NEW c \in C, NEW d \in C, h[c].next = d
  PROVE  c < d /\ d = c + h[c].length /\ c \in Nat /\ d \in Nat
<1>1. c \in Addr /\ d \in Addr /\ h[c] \in Header /\ LinkOK(h, C, c)
  BY DEF Tiles
<1>2. c \in Nat /\ d \in Nat /\ h[c].length \in Nat /\ d # Null
  BY <1>1, HeaderFacts, AddrFacts
<1> QED BY <1>1, <1>2 DEF LinkOK

\* kmerge(c).
LEMMA MergeNext ==
  ASSUME NEW h, NEW C, NEW o, NEW c \in C, SoundBut(h, C, o, c),
         h[c].state = "FREE"
  PROVE  SoundButPrev(kmerge(h, c), C \ Merged(h, c), o, c)
<1>1. /\ Tiles(h, C) /\ DOMAIN o \subseteq C /\ Serves(h, o)
      /\ \A p, q \in C : FreePair(h, p, q) => p = c \/ q = c
      /\ C \subseteq Addr /\ Null \notin Addr
  BY AddrFacts DEF SoundBut, Tiles
<1>2. CASE ~Merges(h, c)
  <2>1. kmerge(h, c) = h /\ C \ Merged(h, c) = C
    BY <1>2 DEF kmerge, Merged
  <2>2. ASSUME NEW p \in C, NEW q \in C, FreePair(h, p, q) PROVE q = c
    <3>1. p # c
      BY <2>2, <1>1, <1>2 DEF FreePair, Merges
    <3> QED BY <3>1, <2>2, <1>1
  <2> QED BY <2>1, <2>2, <1>1 DEF SoundButPrev
<1>3. CASE Merges(h, c)
  <2> DEFINE g == kmerge(h, c)
             n == h[c].next
             D == C \ {n}
  <2>1. C \ Merged(h, c) = D
    BY <1>3 DEF Merged
  <2>2. MergeFacts(h, C, c, g) /\ DOMAIN o \subseteq D /\ Serves(g, o)
    BY <1>1, <1>3, MergeServes
  <2> HIDE DEF g
  <2>3. n \in C /\ n # c /\ h[n].state = "FREE"
    <3>1. n \in C
      BY <2>2 DEF MergeFacts
    <3> QED BY <3>1, <1>1, <1>3, NextAfter DEF Merges
  <2>4. /\ g[c].state = "FREE" /\ g[c].next = h[n].next
        /\ \A a \in Addr \ {c} : g[a].state = h[a].state /\ g[a].next = h[a].next
    BY <2>2 DEF MergeFacts
  <2>5. ASSUME NEW p \in D, NEW q \in D, FreePair(g, p, q), q # c PROVE FALSE
    <3>1. q \in C /\ h[q].state = "FREE"
      BY <2>4, <2>5, <1>1 DEF FreePair
    <3>2. CASE p = c
      <4>1. FreePair(h, n, q)
        BY <2>3, <2>4, <2>5, <3>1, <3>2 DEF FreePair
      <4> QED BY <4>1, <3>1, <2>3, <2>5, <1>1
    <3>3. CASE p # c
      <4>1. FreePair(h, p, q)
        BY <2>4, <2>5, <3>1, <3>3, <1>1 DEF FreePair
      <4> QED BY <4>1, <3>3, <2>5, <1>1
    <3> QED BY <3>2, <3>3
  <2>6. Tiles(g, D) /\ c \in D
    BY <2>2, <2>3 DEF MergeFacts
  <2>7. SoundButPrev(g, D, o, c)
    BY <2>2, <2>4, <2>5, <2>6 DEF SoundButPrev
  <2> QED BY <2>1, <2>7 DEF g
<1> QED BY <1>2, <1>3

\* kmerge(c->prev).
LEMMA MergePrev ==
  ASSUME NEW h, NEW C, NEW o, NEW c, SoundButPrev(h, C, o, c)
  PROVE  Sound(kmerge(h, h[c].prev), C \ Merged(h, h[c].prev), o)
<1> DEFINE x == h[c].prev
<1>1. /\ Tiles(h, C) /\ DOMAIN o \subseteq C /\ Serves(h, o)
      /\ c \in C /\ h[c].state = "FREE" /\ C \subseteq Addr
      /\ \A p, q \in C : FreePair(h, p, q) => q = c
  BY DEF SoundButPrev, Tiles
<1>2. \A d \in C : d \in Nat /\ h[d].length \in Nat
  <2> SUFFICES ASSUME NEW d \in C PROVE d \in Nat /\ h[d].length \in Nat
    OBVIOUS
  <2>1. d \in Addr /\ h[d] \in Header
    BY <1>1 DEF Tiles
  <2> QED BY <2>1, HeaderFacts, AddrFacts
<1>3. CASE ~Merges(h, x)
  <2>1. kmerge(h, x) = h /\ C \ Merged(h, x) = C
    BY <1>3 DEF kmerge, Merged
  <2>2. ASSUME NEW p \in C, NEW q \in C, FreePair(h, p, q) PROVE FALSE
    <3>1. q = c /\ h[p].next = c /\ h[p].state = "FREE"
      BY <2>2, <1>1 DEF FreePair
    <3>2. p < c /\ c = p + h[p].length /\ p \in Nat
      BY <3>1, <2>2, <1>1, NextAfter
    <3>3. c # head
      BY <3>2 DEF head
    <3>4. x \in C /\ x < c /\ x + h[x].length = c /\ h[x].next = c
      BY <3>3, <1>1, Predecessor
    <3>5. x = p
      <4>1. (x < p => x + h[x].length <= p) /\ (p < x => p + h[p].length <= x)
        BY <3>4, <2>2, <1>1 DEF Tiles
      <4>2. x \in Nat /\ p \in Nat /\ c \in Nat
        BY <3>4, <2>2, <1>1, <1>2
      <4> HIDE DEF x
      <4>3. ~(x < p)
        BY <4>1, <4>2, <3>2, <3>4
      <4>4. ~(p < x)
        BY <4>1, <4>2, <3>2, <3>4
      <4> QED BY <4>2, <4>3, <4>4
    <3>6. Merges(h, p)
      <4>1. p # Null /\ c # Null
        BY <1>1, <2>2, AddrFacts
      <4> QED BY <4>1, <3>1, <1>1 DEF Merges
    <3> QED BY <3>5, <3>6, <1>3
  <2> QED BY <2>1, <2>2, <1>1 DEF Sound
<1>4. CASE Merges(h, x)
  <2> DEFINE g == kmerge(h, x)
             D == C \ {c}
  <2>1. c # head
    BY <1>1, <1>4 DEF Tiles, Merges
  <2>2. x \in C /\ x < c /\ h[x].next = c /\ h[x].state = "FREE"
    BY <2>1, <1>1, <1>4, Predecessor DEF Merges
  <2>3. MergeFacts(h, C, x, g) /\ DOMAIN o \subseteq D /\ Serves(g, o)
    BY <1>1, <1>4, <2>2, MergeServes
  <2>4. C \ Merged(h, x) = D
    BY <1>4, <2>2 DEF Merged
  <2> HIDE DEF g, x
  <2>5. /\ Tiles(g, D) /\ g[x].next = h[c].next
        /\ \A a \in Addr : g[a].state = h[a].state
        /\ \A a \in Addr \ {x} : g[a].next = h[a].next
    BY <2>2, <2>3 DEF MergeFacts
  <2>6. ASSUME NEW p \in D, NEW q \in D, FreePair(g, p, q) PROVE FALSE
    <3>1. CASE p = x
      <4>1. FreePair(h, c, q)
        BY <3>1, <2>5, <2>6, <1>1 DEF FreePair
      <4> QED BY <4>1, <2>6, <1>1
    <3>2. CASE p # x
      <4>1. FreePair(h, p, q)
        BY <3>2, <2>5, <2>6, <1>1 DEF FreePair
      <4> QED BY <4>1, <2>6, <1>1
    <3> QED BY <3>1, <3>2
  <2>7. Sound(g, D, o)
    BY <2>3, <2>5, <2>6 DEF Sound
  <2> QED BY <2>4, <2>7 DEF g, x
<1> QED BY <1>3, <1>4

\* kfree keeps the invariant of the heap, merging with the neighbours that are free.
LEMMA FreeStep ==
  ASSUME HInv, NEW c \in Addr, kfree(c)
  PROVE  HInv'
<1> DEFINE h1 == [hdr EXCEPT ![c].state = "FREE"]
           C1 == chunks \ Merged(h1, c)
           h2 == kmerge(h1, c)
           o == Releasing(owned, c)
<1>1. c \in DOMAIN owned
  BY DEF HInv, Sound, Serves, kfree
<1>2. SoundBut(h1, chunks, o, c) /\ h1[c].state = "FREE" /\ c \in chunks
  BY <1>1, Unmark DEF HInv
<1>3. /\ hdr' = kmerge(h2, h2[c].prev)
      /\ chunks' = C1 \ Merged(h2, h2[c].prev)
      /\ owned' = o /\ result' = result
  BY DEF kfree, Releasing
<1> HIDE DEF h1, o
<1>4. SoundButPrev(h2, C1, o, c)
  BY <1>2, MergeNext
<1> HIDE DEF h2, C1
<1>5. Sound(kmerge(h2, h2[c].prev), C1 \ Merged(h2, h2[c].prev), o)
  BY <1>4, MergePrev
<1> QED BY <1>3, <1>5 DEF HInv

-----------------------------------------------------------------------------
(* Theorems *)

\* kmalloc_init makes a sound heap.
LEMMA InitSound == Init => HInv
<1> SUFFICES ASSUME Init PROVE HInv
  OBVIOUS
<1> DEFINE r == [state |-> "FREE", length |-> Length, next |-> Null, prev |-> Null]
<1>1. /\ hdr[head] = r /\ \A a \in Addr \ {head} : hdr[a] = Junk
      /\ hdr = [a \in Addr |-> hdr[a]]
      /\ chunks = {head} /\ owned = [c \in {} |-> 0] /\ result = Null
  BY AddrFacts DEF Init
<1>2. r \in Header
  BY AddrFacts DEF Header
<1>3. hdr \in [Addr -> Header]
  BY <1>1, <1>2, AddrFacts
<1>4. LinkOK(hdr, chunks, head)
  BY <1>1, AddrFacts DEF LinkOK
<1>5. \A a \in Addr : 0 <= a /\ a < 0 + Length
  BY HeapAssumption DEF Addr
<1>6. Tiles(hdr, chunks)
  <2>1. hdr[head].prev = Null /\ hdr[head].length = Length /\ head = 0
    BY <1>1, AddrFacts
  <2>2. \A a \in Addr : head <= a /\ a < head + hdr[head].length
    BY <2>1, <1>5
  <2>3. chunks \in SUBSET Addr /\ head \in chunks /\ head \in Int
    BY <1>1, AddrFacts
  <2>4. \A c, d \in chunks : ~(c < d)
    BY <1>1, <2>3
  <2> QED BY <1>1, <1>3, <1>4, <2>1, <2>2, <2>3, <2>4 DEF Tiles
<1>7. Serves(hdr, owned)
  BY <1>1, AddrFacts DEF Serves, Junk
<1>8. ~FreePair(hdr, head, head)
  BY <1>1, AddrFacts DEF FreePair
<1>9. DOMAIN owned \subseteq chunks
  BY <1>1
<1> QED BY <1>1, <1>6, <1>7, <1>8, <1>9 DEF HInv, Sound

\* The heap stays sound, whatever is allocated and freed in which order: for
\* every arena, header size and bound on the requests.
THEOREM HeapInvariant == Spec => []HInv
<1>1. HInv /\ [Next]_vars => HInv'
  <2> SUFFICES ASSUME HInv, [Next]_vars PROVE HInv'
    OBVIOUS
  <2>1. CASE \E n \in 0..MaxRequest : kmalloc(n)
    BY <2>1, MallocStep
  <2>2. CASE \E c \in Addr : kfree(c)
    BY <2>2, FreeStep
  <2>3. CASE UNCHANGED vars
    BY <2>3 DEF vars, HInv
  <2> QED BY <2>1, <2>2, <2>3 DEF Next
<1> QED BY <1>1, InitSound, PTL DEF Spec

\* What the inductive invariant says of the properties the model is checked for.
LEMMA HeapImplies == HInv => TypeOK /\ ListOK /\ NoOverlap /\ FreeOnce /\ Coalesced
<1> SUFFICES ASSUME HInv PROVE TypeOK /\ ListOK /\ NoOverlap /\ FreeOnce /\ Coalesced
  OBVIOUS
<1>1. /\ Tiles(hdr, chunks) /\ DOMAIN owned \subseteq chunks /\ Serves(hdr, owned)
      /\ \A p, q \in chunks : ~FreePair(hdr, p, q)
      /\ result \in Addr \cup {Null}
  BY DEF HInv, Sound
<1>2. TypeOK
  BY <1>1 DEF TypeOK, Tiles, Serves
<1>3. ListOK
  BY <1>1 DEF ListOK, Tiles, LinkOK, End
<1>4. FreeOnce
  BY <1>1 DEF FreeOnce, Serves
<1>5. Coalesced
  BY <1>1 DEF Coalesced, FreePair
<1>6. NoOverlap
  <2> SUFFICES ASSUME NEW c \in DOMAIN owned
               PROVE  /\ c + Unit + owned[c] <= Length
                      /\ \A d \in chunks : d > c => c + Unit + owned[c] <= d
    BY DEF NoOverlap
  <2>1. /\ c \in chunks /\ c \in Addr /\ hdr[c] \in Header /\ chunks \subseteq Addr
        /\ LinkOK(hdr, chunks, c)
    BY <1>1 DEF Tiles
  <2>2. /\ c \in Nat /\ hdr[c].length \in Nat /\ owned[c] \in Nat /\ Unit \in Nat
        /\ owned[c] + Unit <= hdr[c].length /\ Length \in Nat
    BY <1>1, <2>1, HeaderFacts, AddrFacts, HeapAssumption DEF Serves
  <2>3. c + hdr[c].length <= Length
    BY <2>1 DEF LinkOK
  <2>4. \A d \in chunks : d \in Nat /\ (c < d => c + hdr[c].length <= d)
    BY <1>1, <2>1, AddrFacts DEF Tiles
  <2> QED BY <2>2, <2>3, <2>4
<1> QED BY <1>2, <1>3, <1>4, <1>5, <1>6

\* The heap has the types that kmalloc.c gives it, whatever is allocated and freed.
THEOREM HeapTypeCorrect == Spec => []TypeOK
BY HeapInvariant, HeapImplies, PTL

\* ksplit and kmerge keep the list of chunks a doubly linked tiling of the arena.
THEOREM ListOKHolds == Spec => []ListOK
BY HeapInvariant, HeapImplies, PTL

\* The memory kmalloc hands out overlaps no header and no other live memory.
THEOREM NoOverlapHolds == Spec => []NoOverlap
BY HeapInvariant, HeapImplies, PTL

\* kfree recognises exactly the pointers of live allocations.
THEOREM FreeOnceHolds == Spec => []FreeOnce
BY HeapInvariant, HeapImplies, PTL

\* The two calls of kmerge in kfree leave no free neighbours.
THEOREM CoalescedHolds == Spec => []Coalesced
BY HeapInvariant, HeapImplies, PTL

-----------------------------------------------------------------------------
(* Kmalloc implements Allocator *)

Extent == [c \in DOMAIN owned |-> hdr[c].length]

\* kmerge leaves the chunks in use alone.
LEMMA MergeKeeps ==
  ASSUME NEW h \in [Addr -> Header], NEW c, NEW a \in Addr, h[a].state = "USED"
  PROVE  kmerge(h, c)[a].state = "USED" /\ kmerge(h, c)[a].length = h[a].length
<1>1. CASE ~Merges(h, c)
  BY <1>1 DEF kmerge
<1>2. CASE Merges(h, c)
  <2>1. a # c
    BY <1>2 DEF Merges
  <2>2. h[a] \in Header
    OBVIOUS
  <2>3. kmerge(h, c)[a] = h[a] \/ kmerge(h, c)[a] = [h[a] EXCEPT !.prev = c]
    BY <1>2, <2>1 DEF kmerge
  <2> QED BY <2>2, <2>3 DEF Header
<1> QED BY <1>1, <1>2

\* A chunk in use is the extent of its allocation, one that is not is free.
LEMMA ExtentFacts ==
  ASSUME HInv
  PROVE  /\ DOMAIN Extent = DOMAIN owned
         /\ \A c \in DOMAIN owned : Extent[c] = hdr[c].length
         /\ \A c \in chunks \ DOMAIN owned : hdr[c].state = "FREE"
<1>1. \A c \in chunks : c \in Addr /\ hdr[c] \in Header /\ hdr[c].state # "JUNK"
  BY DEF HInv, Sound, Tiles, LinkOK
<1>2. \A c \in chunks : hdr[c].state \in {"FREE", "USED", "JUNK"}
  BY <1>1, HeaderFacts
<1>3. \A c \in Addr : hdr[c].state = "USED" => c \in DOMAIN owned
  BY DEF HInv, Sound, Serves
<1> QED BY <1>1, <1>2, <1>3 DEF Extent

\* The n bytes at a are clear: the abstract predicate in terms of the heap.
LEMMA ClearIff ==
  ASSUME NEW a, NEW n
  PROVE  A!Clear(a, n) <=>
           /\ a + n <= Length
           /\ \A c \in DOMAIN owned : a + n <= c \/ c + hdr[c].length <= a
BY DEF A!Clear

\* When no chunk fits there is no clear place: a clear place that starts in a
\* free chunk and leaves it would reach into the next one, which is not free.
LEMMA RefuseRight ==
  ASSUME HInv, NEW n \in 0..MaxRequest, Fits(Gross(n)) = {},
         NEW a \in Addr, A!Clear(a, Gross(n))
  PROVE  FALSE
<1> DEFINE m == Gross(n)
<1>1. /\ a + m <= Length
      /\ \A c \in DOMAIN owned : a + m <= c \/ c + hdr[c].length <= a
  BY ClearIff
<1>2. m \in Nat /\ m > 0 /\ a \in Nat
  BY GrossRoom, AddrFacts, HeapAssumption
<1>3. \A c \in chunks \ DOMAIN owned : hdr[c].state = "FREE"
  BY ExtentFacts
<1>4. \A c \in chunks : c \in Nat /\ hdr[c].length \in Nat
  <2> SUFFICES ASSUME NEW c \in chunks PROVE c \in Nat /\ hdr[c].length \in Nat
    OBVIOUS
  <2>1. c \in Addr /\ hdr[c] \in Header
    BY DEF HInv, Sound, Tiles
  <2> QED BY <2>1, HeaderFacts, AddrFacts
<1>5. \A c \in chunks : hdr[c].state = "FREE" => ~(hdr[c].length >= m)
  BY DEF Fits
<1> HIDE DEF m
<1>6. PICK d \in chunks : d <= a /\ a < d + hdr[d].length
  BY DEF HInv, Sound, Tiles
<1>7. d \notin DOMAIN owned
  BY <1>1, <1>2, <1>4, <1>6
<1>8. hdr[d].state = "FREE" /\ hdr[d].length < m
  BY <1>3, <1>4, <1>5, <1>6, <1>7, <1>2
<1> DEFINE e == d + hdr[d].length
<1>9. e < a + m /\ e < Length /\ e \in Nat
  BY <1>1, <1>2, <1>4, <1>6, <1>8, AddrFacts
<1>10. e \in chunks /\ hdr[d].next = e
  <2>1. LinkOK(hdr, chunks, d)
    BY <1>6 DEF HInv, Sound, Tiles
  <2> QED BY <2>1, <1>4, <1>6, <1>9, AddrFacts DEF LinkOK
<1> HIDE DEF e
<1>11. e \in DOMAIN owned
  <2>1. ~FreePair(hdr, d, e)
    BY <1>6, <1>10 DEF HInv, Sound
  <2> QED BY <2>1, <1>3, <1>8, <1>10 DEF FreePair
<1>12. a < e /\ e < a + m
  BY <1>6, <1>9 DEF e
<1> QED BY <1>1, <1>2, <1>4, <1>9, <1>10, <1>11, <1>12

\* kmalloc reserves or rightly refuses.
LEMMA MallocImplements ==
  ASSUME HInv, HInv', NEW n \in 0..MaxRequest, kmalloc(n)
  PROVE  A!Reserve(Gross(n)) \/ A!Refuse(Gross(n))
<1>1. CASE Fits(Gross(n)) = {}
  <2>1. UNCHANGED <<hdr, owned>> /\ result' = Null
    BY <1>1 DEF kmalloc
  <2>2. ~\E a \in 0..(Length - 1) : A!Clear(a, Gross(n))
    BY <1>1, RefuseRight DEF Addr
  <2> QED BY <2>1, <2>2 DEF A!Refuse, Null
<1>2. CASE Fits(Gross(n)) # {}
  <2>1. PICK h, c : Handed(h, c, n)
    BY <1>2, MallocHands
  <2> DEFINE size == hdr'[c].length
  <2>2. /\ c \in chunks' /\ c \in Addr /\ result' = c
        /\ owned' = Owning(owned, c, n) /\ DOMAIN owned \subseteq chunks'
        /\ c \notin DOMAIN owned
    <3>1. hdr[c].state = "FREE" /\ c \in Addr
      BY <2>1 DEF Handed
    <3>2. c \notin DOMAIN owned
      BY <3>1 DEF HInv, Sound, Serves
    <3> QED BY <2>1, <3>2 DEF Handed, SoundBut
  <2>3. TakeFacts(h, chunks', c, hdr')
    <3>1. Tiles(h, chunks') /\ hdr' = Take(h, c)
      BY <2>1 DEF Handed, SoundBut
    <3> QED BY <3>1, <2>2, TakeTiles
  <2>4. \A d \in DOMAIN owned : hdr'[d].length = hdr[d].length
    BY <2>1, <2>2, <2>3 DEF TakeFacts, Handed
  <2>5. size >= Gross(n) /\ size \in Nat /\ Gross(n) \in Nat /\ c \in Nat
    <3>1. hdr'[c] \in Header
      BY <2>2, <2>3 DEF TakeFacts, Tiles
    <3>2. size = h[c].length
      BY <2>3 DEF TakeFacts
    <3>3. size \in Nat /\ c \in Nat
      BY <3>1, <2>2, HeaderFacts, AddrFacts
    <3>4. Gross(n) \in Nat
      BY GrossRoom, HeapAssumption
    <3> QED BY <3>2, <3>3, <3>4, <2>1 DEF Handed
  <2>6. c + size <= Length
    BY <2>2, <2>3 DEF TakeFacts, Tiles, LinkOK
  <2>7. \A d \in DOMAIN owned : c + size <= d \/ d + hdr[d].length <= c
    <3> SUFFICES ASSUME NEW d \in DOMAIN owned
                 PROVE  c + size <= d \/ d + hdr[d].length <= c
      OBVIOUS
    <3>1. d \in chunks' /\ d # c /\ d \in Addr
      BY <2>2 DEF HInv, Sound, Tiles
    <3>2. d \in Nat /\ (c < d \/ d < c)
      BY <3>1, <2>5, AddrFacts
    <3>3. /\ c < d => c + size <= d
          /\ d < c => d + hdr'[d].length <= c
      BY <3>1, <2>2, <2>3 DEF TakeFacts, Tiles
    <3> QED BY <3>2, <3>3, <2>4
  <2>8. A!Clear(c, size)
    BY <2>6, <2>7, ClearIff
  <2>9. [d \in DOMAIN owned' |-> hdr'[d].length] =
          [d \in DOMAIN owned \cup {c} |-> IF d = c THEN size ELSE hdr[d].length]
    <3>1. DOMAIN owned' = DOMAIN owned \cup {c}
      BY <2>2 DEF Owning
    <3> QED BY <3>1, <2>4
  <2>10. size \in Gross(n)..Length /\ c \in 0..(Length - 1)
    BY <2>2, <2>5, <2>6, AddrFacts DEF Addr
  <2> HIDE DEF size
  <2> QED BY <2>2, <2>8, <2>9, <2>10 DEF A!Reserve
<1> QED BY <1>1, <1>2

\* kfree releases.
LEMMA FreeImplements ==
  ASSUME HInv, NEW c \in Addr, kfree(c)
  PROVE  c \in DOMAIN owned /\ A!Release(c)
<1> DEFINE h1 == [hdr EXCEPT ![c].state = "FREE"]
           h2 == kmerge(h1, c)
<1>1. c \in DOMAIN owned
  BY DEF HInv, Sound, Serves, kfree
<1>2. SoundBut(h1, chunks, Releasing(owned, c), c) /\ h1[c].state = "FREE" /\ c \in chunks
  BY <1>1, Unmark DEF HInv
<1>3. /\ hdr' = kmerge(h2, h2[c].prev)
      /\ owned' = Releasing(owned, c) /\ result' = result
  BY DEF kfree, Releasing
<1>4. h1 \in [Addr -> Header] /\ \A a \in Addr \ {c} : h1[a] = hdr[a]
  BY <1>2 DEF SoundBut, Tiles
<1> HIDE DEF h1
<1>5. h2 \in [Addr -> Header]
  <2>1. SoundButPrev(h2, chunks \ Merged(h1, c), Releasing(owned, c), c)
    BY <1>2, MergeNext
  <2> HIDE DEF h2
  <2> QED BY <2>1 DEF SoundButPrev, Tiles
<1>6. DOMAIN owned' = DOMAIN owned \ {c}
  BY <1>3 DEF Releasing
<1>7. ASSUME NEW d \in DOMAIN owned' PROVE hdr'[d].length = hdr[d].length
  <2>1. d \in Addr /\ h1[d] = hdr[d] /\ h1[d].state = "USED"
    BY <1>4, <1>6 DEF HInv, Sound, Serves, Tiles
  <2>2. h2[d].state = "USED" /\ h2[d].length = h1[d].length
    BY <2>1, <1>4, MergeKeeps
  <2> HIDE DEF h2
  <2>3. kmerge(h2, h2[c].prev)[d].length = h2[d].length
    BY <2>1, <2>2, <1>5, MergeKeeps
  <2> QED BY <2>1, <2>2, <2>3, <1>3
<1>8. [d \in DOMAIN owned' |-> hdr'[d].length] =
        [d \in DOMAIN owned \ {c} |-> hdr[d].length]
  BY <1>6, <1>7
<1> QED BY <1>1, <1>3, <1>8 DEF A!Release

\* The heap implements the allocator: every behaviour of kmalloc.c is one of the
\* interface, in which memory is never handed out twice and a request is refused
\* only when there is no room for it.
THEOREM IsAllocatorHolds == Spec => IsAllocator
<1>1. Init => A!AInit
  BY DEF Init, A!AInit, Null
<1>2. HInv /\ HInv' /\ [Next]_vars => [A!ANext]_(A!avars)
  <2> SUFFICES ASSUME HInv, HInv', [Next]_vars PROVE [A!ANext]_(A!avars)
    OBVIOUS
  <2>1. ASSUME NEW n \in 0..MaxRequest, kmalloc(n) PROVE A!ANext
    BY <2>1, MallocImplements DEF A!ANext
  <2>2. ASSUME NEW c \in Addr, kfree(c) PROVE A!ANext
    BY <2>2, FreeImplements DEF A!ANext
  <2>3. CASE UNCHANGED vars
    BY <2>3 DEF vars, A!avars
  <2> QED BY <2>1, <2>2, <2>3 DEF Next
<1> QED BY <1>1, <1>2, HeapInvariant, PTL DEF Spec, IsAllocator, A!ASpec

-----------------------------------------------------------------------------
(* The invariant *)

\* A process is in one list at most, and the running one in none.
PlaceInv ==
  /\ IsInjective(queue) /\ IsInjective(ready)
  /\ Range(queue) \cap Range(ready) = {}
  /\ current \notin Range(queue) \cup Range(ready)

\* Requests that fit into the buffer: a reader only sleeps beside bytes while the writer that
\* brings them is still at it, and this writer will finish, since the buffer was empty when it
\* began; the same for a writer that sleeps beside free slots.  So nobody falls asleep while
\* the other side does.
Fitting == MaxTransfer < Size /\ ~silent
Writing == /\ current # Idle /\ pc[current] = "write" /\ blocking[current]
           /\ Len(Content) + left[current] < Size
Reading == /\ current # Idle /\ pc[current] = "read" /\ blocking[current]
           /\ left[current] <= Len(Content)
CalmInv ==
  Fitting =>
    /\ \A p \in Proc : Asleep(p, "read") => Empty \/ Writing
    /\ \A p \in Proc : Asleep(p, "write") => Full \/ Reading
    /\ ~\E p, q \in Proc : Asleep(p, "read") /\ Asleep(q, "write")

\* What waits in the buffer was written.
Written == Content \in Seq(Byte)

PInv == PipeTypeOK /\ Written /\ PlaceInv /\ InOrder /\ CalmInv

-----------------------------------------------------------------------------
(* Lists and bytes *)

\* The values of the constants.
LEMMA PipeFacts ==
  /\ Size \in Nat \ {0, 1} /\ MaxTransfer \in Nat /\ MaxBytes \in Nat
  /\ Byte \subseteq Nat /\ Idle \notin Proc /\ IsFiniteSet(Proc)
BY PipeAssumption DEF Byte, Idle

\* The end of process_switch takes the next process off the list it is given.
LEMMA DispatchFacts ==
  ASSUME NEW L \in Seq(Proc), IsInjective(L), Dispatch(L)
  PROVE  /\ current' \in Proc \cup {Idle} /\ ready' \in Seq(Proc)
         /\ IsInjective(ready') /\ current' \notin Range(ready')
         /\ Range(L) = Range(ready') \cup ({current'} \ {Idle})
<1>1. CASE L = << >>
  <2>1. Range(L) = {}
    BY <1>1 DEF Range
  <2> QED BY <1>1, <2>1, PipeFacts DEF Dispatch
<1>2. CASE L # << >>
  <2>1. /\ Tail(L) \in Seq(Proc) /\ Head(L) \in Range(L) /\ IsInjective(Tail(L))
        /\ Range(Tail(L)) = Range(L) \ {Head(L)}
    BY <1>2, TailNodes
  <2>2. Range(L) \subseteq Proc
    BY DEF Range
  <2> QED BY <1>2, <2>1, <2>2, PipeFacts DEF Dispatch
<1> QED BY <1>1, <1>2

\* What the buffer holds, as long as nothing was overwritten.
LEMMA ContentFacts ==
  ASSUME PipeTypeOK
  PROVE  /\ Content \in Seq(Byte \cup {0}) /\ Len(Content) \in 0..(Size - 1)
         /\ Content = << >> <=> Empty
         /\ Len(Content) = 0 <=> Empty
         /\ Len(Content) = Size - 1 <=> Full
<1> DEFINE k == (write_pos - read_pos) % Size
           n == (write_pos + 1) % Size
<1>1. Size \in Nat \ {0, 1} /\ read_pos \in 0..(Size - 1) /\ write_pos \in 0..(Size - 1)
  BY PipeFacts DEF PipeTypeOK, Slot
<1>2. RingFacts(Size, Byte \cup {0}, buffer, read_pos, write_pos)
  BY <1>1, RingSeq DEF PipeTypeOK, Slot
<1>3. Content = Ring(Size, buffer, read_pos, write_pos)
  BY DEF Content, Ring
<1>4. /\ Content \in Seq(Byte \cup {0}) /\ Len(Content) = k /\ k \in 0..(Size - 1)
      /\ Content = << >> <=> Empty
  BY <1>2, <1>3 DEF RingFacts, Empty
<1>5. k = IF write_pos >= read_pos THEN write_pos - read_pos ELSE write_pos - read_pos + Size
  BY <1>1, RingLength
<1>6. n = IF write_pos + 1 = Size THEN 0 ELSE write_pos + 1
  BY <1>1, RingSucc
<1>7. Full <=> n = read_pos
  BY DEF Full, Succ
<1> HIDE DEF k, n
<1> QED BY <1>1, <1>4, <1>5, <1>6, <1>7

\* Put appends its byte to the content unless the buffer is full, Get takes the oldest.
LEMMA ContentPut ==
  ASSUME PipeTypeOK, Put, current \in Proc
  PROVE  /\ write_pos' \in Slot /\ Len(sent) + 1 \in Byte
         /\ sent' = Append(sent, Len(sent) + 1)
         /\ Content' = IF Full THEN << >> ELSE Append(Content, Len(sent) + 1)
<1> DEFINE n == (write_pos + 1) % Size
           v == Len(sent) + 1
           D == Byte \cup {0}
<1>1. v \in D /\ v \in Byte /\ sent' = Append(sent, v) /\ buffer' = [buffer EXCEPT ![write_pos] = v]
  BY PipeFacts DEF PipeTypeOK, Byte, Put
<1>2. /\ buffer \in [0..(Size - 1) -> D] /\ Size \in Nat \ {0, 1}
      /\ read_pos \in 0..(Size - 1) /\ write_pos \in 0..(Size - 1)
  BY PipeFacts DEF PipeTypeOK, Slot
<1>3. n \in Slot
  BY <1>2, RingSucc DEF Slot
<1>4. write_pos' = n /\ n = (write_pos + 1) % Size /\ read_pos' = read_pos
  BY DEF Put, Succ
<1>5. ASSUME Full
      PROVE  Content' = << >>
  <2>1. n = read_pos
    BY <1>5 DEF Full, Succ
  <2>2. buffer' \in [0..(Size - 1) -> D] /\ n \in 0..(Size - 1)
    BY <1>1, <1>2, <1>3 DEF Slot
  <2> HIDE DEF n, D
  <2>3. RingFacts(Size, D, buffer', read_pos, n)
    BY <1>2, <2>2, RingSeq
  <2>4. Content' = Ring(Size, buffer', read_pos', write_pos')
    BY DEF Content, Ring
  <2> QED BY <1>4, <2>1, <2>3, <2>4 DEF RingFacts
<1>6. ASSUME ~Full
      PROVE  Content' = Append(Content, v)
  <2>1. (write_pos + 1) % Size # read_pos
    BY <1>6 DEF Full, Succ
  <2>2. PutFacts(Size, buffer, read_pos, write_pos, v)
    <3> HIDE DEF v, D
    <3> QED BY <1>1, <1>2, <2>1, RingPut
  <2>3. Content = Ring(Size, buffer, read_pos, write_pos)
    BY DEF Content, Ring
  <2>4. Content' = Ring(Size, buffer', read_pos', write_pos')
    BY DEF Content, Ring
  <2> HIDE DEF v, n
  <2> QED BY <1>1, <1>4, <2>2, <2>3, <2>4 DEF PutFacts
<1> HIDE DEF n
<1> QED BY <1>1, <1>3, <1>4, <1>5, <1>6

\* Reading a byte takes the first of the content.
LEMMA ContentGet ==
  ASSUME PipeTypeOK, Get, ~Empty
  PROVE  /\ read_pos' \in Slot /\ Content # << >> /\ Head(Content) = buffer[read_pos]
         /\ Content' = Tail(Content)
<1> DEFINE n == (read_pos + 1) % Size
<1>1. /\ buffer \in [0..(Size - 1) -> Byte \cup {0}] /\ Size \in Nat \ {0, 1}
      /\ read_pos \in 0..(Size - 1) /\ write_pos \in 0..(Size - 1)
  BY PipeFacts DEF PipeTypeOK, Slot
<1>2. /\ Ring(Size, buffer, read_pos, write_pos) # << >>
      /\ Head(Ring(Size, buffer, read_pos, write_pos)) = buffer[read_pos]
      /\ Ring(Size, buffer, (read_pos + 1) % Size, write_pos)
           = Tail(Ring(Size, buffer, read_pos, write_pos))
  BY <1>1, RingGet, ZenonT(40) DEF Empty
<1>3. n \in Slot
  BY <1>1, RingSucc DEF Slot
<1>4. read_pos' = n /\ n = (read_pos + 1) % Size /\ UNCHANGED <<buffer, write_pos>>
  BY DEF Get, Succ
<1>5. Content = Ring(Size, buffer, read_pos, write_pos)
  BY DEF Content, Ring
<1>6. Content' = Ring(Size, buffer', read_pos', write_pos')
  BY DEF Content, Ring
<1> HIDE DEF n
<1> QED BY <1>2, <1>3, <1>4, <1>5, <1>6

\* What does not touch the buffer leaves its content.
LEMMA ContentSame ==
  ASSUME UNCHANGED <<buffer, read_pos, write_pos>>
  PROVE  Content' = Content /\ Empty' = Empty /\ Full' = Full
BY DEF Content, Empty, Full, Succ

-----------------------------------------------------------------------------
(* The kinds of steps *)

bvars == <<buffer, read_pos, write_pos, sent, got, overrun>>

\* One byte into the buffer, or out of it.
Puts ==
  /\ current \in Proc /\ pc[current] = "write" /\ left[current] > 0 /\ Put
  /\ UNCHANGED blocking
  /\ \/ blocking[current] /\ ~Full /\ UNCHANGED silent
     \/ ~blocking[current] /\ ~FullNonblock /\ silent' = TRUE
Gets ==
  /\ current \in Proc /\ pc[current] = "read" /\ left[current] > 0 /\ ~Empty /\ Get
  /\ UNCHANGED blocking
  /\ \/ blocking[current] /\ UNCHANGED silent
     \/ silent' = TRUE

\* A blocking call waits, or ends with a wakeup.
Sleeps ==
  /\ current \in Proc /\ blocking[current] /\ left[current] > 0 /\ Sleep
  /\ \/ pc[current] = "write" /\ Full
     \/ pc[current] = "read" /\ Empty
  /\ UNCHANGED <<bvars, flushed, blocking, silent>>
Wakes ==
  /\ current \in Proc /\ WakeupAll /\ Return /\ flushed' = FALSE
  /\ UNCHANGED <<bvars, current, blocking, silent>>

\* A call begins, is flushed, or cannot go on without waiting.
Rests ==
  /\ current \in Proc
  /\ \/ pc[current] = "user" \/ ~blocking[current]
     \/ pc[current] = "write" /\ Full /\ left[current] > 0
     \/ pc[current] = "read" /\ Empty /\ left[current] > 0
  /\ \E l \in {"user", "write", "read"} : pc' = [pc EXCEPT ![current] = l]
  /\ left' \in [Proc -> 0..MaxTransfer] /\ blocking' \in [Proc -> BOOLEAN]
  /\ flushed' \in BOOLEAN
  /\ UNCHANGED <<bvars, queue, ready, current, silent>>

\* The kinds of steps there are.
LEMMA Steps ==
  ASSUME PipeTypeOK, [PipeNext]_pipeVars
  PROVE  Schedule \/ Puts \/ Gets \/ Sleeps \/ Wakes \/ Rests \/ UNCHANGED pipeVars
<1> USE PipeFacts
<1>0. ASSUME current # Idle
      PROVE  /\ current \in Proc /\ left[current] \in Nat
             /\ left[current] > 0 \/ left[current] = 0
  BY <1>0 DEF PipeTypeOK
<1>1. CASE pipe_flush
  <2>1. pc' = [pc EXCEPT ![current] = "user"]
    BY <1>1 DEF pipe_flush, PipeTypeOK
  <2> QED BY <1>0, <1>1, <2>1 DEF pipe_flush, Rests, bvars, PipeTypeOK
<1>2. ASSUME NEW kind \in {"write", "read"}, NEW n \in 0..MaxTransfer, NEW b \in BOOLEAN,
             Call(kind, n, b)
      PROVE  Rests
  <2>1. /\ left' \in [Proc -> 0..MaxTransfer] /\ blocking' \in [Proc -> BOOLEAN]
        /\ pc' = [pc EXCEPT ![current] = kind]
    BY <1>2 DEF Call, PipeTypeOK
  <2> QED BY <1>0, <1>2, <2>1 DEF Call, Rests, bvars, PipeTypeOK
<1>3. CASE WriteBlocking
  BY <1>0, <1>3 DEF WriteBlocking, InCall, Puts, Sleeps, Wakes, Rests, bvars, rvars, Return,
                    PipeTypeOK
<1>4. CASE WriteNonblock
  BY <1>0, <1>4 DEF WriteNonblock, InCall, Puts, Rests, bvars, rvars, Return, PipeTypeOK
<1>5. CASE ReadBlocking
  BY <1>0, <1>5 DEF ReadBlocking, InCall, Gets, Sleeps, Wakes, Rests, bvars, rvars, Return,
                    PipeTypeOK
<1>6. CASE ReadNonblock
  BY <1>0, <1>6 DEF ReadNonblock, InCall, Gets, Rests, bvars, rvars, Return, PipeTypeOK
<1> QED BY <1>1, <1>2, <1>3, <1>4, <1>5, <1>6 DEF PipeNext

\* What a switch, a sleep and a wakeup do to the lists.
LEMMA SwitchLists ==
  ASSUME PipeTypeOK, PlaceInv, Schedule
  PROVE  /\ current' \in Proc \cup {Idle} /\ ready' \in Seq(Proc) /\ PlaceInv'
         /\ current # Idle => pc[current] = "user"
<1>0. Range(queue) \subseteq Proc
  BY DEF PipeTypeOK, Range
<1>1. /\ ready \in Seq(Proc) /\ IsInjective(ready) /\ IsInjective(queue)
      /\ Range(queue) \cap Range(ready) = {} /\ queue' = queue
      /\ current \notin Range(queue) \cup Range(ready)
      /\ Range(queue) \subseteq Proc
  BY <1>0 DEF PipeTypeOK, PlaceInv, Schedule
<1>2. CASE current = Idle /\ Dispatch(ready)
  BY <1>1, <1>2, DispatchFacts, PipeFacts DEF PlaceInv
<1>3. CASE current # Idle /\ pc[current] = "user" /\ Dispatch(Append(ready, current))
  <2> DEFINE L == Append(ready, current)
  <2>1. L \in Seq(Proc) /\ IsInjective(L) /\ Range(L) = Range(ready) \cup {current}
    BY <1>1, <1>3, AppendNodes DEF PipeTypeOK
  <2>2. Dispatch(L)
    BY <1>3
  <2> HIDE DEF L
  <2> QED BY <1>1, <1>3, <2>1, <2>2, DispatchFacts, PipeFacts DEF PlaceInv
<1> QED BY <1>2, <1>3 DEF Schedule

\* A process that falls asleep is in the queue of the pipe, and another one runs.
LEMMA SleepLists ==
  ASSUME PipeTypeOK, PlaceInv, Sleeps
  PROVE  /\ current' \in Proc \cup {Idle} /\ ready' \in Seq(Proc) /\ queue' \in Seq(Proc)
         /\ PlaceInv' /\ Range(queue') = Range(queue) \cup {current}
<1>0. Range(queue) \subseteq Proc
  BY DEF PipeTypeOK, Range
<1>1. /\ ready \in Seq(Proc) /\ IsInjective(ready)
      /\ queue \in Seq(Proc) /\ IsInjective(queue)
      /\ Range(queue) \cap Range(ready) = {}
      /\ current \in Proc /\ current \notin Range(queue) \cup Range(ready)
      /\ queue' = Append(queue, current) /\ Dispatch(ready)
      /\ Range(queue) \subseteq Proc
  BY <1>0 DEF PipeTypeOK, PlaceInv, Sleeps, Sleep
<1>2. /\ queue' \in Seq(Proc) /\ IsInjective(queue')
      /\ Range(queue') = Range(queue) \cup {current}
  BY <1>1, AppendNodes
<1> QED BY <1>1, <1>2, DispatchFacts, PipeFacts DEF PlaceInv

\* All sleepers are woken at once.
LEMMA WakeLists ==
  ASSUME PipeTypeOK, PlaceInv, Wakes
  PROVE  ready' \in Seq(Proc) /\ queue' = << >> /\ Range(queue') = {} /\ PlaceInv'
<1>1. /\ ready \in Seq(Proc) /\ IsInjective(ready)
      /\ queue \in Seq(Proc) /\ IsInjective(queue)
      /\ Range(ready) \cap Range(queue) = {}
      /\ current \notin Range(queue) \cup Range(ready)
      /\ ready' = ready \o queue /\ queue' = << >> /\ current' = current
  BY DEF PipeTypeOK, PlaceInv, Wakes, WakeupAll
<1>2. /\ ready' \in Seq(Proc) /\ IsInjective(ready')
      /\ Range(ready') = Range(ready) \cup Range(queue)
  BY <1>1, ConcatNodes
<1>3. Range(queue') = {} /\ IsInjective(queue')
  BY <1>1 DEF Range, IsInjective
<1> QED BY <1>1, <1>2, <1>3 DEF PlaceInv

-----------------------------------------------------------------------------
(* Each part of the invariant is kept *)

\* Every step keeps the types.
LEMMA TypeStep ==
  ASSUME PipeTypeOK, Written, PlaceInv, [PipeNext]_pipeVars
  PROVE  PipeTypeOK'
<1> USE PipeFacts
<1>1. CASE Schedule
  <2>1. current' \in Proc \cup {Idle} /\ ready' \in Seq(Proc)
    BY <1>1, SwitchLists
  <2> QED BY <1>1, <2>1 DEF Schedule, PipeTypeOK
<1>2. CASE Puts
  <2>1. write_pos' \in Slot /\ Len(sent) + 1 \in Byte /\ sent' = Append(sent, Len(sent) + 1)
    BY <1>2, ContentPut DEF Puts
  <2>2. sent' \in Seq(Byte) /\ buffer' \in [Slot -> Byte \cup {0}]
    BY <1>2, <2>1 DEF Puts, Put, PipeTypeOK
  <2>3. left[current] - 1 \in 0..MaxTransfer
    BY <1>2 DEF Puts, PipeTypeOK
  <2>4. left' \in [Proc -> 0..MaxTransfer] /\ silent' \in BOOLEAN
    BY <1>2, <2>3 DEF Puts, Put, PipeTypeOK
  <2>5. overrun' \in BOOLEAN
    BY <1>2, Zenon DEF Puts, Put, PipeTypeOK, Full
  <2> QED BY <1>2, <2>1, <2>2, <2>4, <2>5 DEF Puts, Put, PipeTypeOK, rvars
<1>3. CASE Gets
  <2>1. read_pos' \in Slot /\ Content # << >> /\ Head(Content) = buffer[read_pos]
    BY <1>3, ContentGet DEF Gets
  <2>2. buffer[read_pos] \in Byte /\ left[current] - 1 \in 0..MaxTransfer
    BY <1>3, <2>1 DEF Written, Gets, PipeTypeOK
  <2>3. left' \in [Proc -> 0..MaxTransfer] /\ got' \in Seq(Byte)
    BY <1>3, <2>2 DEF Gets, Get, PipeTypeOK
  <2>4. silent' \in BOOLEAN
    BY <1>3 DEF Gets, PipeTypeOK
  <2> QED BY <1>3, <2>1, <2>3, <2>4 DEF Gets, Get, PipeTypeOK, rvars
<1>4. CASE Sleeps
  <2>1. current' \in Proc \cup {Idle} /\ ready' \in Seq(Proc) /\ queue' \in Seq(Proc)
    BY <1>4, SleepLists
  <2> QED BY <1>4, <2>1 DEF Sleeps, Sleep, PipeTypeOK, bvars
<1>5. CASE Wakes
  <2>1. ready' \in Seq(Proc) /\ queue' \in Seq(Proc)
    BY <1>5, WakeLists
  <2> QED BY <1>5, <2>1 DEF Wakes, Return, PipeTypeOK, bvars
<1>6. CASE Rests
  BY <1>6 DEF Rests, PipeTypeOK, bvars
<1>7. CASE UNCHANGED pipeVars
  BY <1>7 DEF pipeVars, PipeTypeOK
<1> QED BY <1>1, <1>2, <1>3, <1>4, <1>5, <1>6, <1>7, Steps


\* Every step keeps the bytes numbered in the order they were written.
LEMMA WrittenStep ==
  ASSUME PipeTypeOK, Written, [PipeNext]_pipeVars
  PROVE  Written'
<1>1. CASE Puts
  <2>1. /\ Len(sent) + 1 \in Byte
        /\ Content' = IF Full THEN << >> ELSE Append(Content, Len(sent) + 1)
    BY <1>1, ContentPut DEF Puts
  <2> QED BY <2>1 DEF Written
<1>2. CASE Gets
  <2>1. Content # << >> /\ Content' = Tail(Content)
    BY <1>2, ContentGet DEF Gets
  <2> QED BY <2>1 DEF Written
<1>3. CASE Schedule \/ Sleeps \/ Wakes \/ Rests \/ UNCHANGED pipeVars
  <2>1. Content' = Content
    BY <1>3, ContentSame DEF Schedule, Sleeps, Wakes, Rests, pipeVars, bvars
  <2> QED BY <2>1 DEF Written
<1> QED BY <1>1, <1>2, <1>3, Steps

\* Every step keeps a process in one list at most.
LEMMA PlaceStep ==
  ASSUME PipeTypeOK, PlaceInv, [PipeNext]_pipeVars
  PROVE  PlaceInv'
<1>1. CASE Schedule \/ Sleeps \/ Wakes
  BY <1>1, SwitchLists, SleepLists, WakeLists
<1>2. CASE Puts \/ Gets \/ Rests \/ UNCHANGED pipeVars
  BY <1>2 DEF PlaceInv, Puts, Put, Gets, Get, Rests, pipeVars, rvars
<1> QED BY <1>1, <1>2, Steps

\* Moving the first byte of the content to the end of what was read changes nothing in all.
LEMMA MoveFirst ==
  ASSUME NEW S, NEW s \in Seq(S), NEW t \in Seq(S), t # << >>
  PROVE  Append(s, Head(t)) \o Tail(t) = s \o t
OBVIOUS

\* Concatenation with a longer sequence.
LEMMA AddLast ==
  ASSUME NEW S, NEW s \in Seq(S), NEW t \in Seq(S), NEW x \in S
  PROVE  s \o Append(t, x) = Append(s \o t, x)
OBVIOUS

\* Every step keeps the bytes in order, until the buffer is overrun.
LEMMA OrderStep ==
  ASSUME PipeTypeOK, Written, InOrder, [PipeNext]_pipeVars
  PROVE  InOrder'
<1>1. CASE Puts
  <2>1. /\ Len(sent) + 1 \in Byte /\ sent' = Append(sent, Len(sent) + 1)
        /\ Content' = IF Full THEN << >> ELSE Append(Content, Len(sent) + 1)
    BY <1>1, ContentPut DEF Puts
  <2>2. got' = got /\ (~overrun' => ~overrun /\ ~Full)
    BY <1>1, Zenon DEF Puts, Put
  <2>3. got \in Seq(Byte) /\ Content \in Seq(Byte)
    BY DEF PipeTypeOK, Written
  <2> DEFINE v == Len(sent) + 1
  <2> HIDE DEF v
  <2>4. got \o Append(Content, v) = Append(got \o Content, v)
    BY <2>1, <2>3, AddLast DEF v
  <2> QED BY <2>1, <2>2, <2>4 DEF InOrder, v
<1>2. CASE Gets
  <2>1. Content # << >> /\ Head(Content) = buffer[read_pos] /\ Content' = Tail(Content)
    BY <1>2, ContentGet DEF Gets
  <2>2. got' = Append(got, Head(Content)) /\ sent' = sent /\ overrun' = overrun
    BY <1>2, <2>1 DEF Gets, Get
  <2>3. got \in Seq(Byte) /\ Content \in Seq(Byte)
    BY DEF PipeTypeOK, Written
  <2> QED BY <2>1, <2>2, <2>3, MoveFirst DEF InOrder
<1>3. CASE Schedule \/ Sleeps \/ Wakes \/ Rests \/ UNCHANGED pipeVars
  <2>1. Content' = Content /\ UNCHANGED <<got, sent, overrun>>
    BY <1>3, ContentSame DEF Schedule, Sleeps, Wakes, Rests, pipeVars, bvars
  <2> QED BY <2>1 DEF InOrder
<1> QED BY <1>1, <1>2, <1>3, Steps


\* Every step leaves the sleepers of requests that fit with a reason to sleep.
LEMMA CalmStep ==
  ASSUME PipeTypeOK, Written, PlaceInv, CalmInv, [PipeNext]_pipeVars
  PROVE  CalmInv'
<1> USE PipeFacts
<1> DEFINE n == Len(Content)
<1>0. /\ n \in 0..(Size - 1) /\ (n = 0 <=> Empty) /\ (n = Size - 1 <=> Full)
      /\ Content \in Seq(Byte)
  BY ContentFacts DEF Written
<1>1. CASE Puts
  <2> SUFFICES ASSUME Fitting'
               PROVE  /\ \A p \in Proc : Asleep(p, "read") => Writing'
                      /\ \A p \in Proc : ~Asleep(p, "write")
    BY <1>1 DEF CalmInv, Asleep, Puts, Put, rvars
  <2>1. Fitting /\ blocking[current] /\ ~Full /\ ~Reading
    BY <1>1 DEF Puts, Fitting, Reading
  <2>2. /\ Content' = Append(Content, Len(sent) + 1) /\ Len(Content') = n + 1
        /\ left'[current] = left[current] - 1 /\ left[current] \in 1..MaxTransfer
    <3>1. Content' = Append(Content, Len(sent) + 1) /\ Len(sent) + 1 \in Byte
      BY <1>1, <2>1, ContentPut DEF Puts
    <3>2. Len(Content') = n + 1
      BY <1>0, <3>1
    <3>3. left \in [Proc -> 0..MaxTransfer] /\ current \in Proc /\ left[current] > 0
      BY <1>1 DEF Puts, PipeTypeOK
    <3>4. left' = [left EXCEPT ![current] = @ - 1]
      BY <1>1 DEF Puts, Put
    <3> QED BY <3>1, <3>2, <3>3, <3>4
  <2>3. \A p \in Proc : ~Asleep(p, "write")
    BY <2>1 DEF CalmInv
  <2>4. Empty \/ Writing => Writing'
    BY <1>0, <1>1, <2>1, <2>2 DEF Puts, Put, rvars, Writing, Fitting
  <2> QED BY <2>1, <2>3, <2>4 DEF CalmInv
<1>2. CASE Gets
  <2> SUFFICES ASSUME Fitting'
               PROVE  /\ \A p \in Proc : ~Asleep(p, "read")
                      /\ \A p \in Proc : Asleep(p, "write") => Reading'
    BY <1>2 DEF CalmInv, Asleep, Gets, Get, rvars
  <2>1. Fitting /\ blocking[current] /\ ~Empty /\ ~Writing
    BY <1>2 DEF Gets, Fitting, Writing
  <2>2. /\ Content # << >> /\ Content' = Tail(Content) /\ Len(Content') = n - 1
        /\ left'[current] = left[current] - 1 /\ left[current] \in 1..MaxTransfer
    <3>1. Content # << >> /\ Content' = Tail(Content)
      BY <1>2, <2>1, ContentGet DEF Gets
    <3>2. Len(Content') = n - 1
      BY <1>0, <3>1
    <3>3. left \in [Proc -> 0..MaxTransfer] /\ current \in Proc /\ left[current] > 0
      BY <1>2 DEF Gets, PipeTypeOK
    <3>4. left' = [left EXCEPT ![current] = @ - 1]
      BY <1>2 DEF Gets, Get
    <3> QED BY <3>1, <3>2, <3>3, <3>4
  <2>3. \A p \in Proc : ~Asleep(p, "read")
    BY <2>1 DEF CalmInv
  <2>4. Full \/ Reading => Reading'
    BY <1>0, <1>2, <2>1, <2>2 DEF Gets, Get, rvars, Reading, Fitting
  <2> QED BY <2>1, <2>3, <2>4 DEF CalmInv
<1>3. CASE Sleeps
  <2> SUFFICES ASSUME Fitting'
               PROVE  /\ \A p \in Proc : Asleep(p, "read")' => Empty
                      /\ \A p \in Proc : Asleep(p, "write")' => Full
    BY <1>0, <1>3, ContentSame DEF CalmInv, Sleeps, bvars
  <2>1. Range(queue') = Range(queue) \cup {current} /\ pc' = pc /\ Fitting
    BY <1>3, SleepLists DEF Sleeps, Sleep, Fitting
  <2>2. CASE pc[current] = "write" /\ Full
    <3>1. ~Writing /\ ~Reading /\ ~Empty
      BY <1>0, <1>3, <2>2 DEF Writing, Reading, Sleeps, PipeTypeOK
    <3> QED BY <2>1, <2>2, <3>1 DEF CalmInv, Asleep
  <2>3. CASE pc[current] = "read" /\ Empty
    <3>1. ~Writing /\ ~Reading /\ ~Full
      BY <1>0, <1>3, <2>3 DEF Writing, Reading, Sleeps, PipeTypeOK
    <3> QED BY <2>1, <2>3, <3>1 DEF CalmInv, Asleep
  <2> QED BY <1>3, <2>2, <2>3 DEF Sleeps
<1>4. CASE Wakes
  BY <1>4, WakeLists DEF CalmInv, Asleep
<1>5. CASE Schedule \/ Rests
  <2>1. ~Writing /\ ~Reading
    BY <1>0, <1>5, SwitchLists DEF Writing, Reading, Rests, PipeTypeOK
  <2>2. /\ Empty' = Empty /\ Full' = Full /\ Fitting' = Fitting /\ queue' = queue
        /\ \A p \in Range(queue) : p \in Proc => pc'[p] = pc[p]
    BY <1>5, ContentSame DEF Schedule, Rests, bvars, Fitting, PlaceInv, PipeTypeOK
  <2> QED BY <2>1, <2>2 DEF CalmInv, Asleep
<1>6. CASE UNCHANGED pipeVars
  BY <1>6, ContentSame DEF pipeVars, CalmInv, Asleep, Writing, Reading, Fitting
<1> QED BY <1>1, <1>2, <1>3, <1>4, <1>5, <1>6, Steps


-----------------------------------------------------------------------------
(* The theorems *)

\* The invariant holds of the empty pipe.
LEMMA PInit ==
  ASSUME PipeInit
  PROVE  PInv
<1> USE PipeFacts DEF PipeInit
<1>1. /\ ready \in [1..Cardinality(Proc) -> Proc]
      /\ \A i, j \in 1..Cardinality(Proc) : i # j => ready[i] # ready[j]
      /\ Cardinality(Proc) \in Nat
  BY FS_CardinalityType DEF SetToSeqs
<1>2. ready \in Seq(Proc) /\ IsInjective(ready)
  BY <1>1 DEF IsInjective
<1>3. Range(queue) = {} /\ IsInjective(queue) /\ 0 \in Slot /\ queue \in Seq(Proc)
  BY DEF Range, IsInjective, Slot
<1>4. PipeTypeOK
  <2>1. sent \in Seq(Byte) /\ got \in Seq(Byte)
    OBVIOUS
  <2>2. /\ buffer \in [Slot -> Byte \cup {0}]
        /\ pc \in [Proc -> {"user", "write", "read"}]
        /\ left \in [Proc -> 0..MaxTransfer] /\ blocking \in [Proc -> BOOLEAN]
    OBVIOUS
  <2> QED BY <1>2, <1>3, <2>1, <2>2, Zenon DEF PipeTypeOK
<1>5. Content = << >>
  BY <1>4, ContentFacts DEF Empty
<1>6. Range(ready) \subseteq Proc
  BY <1>2 DEF Range
<1> QED BY <1>2, <1>3, <1>4, <1>5, <1>6 DEF PInv, Written, PlaceInv, InOrder, CalmInv, Asleep

\* The invariant is inductive.
LEMMA PStep ==
  ASSUME PInv, [PipeNext]_pipeVars
  PROVE  PInv'
BY TypeStep, WrittenStep, PlaceStep, OrderStep, CalmStep DEF PInv

\* The inductive invariant of the pipe: the types, where the processes are, how far the call that
\* copies has come, and, for requests that fit, why the others sleep (kernel/pipe.c).
THEOREM PipeInv == PipeSpec => []PInv
<1>1. PipeInit => PInv
  BY PInit
<1>2. PInv /\ [PipeNext]_pipeVars => PInv'
  BY PStep
<1> QED BY <1>1, <1>2, PTL DEF PipeSpec

\* What was read, and then what waits in the buffer, is what was written, until a non-blocking
\* write overruns the buffer.
THEOREM InOrderHolds == PipeSpec => []InOrder
BY PipeInv, PTL DEF PInv

\* Requests that fit into the buffer leave nobody asleep without a reason.
THEOREM SleepJustifiedHolds == PipeSpec => []SleepJustified
<1>1. PInv => SleepJustified
  <2> SUFFICES ASSUME PInv, Fitting
               PROVE  \A p \in Proc : /\ Asleep(p, "read") => Empty \/ UnderWay
                                      /\ Asleep(p, "write") => Full \/ UnderWay
    BY DEF SleepJustified, Fitting
  <2>1. Writing \/ Reading => UnderWay
    BY DEF PInv, PipeTypeOK, PlaceInv, Writing, Reading, UnderWay
  <2> QED BY <2>1 DEF PInv, CalmInv
<1> QED BY <1>1, PipeInv, PTL

\* Such requests never leave a reader and a writer asleep at the same time.
THEOREM NoGridlockHolds == PipeSpec => []NoGridlock
<1>1. PInv => NoGridlock
  BY DEF PInv, CalmInv, NoGridlock, Fitting
<1> QED BY <1>1, PipeInv, PTL

\* Only a non-blocking write with read_pos at the start of the buffer overruns it, since the
\* test for a full buffer then compares write_pos with -1.
THEOREM OverrunAtStartHolds == PipeSpec => OverrunAtStart
<1>1. PInv /\ [PipeNext]_pipeVars =>
        [~overrun /\ overrun' => read_pos = 0 /\ ~blocking[current]]_pipeVars
  <2> SUFFICES ASSUME PInv, [PipeNext]_pipeVars, ~overrun, overrun'
               PROVE  read_pos = 0 /\ ~blocking[current]
    OBVIOUS
  <2>1. PipeTypeOK
    BY DEF PInv
  <2>2. Puts
    BY <2>1, Steps DEF Schedule, Gets, Get, Sleeps, Wakes, Rests, pipeVars, bvars
  <2>3. Full
    BY <2>2, Zenon DEF Puts, Put
  <2>4. ~blocking[current] /\ write_pos # read_pos - 1
    BY <2>2, <2>3 DEF Puts, FullNonblock
  <2> DEFINE n == (write_pos + 1) % Size
  <2>5. Size \in Nat \ {0, 1} /\ write_pos \in 0..(Size - 1) /\ read_pos \in 0..(Size - 1)
    BY <2>1, PipeFacts DEF PipeTypeOK, Slot
  <2>6. n = IF write_pos + 1 = Size THEN 0 ELSE write_pos + 1
    BY <2>5, RingSucc
  <2>7. n = read_pos
    BY <2>3 DEF Full, Succ
  <2> HIDE DEF n
  <2> QED BY <2>4, <2>5, <2>6, <2>7
<1> QED BY <1>1, PipeInv, PTL DEF PipeSpec, OverrunAtStart

-----------------------------------------------------------------------------
(* Sequences with an element put in or taken out *)

\* t is s with n as its i-th element; s without its k-th element.
Inserted(s, i, n, t) ==
  /\ Len(t) = Len(s) + 1 /\ DOMAIN t = 1..(Len(s) + 1)
  /\ t[i] = n
  /\ \A j \in 1..(Len(s) + 1) : /\ j < i => t[j] = s[j]
                                /\ j > i => t[j] = s[j - 1]
Without(s, k, t) ==
  /\ Len(t) = Len(s) - 1 /\ DOMAIN t = 1..(Len(s) - 1)
  /\ \A j \in 1..(Len(s) - 1) : t[j] = IF j < k THEN s[j] ELSE s[j + 1]

\* Putting an element in.
LEMMA InsertAtFacts ==
  ASSUME NEW S, NEW s \in Seq(S), NEW n \in S, NEW i \in 1..(Len(s) + 1)
  PROVE  InsertAt(s, i, n) \in Seq(S) /\ Inserted(s, i, n, InsertAt(s, i, n))
<1> DEFINE front == SubSeq(s, 1, i - 1)
           back == SubSeq(s, i, Len(s))
           t == InsertAt(s, i, n)
<1>1. PICK l \in Nat : l = Len(s)
  OBVIOUS
<1>2. DOMAIN s = 1..l /\ i \in 1..(l + 1) /\ \A j \in 1..l : s[j] \in S
  BY <1>1
<1>3. front \in Seq(S) /\ Len(front) = i - 1 /\ \A j \in 1..(i - 1) : front[j] = s[j]
  <2>1. 1 \in Int /\ i - 1 \in Int /\ (\A j \in 1..(i - 1) : s[j] \in S) /\ (i - 1) - 1 + 1 = i - 1
    BY <1>1, <1>2
  <2>2. \A j \in 1..(i - 1) : 1 + j - 1 = j
    BY <1>2
  <2>3. (IF 1 <= i - 1 THEN (i - 1) - 1 + 1 ELSE 0) = i - 1
    BY <1>2
  <2> QED BY <2>1, <2>2, <2>3, SubSeqProperties
<1>4. back \in Seq(S) /\ Len(back) = l - i + 1 /\ \A j \in 1..(l - i + 1) : back[j] = s[i + j - 1]
  <2>1. i \in Int /\ l \in Int /\ \A j \in i..l : s[j] \in S
    BY <1>1, <1>2
  <2>2. (IF i <= l THEN l - i + 1 ELSE 0) = l - i + 1
    BY <1>2
  <2> QED BY <2>1, <2>2, <1>1, SubSeqProperties
<1>5. t = front \o <<n>> \o back
  BY DEF InsertAt
<1> HIDE DEF front, back, t
<1> DEFINE u == front \o <<n>>
<1>6. /\ u \in Seq(S) /\ Len(u) = i /\ u[i] = n /\ \A j \in 1..(i - 1) : u[j] = s[j]
  BY <1>2, <1>3
<1>7. t = u \o back
  BY <1>5
<1> HIDE DEF u
<1>8. /\ t \in Seq(S) /\ Len(t) = l + 1
      /\ \A j \in 1..(l + 1) : t[j] = IF j <= i THEN u[j] ELSE back[j - i]
  <2>1. i + (l - i + 1) = l + 1
    BY <1>2
  <2>2. /\ u \o back \in Seq(S) /\ Len(u \o back) = Len(u) + Len(back)
        /\ \A j \in 1..(Len(u) + Len(back)) :
             (u \o back)[j] = IF j <= Len(u) THEN u[j] ELSE back[j - Len(u)]
    BY <1>4, <1>6, ConcatProperties
  <2> QED BY <2>1, <2>2, <1>4, <1>6, <1>7
<1>9. \A j \in 1..(l + 1) : /\ j < i => t[j] = s[j]
                            /\ j > i => t[j] = s[j - 1]
  <2> SUFFICES ASSUME NEW j \in 1..(l + 1) PROVE (j < i => t[j] = s[j]) /\ (j > i => t[j] = s[j - 1])
    OBVIOUS
  <2>1. CASE j < i
    BY <2>1, <1>2, <1>6, <1>8
  <2>2. CASE j > i
    <3>1. j - i \in 1..(l - i + 1) /\ i + (j - i) - 1 = j - 1
      BY <2>2, <1>2
    <3> QED BY <2>2, <3>1, <1>2, <1>4, <1>8, SMTT(20)
  <2> QED BY <2>1, <2>2
<1>10. t[i] = n
  BY <1>2, <1>6, <1>8
<1>11. DOMAIN t = 1..(l + 1)
  BY <1>8
<1> QED BY <1>1, <1>8, <1>9, <1>10, <1>11 DEF t, Inserted

\* Taking one out.
LEMMA RemoveAtFacts ==
  ASSUME NEW S, NEW s \in Seq(S), NEW k \in 1..Len(s)
  PROVE  RemoveAt(s, k) \in Seq(S) /\ Without(s, k, RemoveAt(s, k))
<1> DEFINE front == SubSeq(s, 1, k - 1)
           back == SubSeq(s, k + 1, Len(s))
           t == RemoveAt(s, k)
<1>1. PICK l \in Nat : l = Len(s)
  OBVIOUS
<1>2. DOMAIN s = 1..l /\ k \in 1..l /\ \A j \in 1..l : s[j] \in S
  BY <1>1
<1>3. front \in Seq(S) /\ Len(front) = k - 1 /\ \A j \in 1..(k - 1) : front[j] = s[j]
  <2>1. 1 \in Int /\ k - 1 \in Int /\ (\A j \in 1..(k - 1) : s[j] \in S) /\ (k - 1) - 1 + 1 = k - 1
    BY <1>1, <1>2
  <2>2. \A j \in 1..(k - 1) : 1 + j - 1 = j
    BY <1>2
  <2>3. (IF 1 <= k - 1 THEN (k - 1) - 1 + 1 ELSE 0) = k - 1
    BY <1>2
  <2> QED BY <2>1, <2>2, <2>3, SubSeqProperties
<1>4. back \in Seq(S) /\ Len(back) = l - k /\ \A j \in 1..(l - k) : back[j] = s[k + j]
  <2>1. PICK m \in Int : m = k + 1
    BY <1>2
  <2>2. l \in Int /\ \A j \in m..l : s[j] \in S
    BY <1>2, <2>1
  <2>3. (IF m <= l THEN l - m + 1 ELSE 0) = l - k
    BY <1>2, <2>1
  <2>4. /\ SubSeq(s, m, l) \in Seq(S) /\ Len(SubSeq(s, m, l)) = (IF m <= l THEN l - m + 1 ELSE 0)
        /\ \A j \in 1..(l - m + 1) : SubSeq(s, m, l)[j] = s[m + j - 1]
    BY <2>2, SubSeqProperties
  <2>5. l - m + 1 = l - k /\ \A j \in 1..(l - k) : m + j - 1 = k + j
    BY <1>2, <2>1
  <2>6. back = SubSeq(s, m, l)
    BY <1>1, <2>1
  <2> HIDE DEF back
  <2> QED BY <2>3, <2>4, <2>5, <2>6
<1>5. t = front \o back
  BY DEF RemoveAt
<1> HIDE DEF front, back, t
<1>6. /\ t \in Seq(S) /\ Len(t) = l - 1
      /\ \A j \in 1..(l - 1) : t[j] = IF j <= k - 1 THEN front[j] ELSE back[j - (k - 1)]
  BY <1>2, <1>3, <1>4, <1>5
<1>7. \A j \in 1..(l - 1) : t[j] = IF j < k THEN s[j] ELSE s[j + 1]
  <2> SUFFICES ASSUME NEW j \in 1..(l - 1) PROVE t[j] = IF j < k THEN s[j] ELSE s[j + 1]
    OBVIOUS
  <2>1. CASE j < k
    BY <2>1, <1>2, <1>3, <1>6
  <2>2. CASE ~(j < k)
    <3>1. j - (k - 1) \in 1..(l - k) /\ k + (j - (k - 1)) = j + 1 /\ ~(j <= k - 1)
      BY <2>2, <1>2
    <3> QED BY <2>2, <3>1, <1>4, <1>6
  <2> QED BY <2>1, <2>2
<1>8. DOMAIN t = 1..(l - 1)
  BY <1>2, <1>6
<1> QED BY <1>1, <1>6, <1>7, <1>8 DEF t, Without

\* A node that was not in the list is in it once.
LEMMA InsertedNodes ==
  ASSUME NEW S, NEW s \in Seq(S), NEW t \in Seq(S), NEW n, NEW i \in 1..(Len(s) + 1),
         Inserted(s, i, n, t)
  PROVE  /\ Range(t) = Range(s) \cup {n}
         /\ IsInjective(s) /\ n \notin Range(s) => IsInjective(t)
<1>1. PICK l \in Nat : l = Len(s)
  OBVIOUS
<1>2. /\ DOMAIN s = 1..l /\ DOMAIN t = 1..(l + 1) /\ i \in 1..(l + 1) /\ t[i] = n
      /\ \A j \in 1..(l + 1) : (j < i => t[j] = s[j]) /\ (j > i => t[j] = s[j - 1])
  BY <1>1, SMTT(20) DEF Inserted
<1>3. ASSUME NEW j \in 1..(l + 1), j # i
      PROVE  \E a \in 1..l : a = (IF j < i THEN j ELSE j - 1) /\ t[j] = s[a]
  <2>1. CASE j < i
    BY <2>1, <1>2
  <2>2. CASE j > i
    <3>1. j - 1 \in 1..l
      BY <2>2, <1>2
    <3> QED BY <2>2, <3>1, <1>2
  <2> QED BY <2>1, <2>2, <1>2, <1>3
<1>4. ASSUME NEW a \in 1..l PROVE \E j \in 1..(l + 1) : t[j] = s[a]
  <2>1. CASE a < i
    BY <2>1, <1>2
  <2>2. CASE ~(a < i)
    <3>1. a + 1 \in 1..(l + 1) /\ a + 1 > i /\ (a + 1) - 1 = a
      BY <2>2, <1>2
    <3> QED BY <3>1, <1>2
  <2> QED BY <2>1, <2>2
<1>5. Range(t) = Range(s) \cup {n}
  <2>1. \A x \in Range(t) : x \in Range(s) \cup {n}
    <3> SUFFICES ASSUME NEW j \in 1..(l + 1), t[j] # n PROVE t[j] \in Range(s)
      BY <1>2 DEF Range
    <3>1. \E a \in 1..l : t[j] = s[a]
      BY <1>2, <1>3
    <3> QED BY <3>1, <1>2 DEF Range
  <2>2. \A x \in Range(s) : x \in Range(t)
    <3> SUFFICES ASSUME NEW a \in 1..l PROVE s[a] \in Range(t)
      BY <1>2 DEF Range
    <3>1. \E j \in 1..(l + 1) : t[j] = s[a]
      BY <1>4
    <3> QED BY <3>1, <1>2 DEF Range
  <2>3. n \in Range(t)
    BY <1>2 DEF Range
  <2> QED BY <2>1, <2>2, <2>3
<1>6. ASSUME IsInjective(s), n \notin Range(s) PROVE IsInjective(t)
  <2> SUFFICES ASSUME NEW j \in 1..(l + 1), NEW k \in 1..(l + 1), t[j] = t[k] PROVE j = k
    BY <1>2 DEF IsInjective
  <2>1. \A a \in 1..l : s[a] # n
    BY <1>2, <1>6 DEF Range
  <2>2. CASE j = i \/ k = i
    BY <2>1, <2>2, <1>2, <1>3
  <2>3. CASE j # i /\ k # i
    <3>1. PICK a \in 1..l : a = (IF j < i THEN j ELSE j - 1) /\ t[j] = s[a]
      BY <2>3, <1>3
    <3>2. PICK b \in 1..l : b = (IF k < i THEN k ELSE k - 1) /\ t[k] = s[b]
      BY <2>3, <1>3
    <3>3. a = b
      BY <3>1, <3>2, <1>2, <1>6 DEF IsInjective
    <3> QED BY <2>3, <3>1, <3>2, <3>3, <1>2
  <2> QED BY <2>2, <2>3
<1> QED BY <1>5, <1>6

-----------------------------------------------------------------------------
(* A list as a chain of pointers *)

\* The i-th node of a list, or the null pointer.
Nth(s, i) == IF i \in DOMAIN s THEN s[i] ELSE 0
Chain(l, nd, q, s) ==
  /\ l.head = Nth(s, 1) /\ l.tail = Nth(s, Len(s))
  /\ \A i \in DOMAIN s :
       nd[s[i]].list = q /\ nd[s[i]].next = Nth(s, i + 1) /\ nd[s[i]].prev = Nth(s, i - 1)

\* The nodes nd became nd2 when n was linked into q between p and x; when n was unlinked.
Spliced(S, nd, nd2, q, n, p, x) ==
  /\ nd2[n].list = q /\ nd2[n].next = x /\ nd2[n].prev = p
  /\ \A m \in S \ {n} : /\ nd2[m].list = nd[m].list
                        /\ nd2[m].next = IF m = p THEN n ELSE nd[m].next
                        /\ nd2[m].prev = IF m = x THEN n ELSE nd[m].prev
Bridged(S, nd, nd2, n, p, x) ==
  \A m \in S \ {n} : /\ nd2[m].list = nd[m].list
                     /\ nd2[m].next = IF m = p THEN x ELSE nd[m].next
                     /\ nd2[m].prev = IF m = x THEN p ELSE nd[m].prev

\* A node has one place in a list.
LEMMA NthFacts ==
  ASSUME NEW S, 0 \notin S, NEW s \in Seq(S)
  PROVE  /\ \A j \in Int : Nth(s, j) = IF 1 <= j /\ j <= Len(s) THEN s[j] ELSE 0
         /\ \A j \in Int : Nth(s, j) # 0 <=> 1 <= j /\ j <= Len(s)
         /\ \A j \in Int : Nth(s, j) # 0 => Nth(s, j) \in S /\ Nth(s, j) \in Range(s)
         /\ IsInjective(s) => \A j \in 1..Len(s), k \in Int : Nth(s, j) = Nth(s, k) => j = k
<1>1. PICK l \in Nat : l = Len(s)
  OBVIOUS
<1>2. DOMAIN s = 1..l /\ \A j \in 1..l : s[j] \in S
  BY <1>1
<1>3. \A j \in Int : Nth(s, j) = IF 1 <= j /\ j <= l THEN s[j] ELSE 0
  BY <1>2 DEF Nth
<1>4. \A j \in Int : Nth(s, j) # 0 <=> 1 <= j /\ j <= l
  BY <1>2, <1>3
<1>5. \A j \in Int : Nth(s, j) # 0 => Nth(s, j) \in S /\ Nth(s, j) \in Range(s)
  BY <1>2, <1>3, <1>4 DEF Range
<1>6. ASSUME IsInjective(s), NEW j \in 1..l, NEW k \in Int, Nth(s, j) = Nth(s, k)
      PROVE  j = k
  <2>0. Nth(s, j) # 0 /\ Nth(s, j) = s[j]
    BY <1>3, <1>4
  <2>1. k \in 1..l /\ s[j] = s[k]
    <3>1. 1 <= k /\ k <= l
      BY <2>0, <1>4, <1>6
    <3> QED BY <3>1, <2>0, <1>3, <1>6
  <2> QED BY <2>1, <1>2, <1>6 DEF IsInjective
<1> QED BY <1>1, <1>3, <1>4, <1>5, <1>6

\* A node that is linked in between makes a chain that is longer by it.
LEMMA ChainGrows ==
  ASSUME NEW S, 0 \notin S, NEW s \in Seq(S), IsInjective(s), NEW n \in S, n \notin Range(s),
         NEW i \in 1..(Len(s) + 1), NEW t \in Seq(S), Inserted(s, i, n, t),
         NEW l, NEW nd, NEW q, Chain(l, nd, q, s), NEW l2, NEW nd2,
         l2.head = IF i = 1 THEN n ELSE l.head,
         l2.tail = IF i = Len(s) + 1 THEN n ELSE l.tail,
         Spliced(S, nd, nd2, q, n, Nth(s, i - 1), Nth(s, i))
  PROVE  Chain(l2, nd2, q, t)
<1>1. PICK c \in Nat : c = Len(s)
  OBVIOUS
<1>2. /\ Len(t) = c + 1 /\ DOMAIN t = 1..(c + 1) /\ DOMAIN s = 1..c /\ i \in 1..(c + 1) /\ t[i] = n
      /\ \A j \in 1..(c + 1) : (j < i => t[j] = s[j]) /\ (j > i => t[j] = s[j - 1])
  BY <1>1 DEF Inserted
<1>3. /\ \A j \in Int : Nth(s, j) = IF 1 <= j /\ j <= c THEN s[j] ELSE 0
      /\ \A j \in Int : Nth(s, j) # 0 <=> 1 <= j /\ j <= c
      /\ \A j \in Int : Nth(s, j) # 0 => Nth(s, j) \in S /\ Nth(s, j) # n
      /\ \A j \in 1..c, k \in Int : Nth(s, j) = Nth(s, k) => j = k
  BY <1>1, NthFacts
<1>4. \A j \in Int : Nth(t, j) = IF j < i THEN Nth(s, j) ELSE IF j = i THEN n ELSE Nth(s, j - 1)
  BY <1>2, <1>3 DEF Nth
<1>5. ASSUME NEW j \in 1..c
      PROVE  /\ Nth(s, j) # 0 /\ nd[Nth(s, j)].list = q
             /\ nd[Nth(s, j)].next = Nth(s, j + 1) /\ nd[Nth(s, j)].prev = Nth(s, j - 1)
  <2>1. j \in DOMAIN s /\ Nth(s, j) = s[j] /\ Nth(s, j) # 0
    BY <1>2, <1>3
  <2> QED BY <2>1 DEF Chain
<1>6. l.head = Nth(s, 1) /\ l.tail = Nth(s, c)
  BY <1>1 DEF Chain
<1>7. l2.head = Nth(t, 1)
  BY <1>2, <1>4, <1>6
<1>8. l2.tail = Nth(t, c + 1)
  BY <1>1, <1>2, <1>4, <1>6
<1>9. ASSUME NEW j \in 1..(c + 1)
      PROVE  /\ nd2[t[j]].list = q /\ nd2[t[j]].next = Nth(t, j + 1) /\ nd2[t[j]].prev = Nth(t, j - 1)
  <2>1. t[j] = Nth(t, j)
    BY <1>2 DEF Nth
  <2>2. CASE j = i
    <3>1. Nth(t, j) = n /\ Nth(t, j + 1) = Nth(s, i) /\ Nth(t, j - 1) = Nth(s, i - 1)
      BY <2>2, <1>4
    <3> QED BY <2>1, <3>1 DEF Spliced
  <2>3. CASE j < i
    <3>1. j \in 1..c /\ Nth(t, j) = Nth(s, j) /\ Nth(t, j - 1) = Nth(s, j - 1)
          /\ Nth(t, j + 1) = (IF j + 1 = i THEN n ELSE Nth(s, j + 1))
      BY <2>3, <1>2, <1>4
    <3>2. Nth(s, j) \in S \ {n} /\ Nth(s, j) # 0
      BY <3>1, <1>3, <1>5
    <3>3. Nth(s, j) # Nth(s, i) /\ (Nth(s, j) = Nth(s, i - 1) <=> j + 1 = i)
      <4>1. i \in Int /\ i - 1 \in Int /\ j # i /\ (j = i - 1 <=> j + 1 = i)
        BY <2>3, <1>2
      <4> QED BY <4>1, <3>1, <1>3
    <3>4. /\ nd2[Nth(s, j)].list = q
          /\ nd2[Nth(s, j)].next = (IF j + 1 = i THEN n ELSE Nth(s, j + 1))
          /\ nd2[Nth(s, j)].prev = Nth(s, j - 1)
      BY <3>1, <3>2, <3>3, <1>5 DEF Spliced
    <3> QED BY <2>1, <3>1, <3>4
  <2>4. CASE j > i
    <3>1. j - 1 \in 1..c /\ Nth(t, j) = Nth(s, j - 1) /\ Nth(t, j + 1) = Nth(s, j)
          /\ Nth(t, j - 1) = (IF j - 1 = i THEN n ELSE Nth(s, j - 2))
      BY <2>4, <1>2, <1>4
    <3>2. Nth(s, j - 1) \in S \ {n} /\ Nth(s, j - 1) # 0
      BY <3>1, <1>3, <1>5
    <3>3. Nth(s, j - 1) # Nth(s, i - 1) /\ (Nth(s, j - 1) = Nth(s, i) <=> j - 1 = i)
      <4>1. i \in Int /\ i - 1 \in Int /\ j - 1 # i - 1
        BY <2>4, <1>2
      <4> QED BY <4>1, <3>1, <1>3
    <3>4. /\ nd[Nth(s, j - 1)].list = q /\ nd[Nth(s, j - 1)].next = Nth(s, j)
          /\ nd[Nth(s, j - 1)].prev = Nth(s, j - 2)
      <4>1. (j - 1) + 1 = j /\ (j - 1) - 1 = j - 2
        OBVIOUS
      <4> QED BY <3>1, <4>1, <1>5
    <3>5. /\ nd2[Nth(s, j - 1)].list = q
          /\ nd2[Nth(s, j - 1)].next = Nth(s, j)
          /\ nd2[Nth(s, j - 1)].prev = (IF j - 1 = i THEN n ELSE Nth(s, j - 2))
      BY <3>2, <3>3, <3>4 DEF Spliced
    <3> QED BY <2>1, <3>1, <3>5
  <2> QED BY <2>2, <2>3, <2>4, <1>2
<1> QED BY <1>2, <1>7, <1>8, <1>9 DEF Chain

\* A chain whose node was unlinked is shorter by it.
LEMMA ChainShrinks ==
  ASSUME NEW S, 0 \notin S, NEW s \in Seq(S), IsInjective(s), NEW k \in 1..Len(s),
         NEW t \in Seq(S), Without(s, k, t),
         NEW l, NEW nd, NEW q, Chain(l, nd, q, s), NEW l2, NEW nd2,
         l2.head = IF k = 1 THEN Nth(s, 2) ELSE l.head,
         l2.tail = IF k = Len(s) THEN Nth(s, k - 1) ELSE l.tail,
         Bridged(S, nd, nd2, s[k], Nth(s, k - 1), Nth(s, k + 1))
  PROVE  Chain(l2, nd2, q, t)
<1>1. PICK c \in Nat : c = Len(s)
  OBVIOUS
<1>2. /\ Len(t) = c - 1 /\ DOMAIN t = 1..(c - 1) /\ DOMAIN s = 1..c /\ k \in 1..c
      /\ \A j \in 1..(c - 1) : t[j] = IF j < k THEN s[j] ELSE s[j + 1]
  BY <1>1 DEF Without
<1>3. /\ \A j \in Int : Nth(s, j) = IF 1 <= j /\ j <= c THEN s[j] ELSE 0
      /\ \A j \in Int : Nth(s, j) # 0 <=> 1 <= j /\ j <= c
      /\ \A j \in Int : Nth(s, j) # 0 => Nth(s, j) \in S
      /\ \A j \in 1..c, m \in Int : Nth(s, j) = Nth(s, m) => j = m
  BY <1>1, NthFacts
<1>4. \A j \in Int : Nth(t, j) = IF j < k THEN Nth(s, j) ELSE Nth(s, j + 1)
  BY <1>2, <1>3 DEF Nth
<1>5. ASSUME NEW j \in 1..c
      PROVE  /\ Nth(s, j) # 0 /\ nd[Nth(s, j)].list = q
             /\ nd[Nth(s, j)].next = Nth(s, j + 1) /\ nd[Nth(s, j)].prev = Nth(s, j - 1)
  <2>1. j \in DOMAIN s /\ Nth(s, j) = s[j] /\ Nth(s, j) # 0
    BY <1>2, <1>3
  <2> QED BY <2>1 DEF Chain
<1>6. l.head = Nth(s, 1) /\ l.tail = Nth(s, c) /\ s[k] = Nth(s, k)
  BY <1>1, <1>2 DEF Chain, Nth
<1>7. l2.head = Nth(t, 1)
  <2>1. Nth(t, 1) = IF 1 < k THEN Nth(s, 1) ELSE Nth(s, 1 + 1)
    BY <1>4
  <2>2. 1 + 1 = 2 /\ (1 < k <=> k # 1)
    BY <1>2
  <2> QED BY <2>1, <2>2, <1>6
<1>8. l2.tail = Nth(t, c - 1)
  <2>1. Nth(t, c - 1) = IF c - 1 < k THEN Nth(s, c - 1) ELSE Nth(s, (c - 1) + 1)
    BY <1>4
  <2>2. (c - 1) + 1 = c /\ (c - 1 < k <=> k = c)
    BY <1>2
  <2> QED BY <2>1, <2>2, <1>1, <1>6
<1>9. ASSUME NEW j \in 1..(c - 1)
      PROVE  /\ nd2[t[j]].list = q /\ nd2[t[j]].next = Nth(t, j + 1) /\ nd2[t[j]].prev = Nth(t, j - 1)
  <2>1. t[j] = Nth(t, j)
    BY <1>2 DEF Nth
  <2>2. CASE j < k
    <3>1. /\ j \in 1..c /\ Nth(t, j) = Nth(s, j) /\ Nth(t, j - 1) = Nth(s, j - 1)
          /\ Nth(t, j + 1) = (IF j = k - 1 THEN Nth(s, k + 1) ELSE Nth(s, j + 1))
      <4>1. j - 1 < k /\ (j + 1 < k <=> j # k - 1) /\ (j = k - 1 => (j + 1) + 1 = k + 1)
        BY <2>2, <1>2
      <4>2. j \in Int /\ j + 1 \in Int /\ j - 1 \in Int
        OBVIOUS
      <4>3. Nth(t, j + 1) = (IF j + 1 < k THEN Nth(s, j + 1) ELSE Nth(s, (j + 1) + 1))
        BY <4>2, <1>4
      <4>4. Nth(t, j - 1) = (IF j - 1 < k THEN Nth(s, j - 1) ELSE Nth(s, (j - 1) + 1))
        BY <4>2, <1>4
      <4>5. Nth(t, j) = Nth(s, j) /\ j \in 1..c
        BY <2>2, <4>2, <1>2, <1>4
      <4> QED BY <4>1, <4>3, <4>4, <4>5
    <3>2. Nth(s, j) # 0 /\ Nth(s, j) \in S \ {s[k]}
      BY <2>2, <3>1, <1>2, <1>3, <1>5, <1>6
    <3>3. Nth(s, j) # Nth(s, k + 1) /\ (Nth(s, j) = Nth(s, k - 1) <=> j = k - 1)
      BY <2>2, <3>1, <3>2, <1>2, <1>3
    <3>4. /\ nd2[Nth(s, j)].list = q
          /\ nd2[Nth(s, j)].next = (IF j = k - 1 THEN Nth(s, k + 1) ELSE Nth(s, j + 1))
          /\ nd2[Nth(s, j)].prev = Nth(s, j - 1)
      BY <3>1, <3>2, <3>3, <1>5 DEF Bridged
    <3> QED BY <2>1, <3>1, <3>4
  <2>3. CASE ~(j < k)
    <3>1. /\ j + 1 \in 1..c /\ Nth(t, j) = Nth(s, j + 1) /\ Nth(t, j + 1) = Nth(s, j + 2)
          /\ Nth(t, j - 1) = (IF j = k THEN Nth(s, k - 1) ELSE Nth(s, j))
      <4>1. /\ ~(j + 1 < k) /\ (j - 1 < k <=> j = k) /\ (j + 1) + 1 = j + 2 /\ (j - 1) + 1 = j
        BY <2>3, <1>2
      <4>2. j \in Int /\ j + 1 \in Int /\ j - 1 \in Int
        OBVIOUS
      <4>3. Nth(t, j + 1) = (IF j + 1 < k THEN Nth(s, j + 1) ELSE Nth(s, (j + 1) + 1))
        BY <4>2, <1>4
      <4>4. Nth(t, j - 1) = (IF j - 1 < k THEN Nth(s, j - 1) ELSE Nth(s, (j - 1) + 1))
        BY <4>2, <1>4
      <4>5. Nth(t, j) = Nth(s, j + 1)
        BY <2>3, <4>2, <1>4
      <4>6. j + 1 \in 1..c
        BY <1>2
      <4> QED BY <4>1, <4>3, <4>4, <4>5, <4>6
    <3>2. Nth(s, j + 1) # 0 /\ Nth(s, j + 1) \in S \ {s[k]}
      BY <2>3, <3>1, <1>2, <1>3, <1>5, <1>6
    <3>3. Nth(s, j + 1) # Nth(s, k - 1) /\ (Nth(s, j + 1) = Nth(s, k + 1) <=> j = k)
      BY <2>3, <3>1, <3>2, <1>2, <1>3
    <3>4. /\ nd[Nth(s, j + 1)].list = q /\ nd[Nth(s, j + 1)].next = Nth(s, j + 2)
          /\ nd[Nth(s, j + 1)].prev = Nth(s, j)
      <4>1. (j + 1) + 1 = j + 2 /\ (j + 1) - 1 = j
        OBVIOUS
      <4> QED BY <3>1, <4>1, <1>5
    <3>5. /\ nd2[Nth(s, j + 1)].list = q
          /\ nd2[Nth(s, j + 1)].next = Nth(s, j + 2)
          /\ nd2[Nth(s, j + 1)].prev = (IF j = k THEN Nth(s, k - 1) ELSE Nth(s, j))
      BY <3>2, <3>3, <3>4 DEF Bridged
    <3> QED BY <2>1, <3>1, <3>5
  <2> QED BY <2>2, <2>3
<1> QED BY <1>2, <1>7, <1>8, <1>9 DEF Chain

\* A chain none of whose nodes was written stays.
LEMMA ChainStays ==
  ASSUME NEW l, NEW nd, NEW nd2, NEW q, NEW s, Chain(l, nd, q, s),
         \A i \in DOMAIN s : /\ nd2[s[i]].list = nd[s[i]].list /\ nd2[s[i]].next = nd[s[i]].next
                             /\ nd2[s[i]].prev = nd[s[i]].prev
  PROVE  Chain(l, nd2, q, s)
BY DEF Chain

-----------------------------------------------------------------------------
(* A family of lists of which one gets a node or loses one *)

\* The list gets a node that was linked nowhere.
LEMMA GrowLists ==
  ASSUME NEW Q, NEW S, NEW L \in ListsOver(Q, S), NoDup(L), NEW q \in Q, NEW n \in S, n \notin Linked(L),
         NEW t \in Seq(S), IsInjective(t), Range(t) = Range(L[q]) \cup {n}
  PROVE  PushFacts(Q, S, L, q, n, [L EXCEPT ![q] = t])
<1> DEFINE M == [L EXCEPT ![q] = t]
<1>1. /\ DOMAIN L = Q /\ DOMAIN M = Q /\ M[q] = t /\ \A r \in Q \ {q} : M[r] = L[r]
  BY DEF ListsOver
<1>2. \A r \in Q : n \notin Range(L[r])
  BY <1>1 DEF Linked
<1>3. M \in ListsOver(Q, S)
  BY DEF ListsOver
<1> HIDE DEF M
<1>4. \A r \in Q : Range(M[r]) = IF r = q THEN Range(L[r]) \cup {n} ELSE Range(L[r])
  BY <1>1
<1>5. Linked(M) = Linked(L) \cup {n}
  BY <1>1, <1>4 DEF Linked
<1>6. NoDup(M)
  <2>1. \A r \in Q : IsInjective(M[r])
    BY <1>1 DEF NoDup
  <2>2. \A r, u \in Q : r # u => Range(M[r]) \cap Range(M[u]) = {}
    BY <1>1, <1>2, <1>4 DEF NoDup
  <2> QED BY <1>1, <2>1, <2>2 DEF NoDup
<1> QED BY <1>3, <1>4, <1>5, <1>6 DEF M, PushFacts

\* The list loses a node.
LEMMA ShrinkLists ==
  ASSUME NEW Q, NEW S, NEW L \in ListsOver(Q, S), NoDup(L), NEW q \in Q, NEW n \in Range(L[q]),
         NEW t \in Seq(S), IsInjective(t), Range(t) = Range(L[q]) \ {n}
  PROVE  RemoveFacts(Q, S, L, n, [L EXCEPT ![q] = t])
<1> DEFINE M == [L EXCEPT ![q] = t]
<1>1. /\ DOMAIN L = Q /\ DOMAIN M = Q /\ M[q] = t /\ \A r \in Q \ {q} : M[r] = L[r]
  BY DEF ListsOver
<1>2. \A r \in Q \ {q} : n \notin Range(L[r])
  BY <1>1 DEF NoDup
<1>3. M \in ListsOver(Q, S)
  BY DEF ListsOver
<1> HIDE DEF M
<1>4. \A r \in Q : Range(M[r]) = Range(L[r]) \ {n}
  BY <1>1, <1>2
<1>5. Linked(M) = Linked(L) \ {n}
  BY <1>1, <1>4 DEF Linked
<1>6. NoDup(M)
  <2>1. \A r \in Q : IsInjective(M[r])
    BY <1>1 DEF NoDup
  <2>2. \A r, u \in Q : r # u => Range(M[r]) \cap Range(M[u]) = {}
    BY <1>1, <1>4 DEF NoDup
  <2> QED BY <1>1, <2>1, <2>2 DEF NoDup
<1> QED BY <1>3, <1>4, <1>5, <1>6 DEF M, RemoveFacts

\* list_remove changes the list of the node only.
LEMMA UnlinkOne ==
  ASSUME NEW Q, NEW S, NEW L \in ListsOver(Q, S), NoDup(L), NEW q \in Q, NEW k \in 1..Len(L[q])
  PROVE  Unlink(L, L[q][k]) = [L EXCEPT ![q] = RemoveAt(L[q], k)]
<1>1. DOMAIN L = Q /\ L[q] \in Seq(S) /\ DOMAIN L[q] = 1..Len(L[q]) /\ IsInjective(L[q])
  BY DEF ListsOver, NoDup
<1> DEFINE n == L[q][k]
<1>2. n \in Range(L[q])
  BY <1>1 DEF Range
<1>3. RemoveFirst(L[q], n) = RemoveAt(L[q], k)
  <2>1. {i \in 1..Len(L[q]) : L[q][i] = n} = {k}
    BY <1>1 DEF IsInjective
  <2>2. Min({k}) = k
    BY <1>1 DEF Min
  <2> QED BY <2>1, <2>2 DEF RemoveFirst, SelectInSeq
<1>4. ASSUME NEW r \in Q \ {q} PROVE RemoveFirst(L[r], n) = L[r]
  <2>1. n \notin Range(L[r])
    BY <1>1, <1>2 DEF NoDup
  <2>2. L[r] \in Seq(S)
    BY DEF ListsOver
  <2>3. DOMAIN L[r] = 1..Len(L[r])
    BY <2>2
  <2>4. ~\E i \in 1..Len(L[r]) : L[r][i] = n
    BY <2>1, <2>3 DEF Range
  <2> QED BY <2>4 DEF RemoveFirst
<1> HIDE DEF n
<1>5. Unlink(L, n) = [L EXCEPT ![q] = RemoveAt(L[q], k)]
  <2>1. L = [r \in Q |-> L[r]]
    BY DEF ListsOver
  <2> QED BY <1>1, <1>3, <1>4, <2>1 DEF Unlink
<1> QED BY <1>5 DEF n

\* A list without duplicates is no longer than there are nodes.
LEMMA LengthBound ==
  ASSUME NEW S, IsFiniteSet(S), NEW s \in Seq(S), IsInjective(s)
  PROVE  s \in SeqOf(S, Cardinality(S)) /\ Len(s) <= Cardinality(S)
<1>1. PICK l \in Nat : l = Len(s)
  OBVIOUS
<1>2. s \in [1..l -> S] /\ DOMAIN s = 1..l
  BY <1>1, LenProperties
<1>3. s \in Injection(1..l, S)
  BY <1>2 DEF Injection, IsInjective
<1>4. Cardinality(1..l) <= Cardinality(S)
  BY <1>3, FS_Injection
<1>5. Cardinality(1..l) = l
  BY FS_Interval
<1>6. Cardinality(S) \in Nat
  BY FS_CardinalityType
<1>7. l \in 0..Cardinality(S)
  BY <1>4, <1>5, <1>6
<1> QED BY <1>1, <1>2, <1>7 DEF SeqOf

-----------------------------------------------------------------------------
(* The lists of list.c *)

ListRecord == [head : {0} \cup Node, tail : {0} \cup Node, size : Int]
NodeRecord == [next : {0} \cup Node, prev : {0} \cup Node, list : {0} \cup List, priority : {0} \cup Priority]

\* The inductive invariant: the pointers of a list are a chain of its nodes, and no node is
\* in two lists, without which the writes of one operation would reach another list.
ListsInv ==
  /\ list \in [List -> ListRecord] /\ node \in [Node -> NodeRecord]
  /\ stray \in [List -> 0..MaxStray] /\ view \in ListsOver(List, Node)
  /\ NoDup(view)
  /\ \A q \in List : Chain(list[q], node, q, view[q])
  /\ \A n \in Node : node[n].list = 0 => node[n].next = 0 /\ node[n].prev = 0
  /\ \A n \in Node : node[n].list = 0 <=> n \notin Linked(view)
  /\ SizeDrift

\* What the invariant says of one list.
LEMMA ListFacts ==
  ASSUME ListAssumption, ListsInv, NEW q \in List
  PROVE  /\ 0 \notin Node /\ 0 \notin List /\ IsFiniteSet(Node) /\ Priority \subseteq Int /\ MaxStray \in Nat
         /\ view[q] \in Seq(Node) /\ IsInjective(view[q]) /\ DOMAIN view = List
         /\ Len(view[q]) \in Nat /\ DOMAIN view[q] = 1..Len(view[q])
         /\ \A r \in List \ {q} : Range(view[r]) \cap Range(view[q]) = {}
         /\ \A n \in Node : n \in Range(view[q]) => node[n].list = q
         /\ \A n \in Node : node[n].list = q => n \in Range(view[q])
         /\ list[q] \in ListRecord /\ list[q].size = Len(view[q]) + stray[q] /\ stray[q] \in 0..MaxStray
<1>1. /\ 0 \notin Node /\ 0 \notin List /\ IsFiniteSet(Node) /\ Priority \subseteq Int /\ MaxStray \in Nat
  BY DEF ListAssumption
<1>2. DOMAIN view = List /\ \A r \in List : view[r] \in Seq(Node)
  BY DEF ListsInv, ListsOver
<1>3. IsInjective(view[q]) /\ \A r \in List \ {q} : Range(view[r]) \cap Range(view[q]) = {}
  BY <1>2 DEF ListsInv, NoDup
<1>4. Len(view[q]) \in Nat /\ DOMAIN view[q] = 1..Len(view[q])
  BY <1>2
<1>5. \A r \in List : \A n \in Range(view[r]) : node[n].list = r
  BY DEF ListsInv, Chain, Range
<1>6. ASSUME NEW n \in Node, node[n].list = q PROVE n \in Range(view[q])
  <2>1. n \in Linked(view)
    BY <1>1, <1>6 DEF ListsInv
  <2>2. PICK r \in List : n \in Range(view[r])
    BY <2>1, <1>2 DEF Linked
  <2> QED BY <2>2, <1>5, <1>6
<1>7. list[q] \in ListRecord /\ list[q].size = Len(view[q]) + stray[q] /\ stray[q] \in 0..MaxStray
  BY DEF ListsInv, SizeDrift
<1> QED BY <1>1, <1>2, <1>3, <1>4, <1>5, <1>6, <1>7

\* A step that links n into q as its i-th node, between p and x, after which the list is the
\* sequence t with the record l; one that unlinks the k-th node n of q.
Links(q, n, i, t, p, x, l) ==
  /\ node[n].list = 0 /\ i \in 1..(Len(view[q]) + 1)
  /\ t \in Seq(Node) /\ Inserted(view[q], i, n, t)
  /\ p = Nth(view[q], i - 1) /\ x = Nth(view[q], i)
  /\ Spliced(Node, node, node', q, n, p, x) /\ node' \in [Node -> NodeRecord]
  /\ l \in ListRecord
  /\ l.head = IF i = 1 THEN n ELSE list[q].head
  /\ l.tail = IF i = Len(view[q]) + 1 THEN n ELSE list[q].tail
  /\ l.size = list[q].size + 1
  /\ list' = [list EXCEPT ![q] = l] /\ view' = [view EXCEPT ![q] = t] /\ stray' = stray
Unlinks(q, n, k, p, x, l) ==
  /\ k \in 1..Len(view[q]) /\ n = view[q][k]
  /\ p = Nth(view[q], k - 1) /\ x = Nth(view[q], k + 1)
  /\ Bridged(Node, node, node', n, p, x) /\ node' \in [Node -> NodeRecord]
  /\ node'[n] = [NoNode EXCEPT !.priority = node[n].priority]
  /\ l \in ListRecord
  /\ l.head = IF k = 1 THEN x ELSE list[q].head
  /\ l.tail = IF k = Len(view[q]) THEN p ELSE list[q].tail
  /\ l.size = (Len(view[q]) - 1) + stray'[q]
  /\ list' = [list EXCEPT ![q] = l] /\ view' = [view EXCEPT ![q] = RemoveAt(view[q], k)]
  /\ stray' \in [List -> 0..MaxStray] /\ \A r \in List \ {q} : stray'[r] = stray[r]

\* A node that is in no list is linked into one, between two neighbours.
LEMMA NodeLinked ==
  ASSUME ListAssumption, ListsInv, NEW q \in List, NEW n \in Node, NEW i, NEW t, NEW p, NEW x, NEW l,
         Links(q, n, i, t, p, x, l)
  PROVE  ListsInv'
<1> USE DEF Links
<1> DEFINE s == view[q]
<1>0. p = Nth(s, i - 1) /\ x = Nth(s, i)
  OBVIOUS
<1>1. /\ 0 \notin Node /\ 0 \notin List /\ s \in Seq(Node) /\ IsInjective(s) /\ DOMAIN view = List
      /\ Len(s) \in Nat /\ DOMAIN s = 1..Len(s) /\ n \notin Range(s) /\ n \notin Linked(view)
      /\ \A r \in List \ {q} : Range(view[r]) \cap Range(s) = {}
      /\ \A m \in Node : m \in Range(s) => node[m].list = q
      /\ list[q].size = Len(s) + stray[q]
  <2>1. n \notin Linked(view)
    BY DEF ListsInv
  <2> QED BY <2>1, ListFacts
<1>2. /\ (p # 0 => p \in Node /\ p \in Range(s)) /\ (x # 0 => x \in Node /\ x \in Range(s))
  BY <1>0, <1>1, NthFacts
<1>3. Range(t) = Range(s) \cup {n} /\ IsInjective(t) /\ Len(t) = Len(s) + 1
  BY <1>1, InsertedNodes, SMTT(20) DEF Inserted
<1>4. /\ view' \in ListsOver(List, Node) /\ NoDup(view') /\ Linked(view') = Linked(view) \cup {n}
  <2>1. PushFacts(List, Node, view, q, n, [view EXCEPT ![q] = t])
    BY <1>1, <1>3, GrowLists DEF ListsInv
  <2> QED BY <2>1 DEF PushFacts
<1>5. list' \in [List -> ListRecord] /\ stray' \in [List -> 0..MaxStray]
  BY DEF ListsInv
<1>6. /\ list'[q] = l /\ view'[q] = t
      /\ \A r \in List \ {q} : list'[r] = list[r] /\ view'[r] = view[r]
  BY <1>1 DEF ListsInv
<1>7. Chain(list'[q], node', q, view'[q])
  <2>1. Chain(list[q], node, q, s)
    BY DEF ListsInv
  <2>2. Spliced(Node, node, node', q, n, Nth(s, i - 1), Nth(s, i))
    BY <1>0
  <2> QED BY <2>1, <2>2, <1>1, <1>6, ChainGrows
<1>8. ASSUME NEW r \in List \ {q} PROVE Chain(list'[r], node', r, view'[r])
  <2>1. Chain(list[r], node, r, view[r])
    BY DEF ListsInv
  <2>2. ASSUME NEW j \in DOMAIN view[r]
        PROVE  /\ node'[view[r][j]].list = node[view[r][j]].list
               /\ node'[view[r][j]].next = node[view[r][j]].next
               /\ node'[view[r][j]].prev = node[view[r][j]].prev
    <3>1. view[r][j] \in Range(view[r]) /\ view[r][j] \in Node
      <4>1. view[r] \in Seq(Node)
        BY DEF ListsInv, ListsOver
      <4> QED BY <4>1 DEF Range
    <3>2. view[r][j] \notin Range(s) /\ view[r][j] # n
      BY <3>1, <1>1 DEF Linked
    <3>3. view[r][j] \in Node \ {n} /\ view[r][j] # p /\ view[r][j] # x
      BY <3>1, <3>2, <1>1, <1>2
    <3> QED BY <3>3 DEF Spliced
  <2> QED BY <2>1, <2>2, <1>6, ChainStays
<1>9. \A m \in Node : /\ node'[m].list = (IF m = n THEN q ELSE node[m].list)
                      /\ m # n /\ m # p => node'[m].next = node[m].next
                      /\ m # n /\ m # x => node'[m].prev = node[m].prev
  BY DEF Spliced
<1>10. \A m \in Node : node'[m].list = 0 => node'[m].next = 0 /\ node'[m].prev = 0
  <2> SUFFICES ASSUME NEW m \in Node, node'[m].list = 0 PROVE node'[m].next = 0 /\ node'[m].prev = 0
    OBVIOUS
  <2>1. m # n /\ node[m].list = 0
    BY <1>1, <1>9
  <2>2. m # p /\ m # x
    BY <2>1, <1>1, <1>2
  <2> QED BY <2>1, <2>2, <1>9 DEF ListsInv
<1>11. \A m \in Node : node'[m].list = 0 <=> m \notin Linked(view')
  BY <1>1, <1>4, <1>9 DEF ListsInv
<1>12. SizeDrift'
  <2>1. list'[q].size = Len(view'[q]) + stray'[q]
    <3>1. PICK c \in Nat : c = Len(s)
      BY <1>1
    <3>2. PICK d \in Int : d = stray[q] /\ d = stray'[q]
      BY DEF ListsInv
    <3>3. list'[q].size = (c + d) + 1
      BY <3>1, <3>2, <1>1, <1>6
    <3>4. Len(view'[q]) = c + 1
      BY <3>1, <1>3, <1>6
    <3>5. (c + d) + 1 = (c + 1) + d
      OBVIOUS
    <3> QED BY <3>2, <3>3, <3>4, <3>5, Zenon
  <2>2. \A r \in List \ {q} : list'[r].size = Len(view'[r]) + stray'[r]
    BY <1>6 DEF ListsInv, SizeDrift
  <2> QED BY <2>1, <2>2 DEF SizeDrift
<1> QED BY <1>4, <1>5, <1>7, <1>8, <1>10, <1>11, <1>12 DEF ListsInv

\* A node is unlinked from the list it is in.
LEMMA NodeUnlinked ==
  ASSUME ListAssumption, ListsInv, NEW q \in List, NEW n, NEW k, NEW p, NEW x, NEW l,
         Unlinks(q, n, k, p, x, l)
  PROVE  ListsInv'
<1> USE DEF Unlinks
<1> DEFINE s == view[q]
           t == RemoveAt(s, k)
<1>0. n = s[k] /\ p = Nth(s, k - 1) /\ x = Nth(s, k + 1)
  OBVIOUS
<1>1. /\ 0 \notin Node /\ 0 \notin List /\ s \in Seq(Node) /\ IsInjective(s) /\ DOMAIN view = List
      /\ Len(s) \in Nat /\ DOMAIN s = 1..Len(s)
      /\ \A r \in List \ {q} : Range(view[r]) \cap Range(s) = {}
      /\ \A m \in Node : m \in Range(s) => node[m].list = q
  BY ListFacts
<1>2. n \in Range(s) /\ n \in Node
  BY <1>0, <1>1 DEF Range
<1>3. /\ (p # 0 => p \in Node /\ p \in Range(s)) /\ (x # 0 => x \in Node /\ x \in Range(s))
  BY <1>0, <1>1, NthFacts
<1>4. t \in Seq(Node) /\ Without(s, k, t)
  BY <1>1, RemoveAtFacts
<1>5. Range(t) = Range(s) \ {n} /\ IsInjective(t) /\ Len(t) = Len(s) - 1
  <2>1. RemoveFirst(s, n) = t
    <3>1. {i \in 1..Len(s) : s[i] = n} = {k}
      BY <1>0, <1>1 DEF IsInjective
    <3>2. Min({k}) = k
      BY <1>1 DEF Min
    <3> QED BY <3>1, <3>2 DEF RemoveFirst, SelectInSeq
  <2>2. /\ Range(RemoveFirst(s, n)) = Range(s) \ {n} /\ IsInjective(RemoveFirst(s, n))
    BY <1>1, CutNodes
  <2> QED BY <2>1, <2>2, <1>4 DEF Without
<1>6. /\ view' \in ListsOver(List, Node) /\ NoDup(view') /\ Linked(view') = Linked(view) \ {n}
  <2>1. RemoveFacts(List, Node, view, n, [view EXCEPT ![q] = t])
    <3> HIDE DEF t
    <3> QED BY <1>1, <1>2, <1>4, <1>5, ShrinkLists DEF ListsInv
  <2> QED BY <2>1 DEF RemoveFacts
<1>7. list' \in [List -> ListRecord]
  BY DEF ListsInv
<1>8. /\ list'[q] = l /\ view'[q] = t
      /\ \A r \in List \ {q} : list'[r] = list[r] /\ view'[r] = view[r]
  BY <1>1 DEF ListsInv
<1>9. Chain(list'[q], node', q, view'[q])
  <2>1. Chain(list[q], node, q, s)
    BY DEF ListsInv
  <2>2. Chain(l, node', q, t)
    <3>1. /\ l.head = (IF k = 1 THEN Nth(s, 2) ELSE list[q].head)
          /\ l.tail = (IF k = Len(s) THEN Nth(s, k - 1) ELSE list[q].tail)
          /\ Bridged(Node, node, node', s[k], Nth(s, k - 1), Nth(s, k + 1)) /\ k \in 1..Len(s)
      BY <1>0
    <3> HIDE DEF t, s
    <3> QED BY <2>1, <3>1, <1>1, <1>4, ChainShrinks
  <2> QED BY <2>2, <1>8
<1>10. \A m \in Node : /\ node'[m].list = (IF m = n THEN 0 ELSE node[m].list)
                       /\ m # n /\ m # p => node'[m].next = node[m].next
                       /\ m # n /\ m # x => node'[m].prev = node[m].prev
                       /\ m = n => node'[m].next = 0 /\ node'[m].prev = 0
  BY SMTT(20) DEF Bridged, NoNode
<1>11. ASSUME NEW r \in List \ {q} PROVE Chain(list'[r], node', r, view'[r])
  <2>1. Chain(list[r], node, r, view[r])
    BY DEF ListsInv
  <2>2. ASSUME NEW j \in DOMAIN view[r]
        PROVE  /\ node'[view[r][j]].list = node[view[r][j]].list
               /\ node'[view[r][j]].next = node[view[r][j]].next
               /\ node'[view[r][j]].prev = node[view[r][j]].prev
    <3>1. view[r][j] \in Range(view[r]) /\ view[r][j] \in Node
      <4>1. view[r] \in Seq(Node)
        BY DEF ListsInv, ListsOver
      <4> QED BY <4>1 DEF Range
    <3>2. view[r][j] \notin Range(s)
      BY <3>1, <1>1
    <3>3. view[r][j] \in Node /\ view[r][j] # n /\ view[r][j] # p /\ view[r][j] # x
      BY <3>1, <3>2, <1>1, <1>2, <1>3
    <3> QED BY <3>3, <1>10
  <2> QED BY <2>1, <2>2, <1>8, ChainStays
<1>12. \A m \in Node : node'[m].list = 0 => node'[m].next = 0 /\ node'[m].prev = 0
  <2> SUFFICES ASSUME NEW m \in Node, node'[m].list = 0, m # n PROVE node'[m].next = 0 /\ node'[m].prev = 0
    BY <1>10
  <2>1. node[m].list = 0
    BY <1>10
  <2>2. m # p /\ m # x
    BY <2>1, <1>1, <1>3
  <2> QED BY <2>1, <2>2, <1>10 DEF ListsInv
<1>13. \A m \in Node : node'[m].list = 0 <=> m \notin Linked(view')
  BY <1>6, <1>10 DEF ListsInv
<1>14. SizeDrift'
  <2>1. list'[q].size = Len(view'[q]) + stray'[q]
    BY <1>5, <1>8
  <2>2. \A r \in List \ {q} : list'[r].size = Len(view'[r]) + stray'[r]
    BY <1>8 DEF ListsInv, SizeDrift
  <2> QED BY <2>1, <2>2 DEF SizeDrift
<1> QED BY <1>6, <1>7, <1>9, <1>11, <1>12, <1>13, <1>14 DEF ListsInv

\* The ends of a list and the neighbours of its i-th node, as list.c finds them.
LEMMA ListEnds ==
  ASSUME ListAssumption, ListsInv, NEW q \in List
  PROVE  /\ list[q].head = Nth(view[q], 1) /\ list[q].tail = Nth(view[q], Len(view[q]))
         /\ Nth(view[q], 0) = 0 /\ Nth(view[q], Len(view[q]) + 1) = 0
         /\ list[q].head # 0 <=> Len(view[q]) > 0
         /\ list[q].tail # 0 <=> Len(view[q]) > 0
         /\ \A i \in 1..Len(view[q]) :
              /\ view[q][i] \in Node /\ Nth(view[q], i) = view[q][i]
              /\ node[view[q][i]].list = q
              /\ node[view[q][i]].next = Nth(view[q], i + 1)
              /\ node[view[q][i]].prev = Nth(view[q], i - 1)
         /\ \A j \in Int : Nth(view[q], j) \in {0} \cup Node
         /\ \A j \in Int : Nth(view[q], j) # 0 <=> 1 <= j /\ j <= Len(view[q])
         /\ \A j \in 1..Len(view[q]), k \in Int : Nth(view[q], j) = Nth(view[q], k) => j = k
<1> DEFINE s == view[q]
<1>1. 0 \notin Node /\ s \in Seq(Node) /\ IsInjective(s) /\ DOMAIN s = 1..Len(s) /\ Len(s) \in Nat
  BY ListFacts
<1>2. /\ \A j \in Int : Nth(s, j) = IF 1 <= j /\ j <= Len(s) THEN s[j] ELSE 0
      /\ \A j \in Int : Nth(s, j) # 0 <=> 1 <= j /\ j <= Len(s)
      /\ \A j \in Int : Nth(s, j) # 0 => Nth(s, j) \in Node /\ Nth(s, j) \in Range(s)
      /\ \A j \in 1..Len(s), k \in Int : Nth(s, j) = Nth(s, k) => j = k
  BY <1>1, NthFacts
<1>3. Chain(list[q], node, q, s)
  BY DEF ListsInv
<1> HIDE DEF s
<1>4. list[q].head = Nth(s, 1) /\ list[q].tail = Nth(s, Len(s))
  BY <1>3 DEF Chain
<1>5. Nth(s, 0) = 0 /\ Nth(s, Len(s) + 1) = 0
  BY <1>1, <1>2
<1>6. (list[q].head # 0 <=> Len(s) > 0) /\ (list[q].tail # 0 <=> Len(s) > 0)
  BY <1>1, <1>2, <1>4
<1>7. \A i \in 1..Len(s) : /\ s[i] \in Node /\ Nth(s, i) = s[i] /\ node[s[i]].list = q
                           /\ node[s[i]].next = Nth(s, i + 1) /\ node[s[i]].prev = Nth(s, i - 1)
  <2> SUFFICES ASSUME NEW i \in 1..Len(s)
               PROVE  /\ s[i] \in Node /\ Nth(s, i) = s[i] /\ node[s[i]].list = q
                      /\ node[s[i]].next = Nth(s, i + 1) /\ node[s[i]].prev = Nth(s, i - 1)
    OBVIOUS
  <2>1. s[i] \in Node /\ Nth(s, i) = s[i]
    BY <1>1 DEF Nth
  <2> QED BY <2>1, <1>1, <1>3 DEF Chain
<1>8. \A j \in Int : Nth(s, j) \in {0} \cup Node
  BY <1>2
<1> QED BY <1>2, <1>4, <1>5, <1>6, <1>7, <1>8 DEF s

\* list_push_tail, also as list_push_priority calls it.
LEMMA TailPushed ==
  ASSUME ListAssumption, ListsInv, NEW q \in List, NEW n \in Node, node[n].list = 0,
         PushedTail(q, n), UNCHANGED stray
  PROVE  ListsInv'
<1> DEFINE s == view[q]
           p == list[q].tail
           t == Append(s, n)
           i == Len(s) + 1
           l == [head |-> IF list[q].head = 0 THEN n ELSE list[q].head, tail |-> n, size |-> list[q].size + 1]
           nr == [next |-> 0, prev |-> p, list |-> q, priority |-> 0]
<1>1. /\ s \in Seq(Node) /\ Len(s) \in Nat /\ list[q] \in ListRecord /\ list[q].size \in Int /\ DOMAIN s = 1..Len(s)
      /\ list \in [List -> ListRecord] /\ node \in [Node -> NodeRecord] /\ DOMAIN view = List
  BY ListFacts DEF ListsInv, ListRecord
<1>2. /\ p = Nth(s, Len(s)) /\ p \in {0} \cup Node /\ Nth(s, i) = 0 /\ (list[q].head = 0 <=> Len(s) = 0)
      /\ Nth(s, i - 1) = p /\ p # n /\ 0 \notin Node
  <2>1. p = Nth(s, Len(s)) /\ p \in {0} \cup Node /\ Nth(s, i) = 0 /\ (list[q].head = 0 <=> Len(s) = 0)
    BY <1>1, ListEnds
  <2>2. i - 1 = Len(s)
    BY <1>1
  <2>3. 0 \notin Node /\ 0 \notin List
    BY ListFacts
  <2>4. ASSUME p = n PROVE FALSE
    <3>1. Len(s) \in 1..Len(s)
      BY <1>1, <2>1, <2>3, <2>4, ListEnds
    <3>2. p = s[Len(s)] /\ node[p].list = q
      BY <3>1, <2>1, ListEnds
    <3> QED BY <3>2, <2>3, <2>4
  <2> QED BY <2>1, <2>2, <2>3, <2>4
<1>3. t \in Seq(Node) /\ Inserted(s, i, n, t)
  <2>1. /\ t \in Seq(Node) /\ Len(t) = Len(s) + 1 /\ DOMAIN t = 1..(Len(s) + 1) /\ t[Len(s) + 1] = n
        /\ \A j \in 1..Len(s) : t[j] = s[j]
    BY <1>1
  <2> HIDE DEF t
  <2> QED BY <2>1, <1>1 DEF Inserted
<1>4. list' = [list EXCEPT ![q] = l] /\ view' = [view EXCEPT ![q] = t]
  BY DEF PushedTail, PushTail
<1>5. l \in ListRecord
  BY <1>1 DEF ListRecord
<1>6. node' = SetNext([node EXCEPT ![n] = nr], p, n) /\ nr \in NodeRecord
  BY <1>2 DEF PushedTail, NodeRecord
<1> HIDE DEF l, t, nr
<1>7. node' \in [Node -> NodeRecord]
  <2>1. [node EXCEPT ![n] = nr] \in [Node -> NodeRecord]
    BY <1>1, <1>6
  <2> QED BY <2>1, <1>2, <1>6 DEF SetNext, NodeRecord
<1>8. Spliced(Node, node, node', q, n, p, 0)
  <2>1. node'[n] = nr
    BY <1>1, <1>2, <1>6 DEF SetNext
  <2>2. \A m \in Node \ {n} : node'[m] = IF m = p THEN [node[m] EXCEPT !.next = n] ELSE node[m]
    BY <1>1, <1>2, <1>6 DEF SetNext
  <2>3. nr.list = q /\ nr.next = 0 /\ nr.prev = p
    BY DEF nr
  <2>4. ASSUME NEW m \in Node \ {n}
        PROVE  /\ node'[m].list = node[m].list /\ node'[m].prev = node[m].prev
               /\ node'[m].next = IF m = p THEN n ELSE node[m].next
    <3>1. node[m] \in NodeRecord
      BY <1>1
    <3> QED BY <2>2, <2>4, <3>1 DEF NodeRecord
  <2>5. \A m \in Node \ {n} : m # 0
    BY <1>2
  <2> HIDE DEF p
  <2> QED BY <2>1, <2>3, <2>4, <2>5 DEF Spliced
<1>9. /\ l.head = IF i = 1 THEN n ELSE list[q].head
      /\ l.tail = IF i = Len(s) + 1 THEN n ELSE list[q].tail
      /\ l.size = list[q].size + 1 /\ i \in 1..(Len(s) + 1)
  BY <1>1, <1>2 DEF l
<1>10. p = Nth(s, i - 1) /\ 0 = Nth(s, i)
  BY <1>2
<1>11. stray' = stray /\ i \in 1..(Len(s) + 1)
  BY <1>9
<1>12. Links(q, n, i, t, p, 0, l)
  BY <1>3, <1>4, <1>5, <1>7, <1>8, <1>9, <1>10, <1>11 DEF Links
<1> HIDE DEF i, p
<1> QED BY <1>12, NodeLinked

\* list_push_head.
LEMMA PushHeadLists ==
  ASSUME ListAssumption, ListsInv, NEW q \in List, NEW n \in Node, list_push_head(q, n)
  PROVE  ListsInv'
<1> DEFINE s == view[q]
           x == list[q].head
           t == <<n>> \o s
           l == [head |-> n, tail |-> IF list[q].tail = 0 THEN n ELSE list[q].tail, size |-> list[q].size + 1]
           nr == [next |-> x, prev |-> 0, list |-> q, priority |-> 0]
<1>0. node[n].list = 0 /\ stray' = stray
  BY DEF list_push_head
<1>1. /\ s \in Seq(Node) /\ Len(s) \in Nat /\ list[q] \in ListRecord /\ list[q].size \in Int /\ DOMAIN s = 1..Len(s)
      /\ list \in [List -> ListRecord] /\ node \in [Node -> NodeRecord] /\ DOMAIN view = List
  BY ListFacts DEF ListsInv, ListRecord
<1>2. /\ x = Nth(s, 1) /\ x \in {0} \cup Node /\ Nth(s, 0) = 0 /\ (list[q].tail = 0 <=> Len(s) = 0)
      /\ x # n /\ 0 \notin Node
  <2>1. x = Nth(s, 1) /\ x \in {0} \cup Node /\ Nth(s, 0) = 0 /\ (list[q].tail = 0 <=> Len(s) = 0)
    BY <1>1, ListEnds
  <2>3. 0 \notin Node /\ 0 \notin List
    BY ListFacts
  <2>4. ASSUME x = n PROVE FALSE
    <3>1. 1 \in 1..Len(s)
      BY <1>1, <2>1, <2>3, <2>4, ListEnds
    <3>2. x = s[1] /\ node[x].list = q
      BY <3>1, <2>1, ListEnds
    <3> QED BY <3>2, <2>3, <2>4, <1>0
  <2> QED BY <2>1, <2>3, <2>4
<1>3. t \in Seq(Node) /\ Inserted(s, 1, n, t)
  <2> DEFINE u == <<n>>
  <2>1. u \in Seq(Node) /\ Len(u) = 1 /\ u[1] = n
    OBVIOUS
  <2>2. /\ u \o s \in Seq(Node) /\ Len(u \o s) = Len(u) + Len(s)
        /\ \A j \in 1..(Len(u) + Len(s)) : (u \o s)[j] = IF j <= Len(u) THEN u[j] ELSE s[j - Len(u)]
    <3> HIDE DEF u
    <3> QED BY <1>1, <2>1, ConcatProperties
  <2>3. t = u \o s
    OBVIOUS
  <2> HIDE DEF u, t
  <2>4. /\ t \in Seq(Node) /\ Len(t) = Len(s) + 1
        /\ \A j \in 1..(Len(s) + 1) : t[j] = IF j <= 1 THEN u[j] ELSE s[j - 1]
    BY <1>1, <2>1, <2>2, <2>3
  <2>5. DOMAIN t = 1..(Len(s) + 1)
    BY <2>4
  <2> QED BY <2>1, <2>4, <2>5, <1>1 DEF Inserted
<1>4. list' = [list EXCEPT ![q] = l] /\ view' = [view EXCEPT ![q] = t]
  BY DEF list_push_head
<1>5. l \in ListRecord
  BY <1>1 DEF ListRecord
<1>6. node' = SetPrev([node EXCEPT ![n] = nr], x, n) /\ nr \in NodeRecord
  BY <1>2 DEF list_push_head, PushedHead, NodeRecord
<1> HIDE DEF l, t, nr
<1>7. node' \in [Node -> NodeRecord]
  <2>1. [node EXCEPT ![n] = nr] \in [Node -> NodeRecord]
    BY <1>1, <1>6
  <2> QED BY <2>1, <1>2, <1>6 DEF SetPrev, NodeRecord
<1>8. Spliced(Node, node, node', q, n, 0, x)
  <2>1. node'[n] = nr
    BY <1>1, <1>2, <1>6 DEF SetPrev
  <2>2. \A m \in Node \ {n} : node'[m] = IF m = x THEN [node[m] EXCEPT !.prev = n] ELSE node[m]
    BY <1>1, <1>2, <1>6 DEF SetPrev
  <2>3. nr.list = q /\ nr.next = x /\ nr.prev = 0
    BY DEF nr
  <2>4. ASSUME NEW m \in Node \ {n}
        PROVE  /\ node'[m].list = node[m].list /\ node'[m].next = node[m].next
               /\ node'[m].prev = IF m = x THEN n ELSE node[m].prev
    <3>1. node[m] \in NodeRecord
      BY <1>1
    <3> QED BY <2>2, <2>4, <3>1 DEF NodeRecord
  <2>5. \A m \in Node \ {n} : m # 0
    BY <1>2
  <2> HIDE DEF x
  <2> QED BY <2>1, <2>3, <2>4, <2>5 DEF Spliced
<1>9. /\ l.head = IF 1 = 1 THEN n ELSE list[q].head
      /\ l.tail = IF 1 = Len(s) + 1 THEN n ELSE list[q].tail
      /\ l.size = list[q].size + 1 /\ 1 \in 1..(Len(s) + 1)
  BY <1>1, <1>2 DEF l
<1>10. 0 = Nth(s, 1 - 1) /\ x = Nth(s, 1)
  BY <1>2
<1>11. Links(q, n, 1, t, 0, x, l)
  BY <1>0, <1>3, <1>4, <1>5, <1>7, <1>8, <1>9, <1>10 DEF Links
<1> HIDE DEF x
<1> QED BY <1>11, NodeLinked

\* list_push_priority.
LEMMA PushPriorityLists ==
  ASSUME ListAssumption, ListsInv, NEW q \in List, NEW n \in Node, NEW pri \in Priority,
         list_push_priority(q, n, pri)
  PROVE  ListsInv'
<1>0. node[n].list = 0 /\ stray' = stray
  BY DEF list_push_priority
<1>1. CASE Lower(q, pri) = {}
  <2>1. PushedTail(q, n)
    BY <1>1 DEF list_push_priority
  <2> QED BY <1>0, <2>1, TailPushed
<1>2. CASE Lower(q, pri) # {}
  <2> DEFINE s == view[q]
             i == Min(Lower(q, pri))
             m == s[i]
             p == node[m].prev
             t == InsertAt(s, i, n)
             l == [list[q] EXCEPT !.head = IF p = 0 THEN n ELSE @, !.size = @ + 1]
             nr == [next |-> m, prev |-> p, list |-> q, priority |-> pri]
  <2>1. /\ s \in Seq(Node) /\ Len(s) \in Nat /\ list[q] \in ListRecord /\ list[q].size \in Int
        /\ DOMAIN s = 1..Len(s) /\ list \in [List -> ListRecord] /\ node \in [Node -> NodeRecord]
        /\ DOMAIN view = List
    BY ListFacts DEF ListsInv, ListRecord
  <2>2. i \in 1..Len(s)
    <3>1. Lower(q, pri) \in SUBSET Nat /\ Lower(q, pri) \subseteq 1..Len(s)
      BY <2>1 DEF Lower
    <3>2. i \in Lower(q, pri)
      BY <3>1, <1>2, MinIn
    <3> QED BY <3>1, <3>2
  <2>3. /\ node' = [SetNext(node, p, n) EXCEPT ![m].prev = n, ![n] = nr]
        /\ list' = [list EXCEPT ![q] = l] /\ view' = [view EXCEPT ![q] = t]
    <3>1. i = CHOOSE x \in Lower(q, pri) : \A j \in Lower(q, pri) : x <= j
      BY DEF Min
    <3> HIDE DEF i
    <3> QED BY <1>2, <3>1, <2>1 DEF list_push_priority
  <2> HIDE DEF i
  <2>4. /\ 0 \notin Node /\ m \in Node /\ m = Nth(s, i) /\ m # n /\ node[m].list = q
        /\ p = Nth(s, i - 1) /\ p \in {0} \cup Node /\ p # m /\ (p = 0 <=> i = 1)
    <3>1. /\ m \in Node /\ m = Nth(s, i) /\ node[m].list = q /\ p = Nth(s, i - 1)
      BY <2>2, ListEnds
    <3>2. 0 \notin Node /\ 0 \notin List
      BY ListFacts
    <3>3. i - 1 \in Int /\ i \in Int /\ i - 1 # i /\ (1 <= i - 1 /\ i - 1 <= Len(s) <=> i # 1)
      BY <2>1, <2>2
    <3>4. p \in {0} \cup Node /\ (p # 0 <=> i # 1) /\ p # m
      <4>1. /\ Nth(view[q], i - 1) \in {0} \cup Node
            /\ Nth(view[q], i - 1) # 0 <=> 1 <= i - 1 /\ i - 1 <= Len(view[q])
            /\ Nth(view[q], i) = Nth(view[q], i - 1) => i = i - 1
        BY <3>3, <2>2, ListEnds
      <4> QED BY <4>1, <3>1, <3>3
    <3> QED BY <1>0, <3>1, <3>2, <3>4
  <2>5. p # n
    <3>1. CASE p = 0
      BY <3>1, <2>4
    <3>2. CASE p # 0
      <4>1. i - 1 \in 1..Len(s)
        BY <3>2, <2>1, <2>2, <2>4
      <4>2. node[p].list = q
        BY <4>1, <2>4, ListEnds
      <4> QED BY <4>2, <1>0, ListFacts
    <3> QED BY <3>1, <3>2
  <2>6. t \in Seq(Node) /\ Inserted(s, i, n, t)
    BY <2>1, <2>2, InsertAtFacts
  <2>7. nr \in NodeRecord /\ nr.list = q /\ nr.next = m /\ nr.prev = p
    BY <2>4 DEF NodeRecord
  <2>8. l \in ListRecord /\ l.head = (IF i = 1 THEN n ELSE list[q].head) /\ l.tail = list[q].tail
        /\ l.size = list[q].size + 1
    <3> DEFINE r == list[q]
               h == IF p = 0 THEN n ELSE r.head
    <3>1. r \in ListRecord /\ r.size + 1 \in Int /\ h \in {0} \cup Node
      BY <2>1 DEF ListRecord
    <3>2. l = [r EXCEPT !.head = h, !.size = r.size + 1]
      OBVIOUS
    <3> HIDE DEF r, h, l
    <3>3. l \in ListRecord /\ l.head = h /\ l.tail = r.tail /\ l.size = r.size + 1
      BY <3>1, <3>2 DEF ListRecord
    <3> QED BY <2>4, <3>3 DEF r, h
  <2> HIDE DEF t, nr, l, m, p
  <2>9. node' \in [Node -> NodeRecord] /\ Spliced(Node, node, node', q, n, p, m)
    <3> DEFINE a == SetNext(node, p, n)
               b == [a EXCEPT ![m].prev = n]
    <3>1. /\ a \in [Node -> NodeRecord]
          /\ \A x \in Node : a[x] = IF x = p THEN [node[x] EXCEPT !.next = n] ELSE node[x]
      BY <2>1, <2>4, SMTT(20) DEF SetNext, NodeRecord
    <3> HIDE DEF a
    <3>2. /\ b \in [Node -> NodeRecord]
          /\ \A x \in Node : b[x] = IF x = m THEN [a[x] EXCEPT !.prev = n] ELSE a[x]
      BY <2>4, <3>1 DEF NodeRecord
    <3>3. node' = [b EXCEPT ![n] = nr]
      BY <2>3 DEF a
    <3> HIDE DEF b
    <3>4. node' \in [Node -> NodeRecord] /\ node'[n] = nr /\ \A x \in Node \ {n} : node'[x] = b[x]
      BY <2>7, <3>2, <3>3
    <3>5. ASSUME NEW x \in Node \ {n}
          PROVE  /\ node'[x].list = node[x].list
                 /\ node'[x].next = IF x = p THEN n ELSE node[x].next
                 /\ node'[x].prev = IF x = m THEN n ELSE node[x].prev
      <4>1. node[x] \in NodeRecord /\ a[x] \in NodeRecord
        BY <2>1, <3>1
      <4>2. a[x].list = node[x].list /\ a[x].prev = node[x].prev
            /\ a[x].next = IF x = p THEN n ELSE node[x].next
        BY <4>1, <3>1 DEF NodeRecord
      <4>3. b[x].list = a[x].list /\ b[x].next = a[x].next
            /\ b[x].prev = IF x = m THEN n ELSE a[x].prev
        BY <4>1, <3>2 DEF NodeRecord
      <4> QED BY <4>2, <4>3, <3>4
    <3> QED BY <2>7, <3>4, <3>5 DEF Spliced
  <2>10. Links(q, n, i, t, p, m, l)
    <3>1. i \in 1..(Len(s) + 1) /\ i # Len(s) + 1
      BY <2>1, <2>2
    <3> QED BY <1>0, <2>3, <2>4, <2>6, <2>8, <2>9, <3>1 DEF Links
  <2> QED BY <2>10, NodeLinked
<1> QED BY <1>1, <1>2

-----------------------------------------------------------------------------
(* Unlinking *)

\* Counting.
LEMMA OneOrMore ==
  ASSUME NEW c \in Int, c >= 1
  PROVE  /\ (c # 1 => 2 <= c) /\ (c = 1 => ~(2 <= c))
         /\ (c # 1 => 1 <= c - 1 /\ c - 1 <= c) /\ (c = 1 => ~(1 <= c - 1))
<1>1. c # 1 => 2 <= c /\ 1 <= c - 1 /\ c - 1 <= c
  OBVIOUS
<1>2. ASSUME c = 1 PROVE ~(2 <= c) /\ ~(1 <= c - 1)
  BY <1>2
<1> QED BY <1>1, <1>2

\* The first node of a list goes.
LEMMA HeadPopped ==
  ASSUME ListAssumption, ListsInv, NEW q \in List, list[q].head # 0, PoppedHead(q), stray' = stray,
         view' = [view EXCEPT ![q] = RemoveAt(view[q], 1)]
  PROVE  ListsInv'
<1> DEFINE s == view[q]
           n == list[q].head
           x == node[n].next
           nr == [NoNode EXCEPT !.priority = node[n].priority]
           l == [head |-> x, tail |-> IF x = 0 THEN 0 ELSE list[q].tail, size |-> list[q].size - 1]
<1>1. /\ s \in Seq(Node) /\ Len(s) \in Nat /\ list[q] \in ListRecord /\ list[q].size \in Int
      /\ list[q].size = Len(s) + stray[q] /\ stray[q] \in Int /\ stray \in [List -> 0..MaxStray]
      /\ list \in [List -> ListRecord] /\ node \in [Node -> NodeRecord]
  BY ListFacts DEF ListsInv, ListRecord
<1>2. 1 \in 1..Len(s)
  BY <1>1, ListEnds
<1>3. /\ n = s[1] /\ n \in Node /\ Nth(s, 0) = 0 /\ x = Nth(s, 2) /\ x \in {0} \cup Node
      /\ (x = 0 <=> Len(s) = 1) /\ x # n /\ 0 \notin Node
  <2>1. /\ n = Nth(s, 1) /\ Nth(s, 0) = 0 /\ s[1] \in Node /\ Nth(s, 1) = s[1] /\ node[s[1]].next = Nth(s, 1 + 1)
    BY <1>2, ListEnds
  <2>2. /\ Nth(s, 2) \in {0} \cup Node /\ (Nth(s, 2) # 0 <=> 1 <= 2 /\ 2 <= Len(s))
        /\ Nth(s, 1) # Nth(s, 2)
    BY <1>2, ListEnds
  <2>3. 1 + 1 = 2 /\ (Len(s) # 1 => 2 <= Len(s)) /\ (Len(s) = 1 => ~(2 <= Len(s)))
    <3>1. PICK c \in Int : c = Len(s) /\ c >= 1
      BY <1>1, <1>2
    <3>2. (c # 1 => 2 <= c) /\ (c = 1 => ~(2 <= c))
      BY <3>1, OneOrMore
    <3> QED BY <3>1, <3>2
  <2>4. 1 <= 2
    OBVIOUS
  <2>5. 0 \notin Node
    BY ListFacts
  <2> HIDE DEF s
  <2> QED BY <2>1, <2>2, <2>3, <2>4, <2>5
<1>4. node' = SetPrev([node EXCEPT ![n] = nr], x, 0) /\ list' = [list EXCEPT ![q] = l]
  BY DEF PoppedHead
<1>5. nr \in NodeRecord
  <2>1. node[n] \in NodeRecord
    BY <1>1, <1>3
  <2> QED BY <2>1 DEF NodeRecord, NoNode
<1>6. l \in ListRecord /\ l.head = x /\ l.tail = (IF 1 = Len(s) THEN 0 ELSE list[q].tail)
      /\ l.size = (Len(s) - 1) + stray'[q]
  BY <1>1, <1>3 DEF ListRecord
<1> HIDE DEF nr, l
<1>7. node' \in [Node -> NodeRecord] /\ node'[n] = nr
      /\ \A m \in Node \ {n} : node'[m] = IF m = x THEN [node[m] EXCEPT !.prev = 0] ELSE node[m]
  <2>1. [node EXCEPT ![n] = nr] \in [Node -> NodeRecord]
    BY <1>1, <1>5
  <2>2. node' \in [Node -> NodeRecord]
    BY <2>1, <1>3, <1>4 DEF SetPrev, NodeRecord
  <2>3. node'[n] = nr
    BY <1>1, <1>3, <1>4 DEF SetPrev
  <2>4. \A m \in Node \ {n} : node'[m] = IF m = x THEN [node[m] EXCEPT !.prev = 0] ELSE node[m]
    BY <1>1, <1>3, <1>4 DEF SetPrev
  <2> QED BY <2>2, <2>3, <2>4
<1>8. Bridged(Node, node, node', n, 0, x)
  <2> SUFFICES ASSUME NEW m \in Node \ {n}
               PROVE  /\ node'[m].list = node[m].list /\ node'[m].next = node[m].next
                      /\ node'[m].prev = IF m = x THEN 0 ELSE node[m].prev
    BY <1>3 DEF Bridged
  <2>1. node[m] \in NodeRecord
    BY <1>1
  <2> QED BY <2>1, <1>7 DEF NodeRecord
<1>9. 0 = Nth(s, 1 - 1) /\ x = Nth(s, 1 + 1)
  BY <1>3
<1>10. stray' \in [List -> 0..MaxStray] /\ stray' = stray
  BY <1>1
<1>11. Unlinks(q, n, 1, 0, x, l)
  BY <1>2, <1>3, <1>4, <1>6, <1>7, <1>8, <1>9, <1>10 DEF Unlinks, nr
<1> QED BY <1>11, NodeUnlinked

\* The last one goes.
LEMMA TailPopped ==
  ASSUME ListAssumption, ListsInv, NEW q \in List, list[q].tail # 0, PoppedTail(q), stray' = stray,
         view' = [view EXCEPT ![q] = RemoveAt(view[q], Len(view[q]))]
  PROVE  ListsInv'
<1> DEFINE s == view[q]
           k == Len(s)
           n == list[q].tail
           p == node[n].prev
           nr == [NoNode EXCEPT !.priority = node[n].priority]
           l == [head |-> IF p = 0 THEN 0 ELSE list[q].head, tail |-> p, size |-> list[q].size - 1]
<1>1. /\ s \in Seq(Node) /\ Len(s) \in Nat /\ list[q] \in ListRecord /\ list[q].size \in Int
      /\ list[q].size = Len(s) + stray[q] /\ stray[q] \in Int /\ stray \in [List -> 0..MaxStray]
      /\ list \in [List -> ListRecord] /\ node \in [Node -> NodeRecord]
  BY ListFacts DEF ListsInv, ListRecord
<1>2. k \in 1..Len(s) /\ k \in Nat /\ k >= 1
  BY <1>1, ListEnds
<1>3. /\ n = s[k] /\ n \in Node /\ Nth(s, k + 1) = 0 /\ p = Nth(s, k - 1) /\ p \in {0} \cup Node
      /\ (p = 0 <=> k = 1) /\ p # n /\ 0 \notin Node
  <2>1. /\ n = Nth(s, k) /\ Nth(s, k + 1) = 0 /\ s[k] \in Node /\ Nth(s, k) = s[k] /\ node[s[k]].prev = Nth(s, k - 1)
    BY <1>2, ListEnds
  <2>2. k - 1 \in Int /\ k - 1 # k
    BY <1>2
  <2>3. /\ Nth(s, k - 1) \in {0} \cup Node /\ (Nth(s, k - 1) # 0 <=> 1 <= k - 1 /\ k - 1 <= Len(s))
        /\ Nth(s, k) # Nth(s, k - 1)
    BY <1>2, <2>2, ListEnds
  <2>4. (k # 1 => 1 <= k - 1 /\ k - 1 <= Len(s)) /\ (k = 1 => ~(1 <= k - 1))
    <3>1. PICK c \in Int : c = k /\ c >= 1
      BY <1>2
    <3>2. (c # 1 => 1 <= c - 1 /\ c - 1 <= c) /\ (c = 1 => ~(1 <= c - 1))
      BY <3>1, OneOrMore
    <3> QED BY <3>1, <3>2
  <2>5. 0 \notin Node
    BY ListFacts
  <2> HIDE DEF s, k
  <2> QED BY <2>1, <2>3, <2>4, <2>5
<1>4. node' = SetNext([node EXCEPT ![n] = nr], p, 0) /\ list' = [list EXCEPT ![q] = l]
  BY DEF PoppedTail
<1>5. nr \in NodeRecord
  <2>1. node[n] \in NodeRecord
    BY <1>1, <1>3
  <2> QED BY <2>1 DEF NodeRecord, NoNode
<1>6. l \in ListRecord /\ l.tail = p /\ l.head = (IF k = 1 THEN 0 ELSE list[q].head)
      /\ l.size = (Len(s) - 1) + stray'[q]
  BY <1>1, <1>3 DEF ListRecord
<1> HIDE DEF nr, l
<1>7. node' \in [Node -> NodeRecord] /\ node'[n] = nr
      /\ \A m \in Node \ {n} : node'[m] = IF m = p THEN [node[m] EXCEPT !.next = 0] ELSE node[m]
  <2>1. [node EXCEPT ![n] = nr] \in [Node -> NodeRecord]
    BY <1>1, <1>5
  <2>2. node' \in [Node -> NodeRecord]
    BY <2>1, <1>3, <1>4 DEF SetNext, NodeRecord
  <2>3. node'[n] = nr
    BY <1>1, <1>3, <1>4 DEF SetNext
  <2>4. \A m \in Node \ {n} : node'[m] = IF m = p THEN [node[m] EXCEPT !.next = 0] ELSE node[m]
    BY <1>1, <1>3, <1>4 DEF SetNext
  <2> QED BY <2>2, <2>3, <2>4
<1>8. Bridged(Node, node, node', n, p, 0)
  <2> SUFFICES ASSUME NEW m \in Node \ {n}
               PROVE  /\ node'[m].list = node[m].list /\ node'[m].prev = node[m].prev
                      /\ node'[m].next = IF m = p THEN 0 ELSE node[m].next
    BY <1>3 DEF Bridged
  <2>1. node[m] \in NodeRecord
    BY <1>1
  <2> QED BY <2>1, <1>7 DEF NodeRecord
<1>9. p = Nth(s, k - 1) /\ 0 = Nth(s, k + 1)
  BY <1>3
<1>10. stray' \in [List -> 0..MaxStray] /\ stray' = stray
  BY <1>1
<1>11. Unlinks(q, n, k, p, 0, l)
  BY <1>2, <1>3, <1>4, <1>6, <1>7, <1>8, <1>9, <1>10 DEF Unlinks, nr
<1> QED BY <1>11, NodeUnlinked

\* What is left of a list without its first or its last node.
LEMMA TailFront ==
  ASSUME NEW S, NEW s \in Seq(S), Len(s) > 0
  PROVE  Tail(s) = RemoveAt(s, 1) /\ Front(s) = RemoveAt(s, Len(s))
<1>1. PICK c \in Nat : c = Len(s) /\ c > 0
  OBVIOUS
<1>2. s # << >>
  BY <1>1
<1>3. Tail(s) = RemoveAt(s, 1)
  <2>1. /\ RemoveAt(s, 1) \in Seq(S) /\ Len(RemoveAt(s, 1)) = c - 1
        /\ \A j \in 1..(c - 1) : RemoveAt(s, 1)[j] = s[j + 1]
    <3>1. 1 \in 1..Len(s) /\ \A j \in 1..(c - 1) : ~(j < 1)
      BY <1>1
    <3>2. RemoveAt(s, 1) \in Seq(S) /\ Without(s, 1, RemoveAt(s, 1))
      BY <3>1, RemoveAtFacts
    <3> QED BY <1>1, <3>1, <3>2 DEF Without
  <2>2. /\ Tail(s) \in Seq(S) /\ Len(Tail(s)) = c - 1 /\ \A j \in 1..(c - 1) : Tail(s)[j] = s[j + 1]
    BY <1>1, <1>2, HeadTailProperties
  <2> QED BY <2>1, <2>2, SeqEqual
<1>4. Front(s) = RemoveAt(s, c)
  <2>1. /\ RemoveAt(s, c) \in Seq(S) /\ Len(RemoveAt(s, c)) = c - 1
        /\ \A j \in 1..(c - 1) : RemoveAt(s, c)[j] = s[j]
    <3>1. c \in 1..Len(s) /\ \A j \in 1..(c - 1) : j < c
      BY <1>1
    <3>2. RemoveAt(s, c) \in Seq(S) /\ Without(s, c, RemoveAt(s, c))
      BY <3>1, RemoveAtFacts
    <3> QED BY <1>1, <3>1, <3>2 DEF Without
  <2>2. /\ Front(s) \in Seq(S) /\ Len(Front(s)) = c - 1 /\ \A j \in 1..(c - 1) : Front(s)[j] = s[j]
    <3>1. 1 \in Int /\ c - 1 \in Int /\ (\A j \in 1..(c - 1) : s[j] \in S)
      BY <1>1
    <3>2. (IF 1 <= c - 1 THEN (c - 1) - 1 + 1 ELSE 0) = c - 1 /\ (c - 1) - 1 + 1 = c - 1
      BY <1>1
    <3>3. \A j \in 1..(c - 1) : 1 + j - 1 = j
      OBVIOUS
    <3> QED BY <1>1, <3>1, <3>2, <3>3, SubSeqProperties DEF Front
  <2> QED BY <2>1, <2>2, SeqEqual
<1> QED BY <1>1, <1>3, <1>4

\* list_pop_head and list_pop_tail.
LEMMA EndPopped ==
  ASSUME ListAssumption, ListsInv, NEW q \in List, list_pop_head(q) \/ list_pop_tail(q)
  PROVE  ListsInv'
<1> DEFINE s == view[q]
<1>1. s \in Seq(Node) /\ Len(s) \in Nat /\ DOMAIN view = List
  BY ListFacts
<1>2. CASE list_pop_head(q)
  <2>1. /\ list[q].head # 0 /\ PoppedHead(q) /\ stray' = stray /\ view' = [view EXCEPT ![q] = Tail(s)]
    BY <1>2 DEF list_pop_head, PopHead
  <2>2. Len(s) > 0
    BY <2>1, ListEnds
  <2>3. view' = [view EXCEPT ![q] = RemoveAt(s, 1)]
    BY <1>1, <2>1, <2>2, TailFront
  <2> QED BY <2>1, <2>3, HeadPopped
<1>3. CASE list_pop_tail(q)
  <2>1. /\ list[q].tail # 0 /\ PoppedTail(q) /\ stray' = stray /\ view' = [view EXCEPT ![q] = Front(s)]
    BY <1>3 DEF list_pop_tail
  <2>2. Len(s) > 0
    BY <2>1, ListEnds
  <2>3. view' = [view EXCEPT ![q] = RemoveAt(s, Len(s))]
    BY <1>1, <2>1, <2>2, TailFront
  <2> QED BY <2>1, <2>3, TailPopped
<1> QED BY <1>2, <1>3

\* The last branch of list_remove: the node has neighbours on both sides.
LEMMA InnerRemoved ==
  ASSUME ListAssumption, ListsInv, NEW q \in List, NEW k \in 1..Len(view[q]), NEW n, n = view[q][k],
         list[q].head # n, list[q].tail # n, stray[q] < MaxStray, RemovedInner(q, n),
         view' = [view EXCEPT ![q] = RemoveAt(view[q], k)]
  PROVE  ListsInv'
<1> DEFINE s == view[q]
           p == node[n].prev
           x == node[n].next
           nr == [NoNode EXCEPT !.priority = node[n].priority]
<1>1. /\ s \in Seq(Node) /\ Len(s) \in Nat /\ list[q] \in ListRecord /\ list[q].size \in Int
      /\ list[q].size = Len(s) + stray[q] /\ stray[q] \in 0..MaxStray /\ stray \in [List -> 0..MaxStray]
      /\ list \in [List -> ListRecord] /\ node \in [Node -> NodeRecord] /\ MaxStray \in Nat /\ 0 \notin Node
  BY ListFacts DEF ListsInv, ListRecord
<1>2. /\ n \in Node /\ n = Nth(s, k) /\ x = Nth(s, k + 1) /\ p = Nth(s, k - 1)
      /\ list[q].head = Nth(s, 1) /\ list[q].tail = Nth(s, Len(s))
  BY ListEnds
<1>3. k # 1 /\ k # Len(s)
  BY <1>2
<1>4. /\ k + 1 \in 1..Len(s) /\ k - 1 \in 1..Len(s) /\ k \in Int
      /\ k + 1 # k /\ k - 1 # k /\ k + 1 # k - 1
  BY <1>1, <1>3
<1>5. p \in Node /\ x \in Node /\ p # n /\ x # n /\ p # x
  <2>1. s[k + 1] \in Node /\ Nth(s, k + 1) = s[k + 1] /\ s[k - 1] \in Node /\ Nth(s, k - 1) = s[k - 1]
    BY <1>4, ListEnds
  <2>2. Nth(s, k + 1) # Nth(s, k) /\ Nth(s, k - 1) # Nth(s, k) /\ Nth(s, k + 1) # Nth(s, k - 1)
    BY <1>4, ListEnds
  <2> QED BY <2>1, <2>2, <1>2
<1>6. nr \in NodeRecord
  <2>1. node[n] \in NodeRecord
    BY <1>1, <1>2
  <2> QED BY <2>1 DEF NodeRecord, NoNode
<1>7. /\ node' = [node EXCEPT ![x].prev = p, ![p].next = x, ![n] = nr]
      /\ stray' = [stray EXCEPT ![q] = @ + 1] /\ list' = list
  BY DEF RemovedInner
<1>8. /\ stray' \in [List -> 0..MaxStray] /\ stray'[q] = stray[q] + 1
      /\ \A r \in List \ {q} : stray'[r] = stray[r]
  <2>1. PICK c \in Int : c = stray[q] /\ c \in 0..MaxStray /\ c < MaxStray
    BY <1>1
  <2>2. c + 1 \in 0..MaxStray
    BY <2>1, <1>1
  <2>3. stray' = [stray EXCEPT ![q] = c + 1]
    BY <2>1, <1>7
  <2> HIDE DEF nr, p, x, s
  <2>4. stray'[q] = c + 1 /\ \A r \in List \ {q} : stray'[r] = stray[r]
    BY <2>3, <1>1
  <2>5. stray' \in [List -> 0..MaxStray]
    BY <2>2, <2>3, <1>1
  <2> QED BY <2>1, <2>4, <2>5
<1>9. (Len(s) - 1) + (stray[q] + 1) = Len(s) + stray[q]
  <2>1. PICK c \in Int, d \in Int : c = Len(s) /\ d = stray[q]
    BY <1>1
  <2>2. (c - 1) + (d + 1) = c + d
    OBVIOUS
  <2> QED BY <2>1, <2>2
<1> HIDE DEF nr, p, x
<1>10. /\ node' \in [Node -> NodeRecord] /\ node'[n] = nr
       /\ node'[p] = [node[p] EXCEPT !.next = x] /\ node'[x] = [node[x] EXCEPT !.prev = p]
       /\ \A m \in Node \ {n, p, x} : node'[m] = node[m]
  <2> DEFINE a == [node EXCEPT ![x].prev = p]
             b == [a EXCEPT ![p].next = x]
  <2>1. a \in [Node -> NodeRecord] /\ a[x] = [node[x] EXCEPT !.prev = p] /\ \A m \in Node \ {x} : a[m] = node[m]
    <3>1. [node[x] EXCEPT !.prev = p] \in NodeRecord
      <4>1. node[x] \in NodeRecord
        BY <1>1, <1>5
      <4> QED BY <4>1, <1>5 DEF NodeRecord
    <3>2. a = [node EXCEPT ![x] = [node[x] EXCEPT !.prev = p]]
      BY <1>1, <1>5
    <3> HIDE DEF a
    <3> QED BY <3>1, <3>2, <1>1, <1>5
  <2> HIDE DEF a
  <2>2. b \in [Node -> NodeRecord] /\ b[p] = [a[p] EXCEPT !.next = x] /\ \A m \in Node \ {p} : b[m] = a[m]
    <3>1. [a[p] EXCEPT !.next = x] \in NodeRecord
      <4>1. a[p] \in NodeRecord
        BY <2>1, <1>5
      <4> QED BY <4>1, <1>5 DEF NodeRecord
    <3>2. b = [a EXCEPT ![p] = [a[p] EXCEPT !.next = x]]
      BY <2>1, <1>5
    <3> HIDE DEF b
    <3> QED BY <3>1, <3>2, <2>1, <1>5
  <2>3. node' = [b EXCEPT ![n] = nr]
    BY <1>7 DEF a
  <2> HIDE DEF b
  <2>4. node' \in [Node -> NodeRecord] /\ node'[n] = nr /\ \A m \in Node \ {n} : node'[m] = b[m]
    BY <2>2, <2>3, <1>2, <1>6
  <2> QED BY <2>1, <2>2, <2>4, <1>5
<1>11. Bridged(Node, node, node', n, p, x)
  <2> SUFFICES ASSUME NEW m \in Node \ {n}
               PROVE  /\ node'[m].list = node[m].list
                      /\ node'[m].next = IF m = p THEN x ELSE node[m].next
                      /\ node'[m].prev = IF m = x THEN p ELSE node[m].prev
    BY DEF Bridged
  <2>1. node[m] \in NodeRecord
    BY <1>1
  <2>2. CASE m = p
    BY <2>1, <2>2, <1>5, <1>10 DEF NodeRecord
  <2>3. CASE m = x
    BY <2>1, <2>3, <1>5, <1>10 DEF NodeRecord
  <2>4. CASE m \notin {p, x}
    BY <2>4, <1>10
  <2> QED BY <2>2, <2>3, <2>4
<1>12. list' = [list EXCEPT ![q] = list[q]]
  BY <1>1, <1>7
<1>13. Unlinks(q, n, k, p, x, list[q])
  BY <1>1, <1>2, <1>3, <1>8, <1>9, <1>10, <1>11, <1>12 DEF Unlinks, nr
<1> QED BY <1>13, NodeUnlinked

\* list_remove.
LEMMA NodeRemoved ==
  ASSUME ListAssumption, ListsInv, NEW n \in Node, list_remove(n)
  PROVE  ListsInv'
<1> DEFINE q == node[n].list
<1>1. q \in List /\ q # 0 /\ view \in ListsOver(List, Node) /\ NoDup(view)
  BY DEF list_remove, ListsInv, NodeRecord
<1> HIDE DEF q
<1>2. /\ n \in Range(view[q]) /\ DOMAIN view[q] = 1..Len(view[q]) /\ IsInjective(view[q])
  BY <1>1, ListFacts DEF q
<1>3. PICK k \in 1..Len(view[q]) : view[q][k] = n
  BY <1>2 DEF Range
<1>4. view' = [view EXCEPT ![q] = RemoveAt(view[q], k)]
  <2>1. view' = Unlink(view, n)
    BY DEF list_remove
  <2>2. Unlink(view, view[q][k]) = [view EXCEPT ![q] = RemoveAt(view[q], k)]
    BY <1>1, UnlinkOne
  <2> QED BY <2>1, <2>2, <1>3
<1>5. CASE list[q].head = n
  <2>1. PoppedHead(q) /\ stray' = stray
    BY <1>5 DEF list_remove, q
  <2>2. list[q].head # 0 /\ k = 1
    <3>1. /\ 0 \notin Node /\ list[q].head = Nth(view[q], 1) /\ Nth(view[q], k) = view[q][k]
          /\ \A j \in Int : Nth(view[q], k) = Nth(view[q], j) => k = j
      BY <1>1, ListEnds, ListFacts
    <3> QED BY <3>1, <1>3, <1>5
  <2> QED BY <2>1, <2>2, <1>1, <1>4, HeadPopped
<1>6. CASE list[q].head # n /\ list[q].tail = n
  <2>1. PoppedTail(q) /\ stray' = stray
    BY <1>6 DEF list_remove, q
  <2>2. list[q].tail # 0 /\ k = Len(view[q])
    <3>1. /\ 0 \notin Node /\ list[q].tail = Nth(view[q], Len(view[q])) /\ Nth(view[q], k) = view[q][k]
          /\ \A j \in Int : Nth(view[q], k) = Nth(view[q], j) => k = j
          /\ Len(view[q]) \in Int
      BY <1>1, ListEnds, ListFacts
    <3> QED BY <3>1, <1>3, <1>6
  <2> QED BY <2>1, <2>2, <1>1, <1>4, TailPopped
<1>7. CASE list[q].head # n /\ list[q].tail # n
  <2>1. stray[q] < MaxStray /\ RemovedInner(q, n)
    BY <1>7 DEF list_remove, q
  <2> QED BY <2>1, <1>1, <1>3, <1>4, <1>7, InnerRemoved
<1> QED BY <1>5, <1>6, <1>7

\* The invariant holds at the beginning and is kept.
LEMMA ListsBegin == ListAssumption /\ ListsInit => ListsInv
<1> SUFFICES ASSUME ListAssumption, ListsInit PROVE ListsInv
  OBVIOUS
<1>1. 0 \in {0} \cup Node /\ 0 \in {0} \cup List /\ 0 \in {0} \cup Priority /\ MaxStray \in Nat
  BY DEF ListAssumption
<1>2. /\ list = [q \in List |-> [head |-> 0, tail |-> 0, size |-> 0]]
      /\ node = [n \in Node |-> NoNode] /\ stray = [q \in List |-> 0] /\ view = [q \in List |-> <<>>]
  BY DEF ListsInit
<1>3. list \in [List -> ListRecord] /\ node \in [Node -> NodeRecord] /\ stray \in [List -> 0..MaxStray]
  BY <1>1, <1>2 DEF ListRecord, NodeRecord, NoNode
<1>4. view \in ListsOver(List, Node) /\ DOMAIN view = List /\ \A q \in List : view[q] = <<>>
  BY <1>2 DEF ListsOver
<1>5. /\ Range(<<>>) = {} /\ IsInjective(<<>>) /\ Len(<<>>) = 0 /\ DOMAIN <<>> = {}
  BY DEF Range, IsInjective
<1>6. NoDup(view) /\ Linked(view) = {}
  BY <1>4, <1>5 DEF NoDup, Linked
<1>7. \A q \in List : Chain(list[q], node, q, view[q])
  BY <1>2, <1>4, <1>5 DEF Chain, Nth
<1>8. \A n \in Node : node[n].list = 0 /\ node[n].next = 0 /\ node[n].prev = 0
  BY <1>2 DEF NoNode
<1>9. SizeDrift
  BY <1>2, <1>4, <1>5 DEF SizeDrift
<1> QED BY <1>3, <1>4, <1>6, <1>7, <1>8, <1>9 DEF ListsInv

LEMMA ListsKept == ListAssumption /\ ListsInv /\ [ListsNext]_listsVars => ListsInv'
<1> SUFFICES ASSUME ListAssumption, ListsInv, [ListsNext]_listsVars PROVE ListsInv'
  OBVIOUS
<1>1. CASE UNCHANGED listsVars
  BY <1>1 DEF listsVars, ListsInv, SizeDrift
<1>2. CASE ListsNext
  <2>1. \A q \in List, n \in Node : list_push_tail(q, n) => ListsInv'
    BY TailPushed DEF list_push_tail
  <2>2. CASE \E n \in Node : list_remove(n)
    BY <2>2, NodeRemoved
  <2>3. CASE \E q \in List : list_pop_head(q) \/ list_pop_tail(q)
    BY <2>3, EndPopped
  <2>4. CASE \E q \in List, n \in Node : list_push_head(q, n) \/ list_push_tail(q, n)
    BY <2>1, <2>4, PushHeadLists
  <2>5. CASE \E q \in List, n \in Node, pri \in Priority : list_push_priority(q, n, pri)
    BY <2>5, PushPriorityLists
  <2> QED BY <1>2, <2>2, <2>3, <2>4, <2>5 DEF ListsNext
<1> QED BY <1>1, <1>2

\* What the invariant says of the pointers.
LEMMA ListsImply == ListAssumption /\ ListsInv => ListsTypeOK /\ IsKList /\ SizeDrift
<1> SUFFICES ASSUME ListAssumption, ListsInv PROVE ListsTypeOK /\ IsKList /\ SizeDrift
  OBVIOUS
<1>1. IsKList
  <2>1. \A q \in List, i \in Int : At(q, i) = Nth(view[q], i)
    BY DEF At, Nth
  <2>2. ASSUME NEW q \in List
        PROVE  /\ list[q].head = At(q, 1) /\ list[q].tail = At(q, Len(view[q]))
               /\ \A i \in DOMAIN view[q] :
                    /\ node[view[q][i]].list = q
                    /\ node[view[q][i]].next = At(q, i + 1) /\ node[view[q][i]].prev = At(q, i - 1)
    <3>1. DOMAIN view[q] = 1..Len(view[q]) /\ Len(view[q]) \in Int
      BY ListFacts
    <3> QED BY <3>1, <2>1 DEF ListsInv, Chain
  <2> QED BY <2>2 DEF IsKList, ListsInv
<1>2. ListsTypeOK
  <2>1. ASSUME NEW q \in List
        PROVE  /\ view[q] \in SeqOf(Node, Cardinality(Node))
               /\ list[q] \in [head : {0} \cup Node, tail : {0} \cup Node, size : 0..(Cardinality(Node) + MaxStray)]
    <3>1. /\ view[q] \in Seq(Node) /\ IsInjective(view[q]) /\ IsFiniteSet(Node) /\ MaxStray \in Nat
          /\ list[q] \in ListRecord /\ list[q].size = Len(view[q]) + stray[q] /\ stray[q] \in 0..MaxStray
          /\ Len(view[q]) \in Nat
      BY ListFacts
    <3>2. view[q] \in SeqOf(Node, Cardinality(Node)) /\ Len(view[q]) <= Cardinality(Node)
      BY <3>1, LengthBound
    <3>3. Cardinality(Node) \in Nat
      BY <3>1, FS_CardinalityType
    <3>4. list[q].size \in 0..(Cardinality(Node) + MaxStray)
      BY <3>1, <3>2, <3>3
    <3> QED BY <3>1, <3>2, <3>4 DEF ListRecord
  <2>2. /\ view \in [List -> SeqOf(Node, Cardinality(Node))]
        /\ list \in [List -> [head : {0} \cup Node, tail : {0} \cup Node, size : 0..(Cardinality(Node) + MaxStray)]]
    BY <2>1 DEF ListsInv, ListsOver
  <2> QED BY <2>2 DEF ListsTypeOK, ListsInv, NodeRecord
<1> QED BY <1>1, <1>2 DEF ListsInv

-----------------------------------------------------------------------------
(* The buckets of a hash set *)

\* The nodes of a bucket by increasing key; what a bucket b holds under its keys.
Increasing(s) == \A i, j \in DOMAIN s : i < j => s[i].key < s[j].key
Answers(s, b, c) ==
  \A k \in Keys : HashSet!hash_uint(k) = b =>
    IF c[k] = 0 THEN \A i \in DOMAIN s : s[i].key # k
    ELSE \E i \in DOMAIN s : s[i].key = k /\ s[i].data = c[k]

\* Keys are numbers.
LEMMA HashKeys ==
  ASSUME HashSet!HashAssumption
  PROVE  /\ \A k \in Keys : k \in Int
         /\ \A n \in HashSet!SetNode : n.key \in Keys /\ n.key \in Int /\ n.data \in Data
         /\ 0 \notin Data
         /\ \A s \in Seq(HashSet!SetNode) :
              /\ DOMAIN s = 1..Len(s) /\ Len(s) \in Nat
              /\ \A i \in DOMAIN s : s[i] \in HashSet!SetNode /\ s[i].key \in Keys /\ s[i].key \in Int
<1>1. Keys \subseteq Nat /\ 0 \notin Data
  BY DEF HashSet!HashAssumption
<1>2. \A k \in Keys : k \in Int
  BY <1>1
<1>3. \A n \in HashSet!SetNode : n.key \in Keys /\ n.key \in Int /\ n.data \in Data
  BY <1>2 DEF HashSet!SetNode
<1>4. \A s \in Seq(HashSet!SetNode) : /\ DOMAIN s = 1..Len(s) /\ Len(s) \in Nat
                                  /\ \A i \in DOMAIN s : s[i] \in HashSet!SetNode
  OBVIOUS
<1> QED BY <1>1, <1>2, <1>3, <1>4

\* Where the loop of a search stops.
StopIs(s, k, i) ==
  /\ i \in 1..(Len(s) + 1)
  /\ \A j \in DOMAIN s : s[j].key >= k => i <= j
  /\ i <= Len(s) => s[i].key >= k
LEMMA StopFacts ==
  ASSUME NEW s \in Seq(HashSet!SetNode), NEW k \in Int
  PROVE  StopIs(s, k, HashSet!Stop(s, k))
<1> DEFINE S == {i \in DOMAIN s : s[i].key >= k} \cup {Len(s) + 1}
<1>1. DOMAIN s = 1..Len(s) /\ Len(s) \in Nat
  OBVIOUS
<1>2. S \in SUBSET Nat /\ S # {} /\ Len(s) + 1 \in S
  BY <1>1
<1>3. HashSet!Stop(s, k) = Min(S)
  BY DEF HashSet!Stop, HashSet!Min, Min
<1>4. Min(S) \in S /\ \A j \in S : Min(S) <= j
  BY <1>2, MinIn
<1>5. \A j \in DOMAIN s : s[j].key >= k => j \in S
  OBVIOUS
<1>6. ASSUME NEW i \in S PROVE i \in 1..(Len(s) + 1) /\ (i <= Len(s) => s[i].key >= k)
  <2>1. CASE i \in DOMAIN s /\ s[i].key >= k
    BY <2>1, <1>1
  <2>2. CASE i = Len(s) + 1
    BY <2>2, <1>1
  <2> QED BY <2>1, <2>2
<1> HIDE DEF S
<1> QED BY <1>3, <1>4, <1>5, <1>6 DEF StopIs

\* In a bucket that is sorted the search finds a key that is there.
LEMMA StopFinds ==
  ASSUME NEW s \in Seq(HashSet!SetNode), HashSet!HashAssumption, NEW k \in Keys, Increasing(s),
         NEW i \in DOMAIN s, s[i].key = k
  PROVE  HashSet!Stop(s, k) = i
<1>1. /\ k \in Int /\ DOMAIN s = 1..Len(s) /\ Len(s) \in Nat
      /\ \A j \in DOMAIN s : s[j].key \in Int
  BY HashKeys
<1>2. PICK m : m = HashSet!Stop(s, k)
  OBVIOUS
<1>3. StopIs(s, k, m)
  BY <1>1, <1>2, StopFacts
<1>4. m \in 1..(Len(s) + 1) /\ m <= i
  BY <1>1, <1>3 DEF StopIs
<1>5. m \in DOMAIN s /\ s[m].key >= k
  BY <1>1, <1>3, <1>4 DEF StopIs
<1>6. ~(m < i)
  BY <1>1, <1>5 DEF Increasing
<1> QED BY <1>1, <1>2, <1>4, <1>6

\* A bucket s after hash_set_list_add, and after hash_set_list_delete.
AddEffect(s, n, t) ==
  \/ t = s /\ \E i \in DOMAIN s : s[i].key = n.key
  \/ \E i \in 1..(Len(s) + 1) :
       /\ t \in Seq(HashSet!SetNode) /\ Inserted(s, i, n, t)
       /\ Increasing(s) /\ ~HashSet!Between(s, n.key) =>
            \A j \in DOMAIN s : (j < i => s[j].key < n.key) /\ (i <= j => n.key < s[j].key)
DeleteEffect(s, k, t) ==
  \/ t = s /\ (Increasing(s) => \A i \in DOMAIN s : s[i].key # k)
  \/ \E i \in DOMAIN s : t \in Seq(HashSet!SetNode) /\ Without(s, i, t) /\ s[i].key = k

LEMMA AddedNode ==
  ASSUME NEW s \in Seq(HashSet!SetNode), HashSet!HashAssumption, NEW n \in HashSet!SetNode
  PROVE  AddEffect(s, n, HashSet!hash_set_list_add(s, n))
<1> DEFINE k == n.key
           t == HashSet!hash_set_list_add(s, n)
<1>1. /\ k \in Keys /\ k \in Int /\ DOMAIN s = 1..Len(s) /\ Len(s) \in Nat
      /\ \A j \in DOMAIN s : s[j].key \in Int
  BY HashKeys
<1>2. PICK m : m = HashSet!Stop(s, k)
  OBVIOUS
<1>3. StopIs(s, k, m)
  BY <1>1, <1>2, StopFacts
<1>4. m \in 1..(Len(s) + 1) /\ m \in Int
  BY <1>1, <1>3 DEF StopIs
<1>5. \A i : HashSet!InsertAt(s, i, n) = InsertAt(s, i, n)
  BY DEF HashSet!InsertAt, InsertAt
<1>6. CASE m <= Len(s) /\ s[m].key = k
  <2>1. t = s
    BY <1>2, <1>6 DEF HashSet!hash_set_list_add, HashSet!IsAt
  <2>2. m \in DOMAIN s
    BY <1>1, <1>4, <1>6
  <2> QED BY <2>1, <2>2, <1>6 DEF AddEffect
<1>7. CASE ~(m <= Len(s) /\ s[m].key = k)
  <2>1. HashSet!Between(s, k) <=> m \in 2..Len(s)
    BY <1>1, <1>2, <1>4, <1>7 DEF HashSet!Between
  <2>2. t = IF m \in 2..Len(s) THEN InsertAt(s, m + 1, n) ELSE InsertAt(s, m, n)
    BY <1>2, <1>5, <1>7, <2>1 DEF HashSet!hash_set_list_add, HashSet!IsAt
  <2> HIDE DEF t
  <2>3. CASE m \in 2..Len(s)
    <3>1. m + 1 \in 1..(Len(s) + 1)
      BY <1>1, <2>3
    <3>2. t \in Seq(HashSet!SetNode) /\ Inserted(s, m + 1, n, t)
      BY <3>1, <2>2, <2>3, InsertAtFacts
    <3> QED BY <3>1, <3>2, <2>1, <2>3 DEF AddEffect, t
  <2>4. CASE m \notin 2..Len(s)
    <3>1. t \in Seq(HashSet!SetNode) /\ Inserted(s, m, n, t)
      BY <1>4, <2>2, <2>4, InsertAtFacts
    <3>2. ASSUME Increasing(s), NEW j \in DOMAIN s
          PROVE  (j < m => s[j].key < k) /\ (m <= j => k < s[j].key)
      <4>1. CASE j < m
        BY <4>1, <1>1, <1>3, <1>4 DEF StopIs
      <4>2. CASE m <= j
        <5>1. m = 1 /\ m \in DOMAIN s /\ s[m].key >= k /\ s[m].key # k
          BY <4>2, <1>1, <1>3, <1>4, <1>7, <2>4 DEF StopIs
        <5>2. j = m \/ s[m].key < s[j].key
          BY <5>1, <4>2, <3>2, <1>1 DEF Increasing
        <5> QED BY <5>1, <5>2, <4>2, <1>1
      <4> QED BY <4>1, <4>2, <1>1, <1>4
    <3> QED BY <3>1, <3>2, <1>4 DEF AddEffect, t
  <2> QED BY <2>3, <2>4
<1> QED BY <1>6, <1>7

LEMMA DeletedNode ==
  ASSUME NEW s \in Seq(HashSet!SetNode), HashSet!HashAssumption, NEW k \in Keys
  PROVE  DeleteEffect(s, k, HashSet!hash_set_list_delete(s, k))
<1> DEFINE t == HashSet!hash_set_list_delete(s, k)
<1>1. k \in Int /\ DOMAIN s = 1..Len(s) /\ Len(s) \in Nat
  BY HashKeys
<1>2. PICK m : m = HashSet!Stop(s, k)
  OBVIOUS
<1>3. StopIs(s, k, m)
  BY <1>1, <1>2, StopFacts
<1>4. m \in 1..(Len(s) + 1) /\ m \in Int
  BY <1>1, <1>3 DEF StopIs
<1>5. CASE m <= Len(s) /\ s[m].key = k
  <2>1. t = RemoveAt(s, m)
    BY <1>2, <1>5 DEF HashSet!hash_set_list_delete, HashSet!IsAt, HashSet!RemoveAt, RemoveAt
  <2>2. m \in DOMAIN s /\ m \in 1..Len(s)
    BY <1>1, <1>4, <1>5
  <2> HIDE DEF t
  <2>3. t \in Seq(HashSet!SetNode) /\ Without(s, m, t)
    BY <2>1, <2>2, RemoveAtFacts
  <2> QED BY <2>2, <2>3, <1>5 DEF DeleteEffect, t
<1>6. CASE ~(m <= Len(s) /\ s[m].key = k)
  <2>1. t = s
    BY <1>2, <1>6 DEF HashSet!hash_set_list_delete, HashSet!IsAt
  <2>2. ASSUME Increasing(s), NEW i \in DOMAIN s, s[i].key = k PROVE FALSE
    BY <2>2, <1>1, <1>2, <1>6, StopFinds
  <2> QED BY <2>1, <2>2 DEF DeleteEffect
<1> QED BY <1>5, <1>6

\* What an added node leaves of the two properties of a bucket, and a removed one.
LEMMA AddedAnswers ==
  ASSUME HashSet!HashAssumption, NEW s \in Seq(HashSet!SetNode), NEW n \in HashSet!SetNode, NEW t,
         AddEffect(s, n, t), NEW b, HashSet!hash_uint(n.key) = b,
         \A i \in DOMAIN s : HashSet!hash_uint(s[i].key) = b
  PROVE  /\ t \in Seq(HashSet!SetNode) /\ \A i \in DOMAIN t : HashSet!hash_uint(t[i].key) = b
         /\ Len(t) = Len(s) + (IF t = s THEN 0 ELSE 1)
         /\ \A c \in [Keys -> Data \cup {0}] :
              Increasing(s) /\ Answers(s, b, c) /\ ~HashSet!Between(s, n.key) =>
                Increasing(t) /\ Answers(t, b, IF c[n.key] = 0 THEN [c EXCEPT ![n.key] = n.data] ELSE c)
<1>1. /\ DOMAIN s = 1..Len(s) /\ Len(s) \in Nat /\ n.key \in Keys /\ n.key \in Int /\ n.data \in Data
      /\ \A i \in DOMAIN s : s[i] \in HashSet!SetNode /\ s[i].key \in Keys /\ s[i].key \in Int
      /\ 0 \notin Data
  BY HashKeys
<1>2. CASE t = s /\ \E i \in DOMAIN s : s[i].key = n.key
  <2>1. ASSUME NEW c \in [Keys -> Data \cup {0}], Answers(s, b, c) PROVE c[n.key] # 0
    BY <2>1, <1>1, <1>2 DEF Answers
  <2> QED BY <2>1, <1>1, <1>2
<1>3. ASSUME NEW i \in 1..(Len(s) + 1), t \in Seq(HashSet!SetNode), Inserted(s, i, n, t),
             Increasing(s) /\ ~HashSet!Between(s, n.key) =>
               \A j \in DOMAIN s : (j < i => s[j].key < n.key) /\ (i <= j => n.key < s[j].key)
      PROVE  /\ t \in Seq(HashSet!SetNode) /\ \A j \in DOMAIN t : HashSet!hash_uint(t[j].key) = b
             /\ Len(t) = Len(s) + (IF t = s THEN 0 ELSE 1)
             /\ \A c \in [Keys -> Data \cup {0}] :
                  Increasing(s) /\ Answers(s, b, c) /\ ~HashSet!Between(s, n.key) =>
                    Increasing(t) /\ Answers(t, b, IF c[n.key] = 0 THEN [c EXCEPT ![n.key] = n.data] ELSE c)
  <2>1. PICK l \in Nat : l = Len(s)
    BY <1>1
  <2>2. /\ DOMAIN t = 1..(l + 1) /\ Len(t) = l + 1 /\ i \in 1..(l + 1) /\ t[i] = n /\ DOMAIN s = 1..l
        /\ \A j \in 1..(l + 1) : (j < i => t[j] = s[j]) /\ (j > i => t[j] = s[j - 1])
    BY <1>1, <1>3, <2>1 DEF Inserted
  <2>3. \A j \in 1..(l + 1) : (j < i => j \in 1..l) /\ (j > i => j - 1 \in 1..l /\ j - 1 >= i)
    BY <2>2
  <2>4. \A j \in 1..l : IF j < i THEN j \in 1..(l + 1) /\ t[j] = s[j]
                       ELSE j + 1 \in 1..(l + 1) /\ t[j + 1] = s[j]
    <3> SUFFICES ASSUME NEW j \in 1..l, ~(j < i) PROVE j + 1 \in 1..(l + 1) /\ t[j + 1] = s[j]
      BY <2>2
    <3>1. j + 1 \in 1..(l + 1) /\ j + 1 > i /\ (j + 1) - 1 = j
      BY <2>2
    <3> QED BY <3>1, <2>2
  <2>5. \A j \in 1..(l + 1) : j = i \/ \E a \in 1..l : t[j] = s[a]
    <3> SUFFICES ASSUME NEW j \in 1..(l + 1), j # i PROVE \E a \in 1..l : t[j] = s[a]
      OBVIOUS
    <3>1. j < i \/ j > i
      BY <2>2
    <3> QED BY <3>1, <2>2, <2>3
  <2>6. \A j \in DOMAIN t : HashSet!hash_uint(t[j].key) = b
    <3> SUFFICES ASSUME NEW j \in 1..(l + 1) PROVE HashSet!hash_uint(t[j].key) = b
      BY <2>2
    <3>1. CASE j = i
      BY <3>1, <2>2
    <3>2. CASE j # i
      <4>1. PICK a \in 1..l : t[j] = s[a]
        BY <3>2, <2>5
      <4>2. HashSet!hash_uint(s[a].key) = b
        BY <2>2
      <4> QED BY <4>1, <4>2
    <3> QED BY <3>1, <3>2
  <2>7. t # s /\ Len(t) = Len(s) + (IF t = s THEN 0 ELSE 1)
    BY <2>1, <2>2
  <2>8. ASSUME NEW c \in [Keys -> Data \cup {0}], Increasing(s), Answers(s, b, c),
               ~HashSet!Between(s, n.key)
        PROVE  /\ Increasing(t)
               /\ Answers(t, b, IF c[n.key] = 0 THEN [c EXCEPT ![n.key] = n.data] ELSE c)
    <3>1. \A j \in 1..l : (j < i => s[j].key < n.key) /\ (i <= j => n.key < s[j].key)
      BY <1>3, <2>2, <2>8
    <3>2. Increasing(t)
      <4> SUFFICES ASSUME NEW x \in 1..(l + 1), NEW y \in 1..(l + 1), x < y
                   PROVE  t[x].key < t[y].key
        BY <2>2 DEF Increasing
      <4>1. CASE x = i
        BY <4>1, <3>1, <2>2, <2>3
      <4>2. CASE y = i
        BY <4>2, <3>1, <2>2, <2>3
      <4>3. CASE x < i /\ y < i
        BY <4>3, <2>2, <2>3, <2>8 DEF Increasing
      <4>4. CASE x < i /\ y > i
        <5>1. x \in 1..l /\ y - 1 \in 1..l /\ x < y - 1
          BY <4>4, <2>2, <2>3
        <5> QED BY <5>1, <4>4, <2>2, <2>8 DEF Increasing
      <4>5. CASE x > i /\ y > i
        <5>1. x - 1 \in 1..l /\ y - 1 \in 1..l /\ x - 1 < y - 1
          BY <4>5, <2>2, <2>3
        <5> QED BY <5>1, <4>5, <2>2, <2>8 DEF Increasing
      <4> QED BY <4>1, <4>2, <4>3, <4>4, <4>5, <2>2
    <3>3. \A j \in 1..l : s[j].key # n.key
      BY <3>1, <2>2, <1>1
    <3>4. c[n.key] = 0
      BY <3>3, <2>2, <2>8, <1>1 DEF Answers
    <3>5. ASSUME NEW k \in Keys, HashSet!hash_uint(k) = b, k # n.key
          PROVE  IF c[k] = 0 THEN \A j \in 1..(l + 1) : t[j].key # k
                 ELSE \E j \in 1..(l + 1) : t[j].key = k /\ t[j].data = c[k]
      <4>1. CASE c[k] = 0
        <5>1. \A j \in 1..l : s[j].key # k
          BY <4>1, <3>5, <2>2, <2>8 DEF Answers
        <5> QED BY <5>1, <4>1, <3>5, <2>2, <2>5
      <4>2. CASE c[k] # 0
        <5>1. PICK j \in 1..l : s[j].key = k /\ s[j].data = c[k]
          BY <4>2, <3>5, <2>2, <2>8 DEF Answers
        <5> QED BY <5>1, <4>2, <2>4
      <4> QED BY <4>1, <4>2
    <3>6. t[i].key = n.key /\ t[i].data = n.data /\ n.data # 0
      BY <2>2, <1>1
    <3>7. Answers(t, b, [c EXCEPT ![n.key] = n.data])
      <4> SUFFICES ASSUME NEW k \in Keys, HashSet!hash_uint(k) = b
                   PROVE  IF [c EXCEPT ![n.key] = n.data][k] = 0 THEN \A j \in 1..(l + 1) : t[j].key # k
                          ELSE \E j \in 1..(l + 1) : t[j].key = k /\ t[j].data = [c EXCEPT ![n.key] = n.data][k]
        BY <2>2 DEF Answers
      <4>1. CASE k = n.key
        BY <4>1, <3>6, <2>2
      <4>2. CASE k # n.key
        <5>1. [c EXCEPT ![n.key] = n.data][k] = c[k]
          BY <4>2
        <5> QED BY <5>1, <4>2, <3>5
      <4> QED BY <4>1, <4>2
    <3> QED BY <3>2, <3>4, <3>7
  <2> QED BY <1>3, <2>6, <2>7, <2>8
<1> QED BY <1>2, <1>3 DEF AddEffect

LEMMA DeletedAnswers ==
  ASSUME HashSet!HashAssumption, NEW s \in Seq(HashSet!SetNode), NEW k \in Keys, NEW t,
         DeleteEffect(s, k, t), NEW b, \A i \in DOMAIN s : HashSet!hash_uint(s[i].key) = b
  PROVE  /\ t \in Seq(HashSet!SetNode) /\ \A i \in DOMAIN t : HashSet!hash_uint(t[i].key) = b
         /\ \A c \in [Keys -> Data \cup {0}] :
              Increasing(s) /\ Answers(s, b, c) => Increasing(t) /\ Answers(t, b, [c EXCEPT ![k] = 0])
<1>1. /\ DOMAIN s = 1..Len(s) /\ Len(s) \in Nat /\ k \in Int
      /\ \A i \in DOMAIN s : s[i] \in HashSet!SetNode /\ s[i].key \in Keys /\ s[i].key \in Int
  BY HashKeys
<1>2. CASE t = s /\ (Increasing(s) => \A i \in DOMAIN s : s[i].key # k)
  <2>1. ASSUME NEW c \in [Keys -> Data \cup {0}], Increasing(s), Answers(s, b, c)
        PROVE  Answers(s, b, [c EXCEPT ![k] = 0])
    BY <2>1, <1>1, <1>2 DEF Answers
  <2> QED BY <2>1, <1>1, <1>2
<1>3. ASSUME NEW i \in DOMAIN s, t \in Seq(HashSet!SetNode), Without(s, i, t), s[i].key = k
      PROVE  /\ t \in Seq(HashSet!SetNode) /\ \A j \in DOMAIN t : HashSet!hash_uint(t[j].key) = b
             /\ \A c \in [Keys -> Data \cup {0}] :
                  Increasing(s) /\ Answers(s, b, c) => Increasing(t) /\ Answers(t, b, [c EXCEPT ![k] = 0])
  <2>1. PICK l \in Nat : l = Len(s)
    BY <1>1
  <2>2. /\ DOMAIN t = 1..(l - 1) /\ i \in 1..l /\ DOMAIN s = 1..l
        /\ \A j \in 1..(l - 1) : t[j] = IF j < i THEN s[j] ELSE s[j + 1]
    BY <1>1, <1>3, <2>1 DEF Without
  <2> DEFINE up(j) == IF j < i THEN j ELSE j + 1
  <2>3. \A j \in 1..(l - 1) : up(j) \in 1..l /\ up(j) # i /\ t[j] = s[up(j)]
    BY <2>2
  <2>4. \A x, y \in 1..(l - 1) : x < y => up(x) < up(y)
    BY <2>2
  <2>5. \A a \in 1..l : a # i => \E j \in 1..(l - 1) : t[j] = s[a]
    <3> SUFFICES ASSUME NEW a \in 1..l, a # i PROVE \E j \in 1..(l - 1) : t[j] = s[a]
      OBVIOUS
    <3>1. CASE a < i
      <4>1. a \in 1..(l - 1) /\ t[a] = s[a]
        BY <3>1, <2>2
      <4> QED BY <4>1
    <3>2. CASE a > i
      <4>1. a - 1 \in 1..(l - 1) /\ ~(a - 1 < i) /\ (a - 1) + 1 = a
        BY <3>2, <2>2
      <4>2. t[a - 1] = s[a]
        BY <4>1, <2>2
      <4> QED BY <4>1, <4>2
    <3> QED BY <3>1, <3>2, <2>2
  <2> HIDE DEF up
  <2>6. \A j \in DOMAIN t : HashSet!hash_uint(t[j].key) = b
    BY <2>2, <2>3
  <2>7. ASSUME NEW c \in [Keys -> Data \cup {0}], Increasing(s), Answers(s, b, c)
        PROVE  Increasing(t) /\ Answers(t, b, [c EXCEPT ![k] = 0])
    <3>1. Increasing(t)
      BY <2>2, <2>3, <2>4, <2>7 DEF Increasing
    <3>2. \A j \in 1..l : j # i => s[j].key # k
      <4> SUFFICES ASSUME NEW j \in 1..l, j # i PROVE s[j].key # k
        OBVIOUS
      <4>1. j < i \/ i < j
        BY <2>2
      <4>2. s[j].key < s[i].key \/ s[i].key < s[j].key
        BY <4>1, <2>2, <2>7 DEF Increasing
      <4> QED BY <4>2, <2>2, <1>1, <1>3
    <3>3. \A j \in 1..(l - 1) : t[j].key # k
      BY <3>2, <2>3
    <3>4. ASSUME NEW x \in Keys, HashSet!hash_uint(x) = b, x # k
          PROVE  IF c[x] = 0 THEN \A j \in 1..(l - 1) : t[j].key # x
                 ELSE \E j \in 1..(l - 1) : t[j].key = x /\ t[j].data = c[x]
      <4>1. CASE c[x] = 0
        <5>1. \A j \in 1..l : s[j].key # x
          BY <4>1, <3>4, <2>2, <2>7 DEF Answers
        <5> QED BY <5>1, <4>1, <2>3
      <4>2. CASE c[x] # 0
        <5>1. PICK j \in 1..l : s[j].key = x /\ s[j].data = c[x]
          BY <4>2, <3>4, <2>2, <2>7 DEF Answers
        <5>2. j # i
          BY <5>1, <3>4, <1>3
        <5> QED BY <5>1, <5>2, <4>2, <2>5
      <4> QED BY <4>1, <4>2
    <3>5. Answers(t, b, [c EXCEPT ![k] = 0])
      <4> SUFFICES ASSUME NEW x \in Keys, HashSet!hash_uint(x) = b
                   PROVE  IF [c EXCEPT ![k] = 0][x] = 0 THEN \A j \in 1..(l - 1) : t[j].key # x
                          ELSE \E j \in 1..(l - 1) : t[j].key = x /\ t[j].data = [c EXCEPT ![k] = 0][x]
        BY <2>2 DEF Answers
      <4>1. CASE x = k
        BY <4>1, <3>3
      <4>2. CASE x # k
        <5>1. [c EXCEPT ![k] = 0][x] = c[x]
          BY <4>2
        <5> QED BY <5>1, <4>2, <3>4
      <4> QED BY <4>1, <4>2
    <3> QED BY <3>1, <3>5
  <2> QED BY <1>3, <2>6, <2>7
<1> QED BY <1>2, <1>3 DEF DeleteEffect

-----------------------------------------------------------------------------
(* Counting the nodes of all buckets *)

\* The places of one bucket, and of the others.
PlacesOf(h, b) == {b} \X DOMAIN h[b]
OtherPlaces(h, b) == UNION {{c} \X DOMAIN h[c] : c \in HashSet!Bucket \ {b}}

\* The places of some buckets are finitely many.
LEMMA PlacesFinite ==
  ASSUME HashSet!HashAssumption, NEW h \in [HashSet!Bucket -> Seq(HashSet!SetNode)],
         NEW B \in SUBSET HashSet!Bucket
  PROVE  IsFiniteSet(UNION {{c} \X DOMAIN h[c] : c \in B})
<1> DEFINE f == [c \in B |-> {c} \X DOMAIN h[c]]
           T == {{c} \X DOMAIN h[c] : c \in B}
<1>1. IsFiniteSet(HashSet!Bucket)
  <2>1. Buckets \in Nat
    BY DEF HashSet!HashAssumption
  <2>2. 0 \in Int /\ Buckets - 1 \in Int
    BY <2>1
  <2> QED BY <2>2, FS_Interval DEF HashSet!Bucket
<1>2. IsFiniteSet(B)
  BY <1>1, FS_Subset
<1>3. f \in Surjection(B, T)
  <2>1. f \in [B -> T] /\ \A t \in T : \E c \in B : f[c] = t
    OBVIOUS
  <2> QED BY <2>1 DEF Surjection
<1>4. IsFiniteSet(T)
  BY <1>2, <1>3, FS_Surjection
<1>5. ASSUME NEW c \in B PROVE IsFiniteSet({c} \X DOMAIN h[c])
  <2>1. DOMAIN h[c] = 1..Len(h[c]) /\ Len(h[c]) \in Int /\ 1 \in Int
    OBVIOUS
  <2>2. IsFiniteSet(DOMAIN h[c])
    BY <2>1, FS_Interval
  <2>3. IsFiniteSet({c})
    BY FS_Singleton
  <2> QED BY <2>2, <2>3, FS_Product
<1>6. \A t \in T : IsFiniteSet(t)
  BY <1>5
<1> HIDE DEF T
<1>7. IsFiniteSet(UNION T)
  BY <1>4, <1>6, FS_UNION
<1> QED BY <1>7 DEF T

\* Counting in HashSet is counting.
LEMMA SameCount == \A S : HashSet!Cardinality(S) = Cardinality(S)
BY DEF HashSet!Cardinality, Cardinality

\* A bucket counts for its length.
LEMMA PlacesSplit ==
  ASSUME HashSet!HashAssumption, NEW h \in [HashSet!Bucket -> Seq(HashSet!SetNode)],
         NEW b \in HashSet!Bucket
  PROVE  /\ Cardinality(HashSet!Places(h)) = Cardinality(OtherPlaces(h, b)) + Len(h[b])
         /\ Cardinality(OtherPlaces(h, b)) \in Nat /\ Len(h[b]) \in Nat
<1> DEFINE P == PlacesOf(h, b)
           O == OtherPlaces(h, b)
<1>1. DOMAIN h[b] = 1..Len(h[b]) /\ Len(h[b]) \in Nat
  OBVIOUS
<1>2. IsFiniteSet(DOMAIN h[b]) /\ Cardinality(DOMAIN h[b]) = Len(h[b])
  <2>1. PICK n \in Nat : n = Len(h[b])
    BY <1>1
  <2>2. 1 \in Int /\ n \in Int /\ (IF 1 > n THEN 0 ELSE n - 1 + 1) = n
    OBVIOUS
  <2>3. IsFiniteSet(1..n) /\ Cardinality(1..n) = n
    BY <2>2, FS_Interval
  <2> QED BY <1>1, <2>1, <2>3
<1>3. IsFiniteSet(P) /\ Cardinality(P) = Len(h[b])
  <2>1. IsFiniteSet({b}) /\ Cardinality({b}) = 1
    BY FS_Singleton
  <2>2. IsFiniteSet(P) /\ Cardinality(P) = Cardinality({b}) * Cardinality(DOMAIN h[b])
    BY <2>1, <1>2, FS_Product DEF PlacesOf
  <2>3. PICK n \in Nat : n = Len(h[b])
    BY <1>1
  <2>4. 1 * n = n
    OBVIOUS
  <2> QED BY <2>1, <2>2, <2>3, <2>4, <1>2
<1>4. IsFiniteSet(O)
  <2>1. HashSet!Bucket \ {b} \in SUBSET HashSet!Bucket
    OBVIOUS
  <2> QED BY <2>1, PlacesFinite DEF OtherPlaces
<1>5. Cardinality(O) \in Nat
  BY <1>4, FS_CardinalityType
<1>6. HashSet!Places(h) = O \cup P
  <2>1. \A x : x \in HashSet!Places(h) <=> \E c \in HashSet!Bucket : x \in {c} \X DOMAIN h[c]
    BY DEF HashSet!Places
  <2>2. \A x : x \in O <=> \E c \in HashSet!Bucket \ {b} : x \in {c} \X DOMAIN h[c]
    BY DEF OtherPlaces
  <2>3. \A x : x \in P <=> x \in {b} \X DOMAIN h[b]
    BY DEF PlacesOf
  <2> QED BY <2>1, <2>2, <2>3
<1>7. O \cap P = {}
  <2> SUFFICES ASSUME NEW c \in HashSet!Bucket \ {b}, NEW x \in {c} \X DOMAIN h[c], x \in {b} \X DOMAIN h[b]
               PROVE  FALSE
    BY DEF OtherPlaces, PlacesOf
  <2>1. x[1] = c /\ x[1] = b
    OBVIOUS
  <2> QED BY <2>1
<1>8. Cardinality(O \cup P) = Cardinality(O) + Cardinality(P) - Cardinality(O \cap P)
  BY <1>3, <1>4, FS_Union
<1>9. Cardinality(O \cap P) = 0
  BY <1>7, FS_EmptySet
<1> HIDE DEF O, P
<1>10. Cardinality(O) + Len(h[b]) - 0 = Cardinality(O) + Len(h[b])
  BY <1>1, <1>5
<1> QED BY <1>1, <1>3, <1>5, <1>6, <1>8, <1>9, <1>10 DEF O

\* What changes when one bucket does.
LEMMA PlacesCounted ==
  ASSUME HashSet!HashAssumption, NEW h \in [HashSet!Bucket -> Seq(HashSet!SetNode)],
         NEW b \in HashSet!Bucket, NEW t \in Seq(HashSet!SetNode)
  PROVE  /\ Cardinality(HashSet!Places([h EXCEPT ![b] = t]))
              = Cardinality(HashSet!Places(h)) + (Len(t) - Len(h[b]))
         /\ Cardinality(HashSet!Places(h)) \in Nat
         /\ Cardinality(HashSet!Places([h EXCEPT ![b] = t])) \in Nat
         /\ Len(t) \in Nat /\ Len(h[b]) \in Nat
<1> DEFINE g == [h EXCEPT ![b] = t]
<1>1. g \in [HashSet!Bucket -> Seq(HashSet!SetNode)] /\ g[b] = t
      /\ \A c \in HashSet!Bucket \ {b} : g[c] = h[c]
  OBVIOUS
<1> HIDE DEF g
<1>2. OtherPlaces(g, b) = OtherPlaces(h, b)
  BY <1>1 DEF OtherPlaces
<1>3. /\ Cardinality(HashSet!Places(h)) = Cardinality(OtherPlaces(h, b)) + Len(h[b])
      /\ Cardinality(OtherPlaces(h, b)) \in Nat /\ Len(h[b]) \in Nat
  BY PlacesSplit
<1>4. /\ Cardinality(HashSet!Places(g)) = Cardinality(OtherPlaces(h, b)) + Len(t) /\ Len(t) \in Nat
  BY <1>1, <1>2, PlacesSplit
<1>5. PICK x \in Nat, y \in Nat, z \in Nat :
        x = Cardinality(OtherPlaces(h, b)) /\ y = Len(h[b]) /\ z = Len(t)
  BY <1>3, <1>4
<1>6. x + z = (x + y) + (z - y) /\ x + y \in Nat /\ x + z \in Nat
  OBVIOUS
<1> QED BY <1>3, <1>4, <1>5, <1>6 DEF g

-----------------------------------------------------------------------------
(* The invariant of a hash set *)

\* Counts are exact, and a bucket that got no node between two others is sorted and answers
\* for what was stored.
SetInv ==
  /\ HashSet!TypeOK
  /\ num_entries = Cardinality(HashSet!Places(bucket)) /\ live = refused + num_entries
  /\ phase = "none" => bucket = HashSet!Empty
  /\ \A b \in HashSet!Bucket \ middle : Increasing(bucket[b]) /\ Answers(bucket[b], b, content)

\* A key belongs to a bucket.
LEMMA HashUint ==
  ASSUME HashSet!HashAssumption, NEW k \in Keys
  PROVE  HashSet!hash_uint(k) \in HashSet!Bucket
<1>1. Buckets \in Nat \ {0} /\ k \in Nat
  BY DEF HashSet!HashAssumption
<1>2. \A x \in Int : x % Buckets \in 0..(Buckets - 1)
  BY <1>1
<1>3. PICK low \in Int : low = k * 34375
  BY <1>1
<1>4. PICK m \in Int : m = k * 25032
  BY <1>1
<1>5. PICK high \in Int : high = (m + low \div 65536) % 65536
  BY <1>3, <1>4
<1>6. PICK x \in Int : x = (high % Buckets) * (65536 % Buckets)
  <2>1. PICK a \in Int, c \in Int : a = high % Buckets /\ c = 65536 % Buckets
    BY <1>2
  <2>2. a * c \in Int
    BY <2>1
  <2> QED BY <2>1, <2>2
<1>7. PICK y \in Int : y = low % 65536
  BY <1>3
<1>8. x + y \in Int
  BY <1>6, <1>7
<1>9. HashSet!hash_uint(k) = (x + y) % Buckets
  BY <1>3, <1>4, <1>5, <1>6, <1>7 DEF HashSet!hash_uint
<1> QED BY <1>2, <1>8, <1>9 DEF HashSet!Bucket

\* No node, no place.
LEMMA EmptyBuckets ==
  /\ HashSet!Empty \in [HashSet!Bucket -> Seq(HashSet!SetNode)]
  /\ Cardinality(HashSet!Places(HashSet!Empty)) = 0
  /\ \A b \in HashSet!Bucket : HashSet!Empty[b] = <<>> /\ Increasing(HashSet!Empty[b])
<1>1. /\ HashSet!Empty \in [HashSet!Bucket -> Seq(HashSet!SetNode)]
      /\ \A b \in HashSet!Bucket : HashSet!Empty[b] = <<>>
  BY DEF HashSet!Empty
<1>2. DOMAIN <<>> = {}
  OBVIOUS
<1>3. HashSet!Places(HashSet!Empty) = {}
  BY <1>1, <1>2 DEF HashSet!Places
<1>4. Increasing(<<>>)
  BY <1>2 DEF Increasing
<1> QED BY <1>1, <1>3, <1>4, FS_EmptySet

LEMMA SetBegins == HashSet!HashAssumption /\ HashSet!Init => SetInv
<1> SUFFICES ASSUME HashSet!HashAssumption, HashSet!Init PROVE SetInv
  OBVIOUS
<1>1. /\ phase = "none" /\ bucket = HashSet!Empty /\ num_entries = 0 /\ live = 0 /\ refused = 0
      /\ content = [k \in Keys |-> 0] /\ middle = {}
  BY DEF HashSet!Init
<1>2. DOMAIN <<>> = {}
  OBVIOUS
<1>3. HashSet!TypeOK
  BY <1>1, <1>2, EmptyBuckets DEF HashSet!TypeOK
<1>4. \A b \in HashSet!Bucket : Answers(bucket[b], b, content)
  BY <1>1, <1>2, EmptyBuckets DEF Answers
<1> QED BY <1>1, <1>3, <1>4, EmptyBuckets DEF SetInv

\* A step that changes one bucket, to which the key k belongs.
LEMMA BucketChanged ==
  ASSUME HashSet!HashAssumption, SetInv, NEW k \in Keys, NEW b, b = HashSet!hash_uint(k),
         NEW t \in Seq(HashSet!SetNode), \A i \in DOMAIN t : HashSet!hash_uint(t[i].key) = b,
         bucket' = [bucket EXCEPT ![b] = t],
         num_entries' = num_entries + (Len(t) - Len(bucket[b])),
         refused' \in Nat, live' = refused' + num_entries', phase = "live", phase' = phase,
         NEW d \in Data \cup {0}, content' = [content EXCEPT ![k] = d],
         middle \subseteq middle', middle' \subseteq HashSet!Bucket,
         b \notin middle' => Increasing(t) /\ Answers(t, b, content')
  PROVE  SetInv'
<1>1. /\ b \in HashSet!Bucket /\ bucket \in [HashSet!Bucket -> Seq(HashSet!SetNode)]
      /\ content \in [Keys -> Data \cup {0}]
      /\ num_entries = Cardinality(HashSet!Places(bucket))
  BY HashUint DEF SetInv, HashSet!TypeOK
<1>2. /\ bucket' \in [HashSet!Bucket -> Seq(HashSet!SetNode)] /\ bucket'[b] = t
      /\ \A c \in HashSet!Bucket \ {b} : bucket'[c] = bucket[c]
  BY <1>1
<1>3. num_entries' = Cardinality(HashSet!Places(bucket')) /\ num_entries' \in Nat
  BY <1>1, PlacesCounted
<1>4. live' \in Nat
  BY <1>3
<1>5. content' \in [Keys -> Data \cup {0}] /\ \A x \in Keys \ {k} : content'[x] = content[x]
  BY <1>1
<1>6. \A c \in HashSet!Bucket : \A i \in DOMAIN bucket'[c] : HashSet!hash_uint(bucket'[c][i].key) = c
  <2> SUFFICES ASSUME NEW c \in HashSet!Bucket, NEW i \in DOMAIN bucket'[c]
               PROVE  HashSet!hash_uint(bucket'[c][i].key) = c
    OBVIOUS
  <2>1. CASE c = b
    BY <2>1, <1>2
  <2>2. CASE c # b
    BY <2>2, <1>2 DEF SetInv, HashSet!TypeOK
  <2> QED BY <2>1, <2>2
<1>7. HashSet!TypeOK'
  BY <1>2, <1>3, <1>4, <1>5, <1>6 DEF HashSet!TypeOK
<1>8. ASSUME NEW c \in HashSet!Bucket \ middle'
      PROVE  Increasing(bucket'[c]) /\ Answers(bucket'[c], c, content')
  <2>1. CASE c = b
    BY <2>1, <1>2, <1>8
  <2>2. CASE c # b
    <3>1. Increasing(bucket[c]) /\ Answers(bucket[c], c, content)
      BY <1>8 DEF SetInv
    <3>2. \A x \in Keys : HashSet!hash_uint(x) = c => content'[x] = content[x]
      BY <2>2, <1>5
    <3> QED BY <3>1, <3>2, <2>2, <1>2 DEF Answers
  <2> QED BY <2>1, <2>2
<1> QED BY <1>3, <1>7, <1>8 DEF SetInv

LEMMA SetAdds ==
  ASSUME HashSet!HashAssumption, SetInv, NEW k \in Keys, NEW d \in Data, HashSet!hash_set_add(k, d)
  PROVE  SetInv'
<1> DEFINE b == HashSet!hash_uint(k)
           s == bucket[b]
           n == [key |-> k, data |-> d]
           t == HashSet!hash_set_list_add(s, n)
<1>1. /\ phase = "live" /\ phase' = phase /\ bucket' = [bucket EXCEPT ![b] = t]
      /\ num_entries' = num_entries + (Len(t) - Len(s)) /\ live' = live + 1
      /\ refused' = refused + (IF t = s THEN 1 ELSE 0)
      /\ content' = (IF content[k] = 0 THEN [content EXCEPT ![k] = d] ELSE content)
      /\ middle' = (IF HashSet!Between(s, k) THEN middle \cup {b} ELSE middle)
  BY DEF HashSet!hash_set_add, HashSet!Counted
<1>2. /\ b \in HashSet!Bucket /\ s \in Seq(HashSet!SetNode) /\ n \in HashSet!SetNode
      /\ n.key = k /\ n.data = d /\ content \in [Keys -> Data \cup {0}] /\ middle \subseteq HashSet!Bucket
      /\ \A i \in DOMAIN s : HashSet!hash_uint(s[i].key) = b
      /\ live = refused + num_entries /\ refused \in Nat /\ num_entries \in Nat
  BY HashUint DEF SetInv, HashSet!TypeOK, HashSet!SetNode
<1>3. AddEffect(s, n, t)
  BY <1>2, AddedNode
<1> HIDE DEF t, n, s, b
<1>4. /\ t \in Seq(HashSet!SetNode) /\ \A i \in DOMAIN t : HashSet!hash_uint(t[i].key) = b
      /\ Len(t) = Len(s) + (IF t = s THEN 0 ELSE 1)
      /\ \A c \in [Keys -> Data \cup {0}] :
           Increasing(s) /\ Answers(s, b, c) /\ ~HashSet!Between(s, k) =>
             Increasing(t) /\ Answers(t, b, IF c[k] = 0 THEN [c EXCEPT ![k] = d] ELSE c)
  BY <1>2, <1>3, AddedAnswers DEF b
<1>5. refused' \in Nat /\ live' = refused' + num_entries'
  <2>1. PICK l \in Nat : l = Len(s)
    BY <1>2
  <2>2. CASE t = s
    <3>1. num_entries' = num_entries + (l - l) /\ refused' = refused + 1
      BY <2>1, <2>2, <1>1
    <3> QED BY <3>1, <1>1, <1>2
  <2>3. CASE t # s
    <3>1. num_entries' = num_entries + ((l + 1) - l) /\ refused' = refused + 0
      BY <2>1, <2>3, <1>1, <1>4
    <3> QED BY <3>1, <1>1, <1>2
  <2> QED BY <2>2, <2>3
<1>6. PICK e \in Data \cup {0} : content' = [content EXCEPT ![k] = e]
  <2>1. CASE content[k] = 0
    BY <2>1, <1>1
  <2>2. CASE content[k] # 0
    <3>1. content' = [content EXCEPT ![k] = content[k]] /\ content[k] \in Data \cup {0}
      BY <2>2, <1>1, <1>2
    <3> QED BY <3>1
  <2> QED BY <2>1, <2>2
<1>7. middle \subseteq middle' /\ middle' \subseteq HashSet!Bucket
  BY <1>1, <1>2
<1>8. ASSUME b \notin middle' PROVE Increasing(t) /\ Answers(t, b, content')
  <2>1. b \notin middle /\ ~HashSet!Between(s, k)
    BY <1>1, <1>8
  <2>2. Increasing(s) /\ Answers(s, b, content)
    BY <2>1, <1>2 DEF SetInv, s
  <2> QED BY <2>1, <2>2, <1>1, <1>2, <1>4
<1> QED BY <1>1, <1>4, <1>5, <1>6, <1>7, <1>8, BucketChanged DEF s, b

LEMMA SetRemoves ==
  ASSUME HashSet!HashAssumption, SetInv, NEW k \in Keys, HashSet!hash_set_remove(k)
  PROVE  SetInv'
<1> DEFINE b == HashSet!hash_uint(k)
           s == bucket[b]
           t == HashSet!hash_set_list_delete(s, k)
<1>1. /\ phase = "live" /\ phase' = phase /\ bucket' = [bucket EXCEPT ![b] = t]
      /\ num_entries' = num_entries + (Len(t) - Len(s)) /\ live' = live + Len(t) - Len(s)
      /\ refused' = refused /\ content' = [content EXCEPT ![k] = 0] /\ middle' = middle
  BY DEF HashSet!hash_set_remove, HashSet!Counted
<1>2. /\ b \in HashSet!Bucket /\ s \in Seq(HashSet!SetNode) /\ content \in [Keys -> Data \cup {0}]
      /\ middle \subseteq HashSet!Bucket /\ \A i \in DOMAIN s : HashSet!hash_uint(s[i].key) = b
      /\ live = refused + num_entries /\ refused \in Nat /\ num_entries \in Nat
  BY HashUint DEF SetInv, HashSet!TypeOK
<1>3. DeleteEffect(s, k, t)
  BY <1>2, DeletedNode
<1> HIDE DEF t, s, b
<1>4. /\ t \in Seq(HashSet!SetNode) /\ \A i \in DOMAIN t : HashSet!hash_uint(t[i].key) = b
      /\ \A c \in [Keys -> Data \cup {0}] :
           Increasing(s) /\ Answers(s, b, c) => Increasing(t) /\ Answers(t, b, [c EXCEPT ![k] = 0])
  BY <1>2, <1>3, DeletedAnswers
<1>5. live' = refused' + num_entries'
  <2>1. PICK l \in Nat, m \in Nat : l = Len(s) /\ m = Len(t)
    BY <1>2, <1>4
  <2>2. live' = live + m - l /\ num_entries' = num_entries + (m - l)
    BY <2>1, <1>1
  <2> QED BY <2>2, <1>1, <1>2
<1>6. ASSUME b \notin middle' PROVE Increasing(t) /\ Answers(t, b, content')
  <2>1. Increasing(s) /\ Answers(s, b, content)
    BY <1>1, <1>2, <1>6 DEF SetInv, s
  <2> QED BY <2>1, <1>1, <1>2, <1>4
<1> QED BY <1>1, <1>2, <1>4, <1>5, <1>6, BucketChanged DEF s, b

LEMMA SetDeleted ==
  ASSUME HashSet!HashAssumption, SetInv, HashSet!hash_set_delete
  PROVE  SetInv'
<1>1. /\ phase' = "none" /\ bucket' = HashSet!Empty /\ num_entries' = 0 /\ middle' = {}
      /\ content' = [k \in Keys |-> 0] /\ refused' = refused
      /\ live' = live - Cardinality(HashSet!Places(bucket))
  BY SameCount DEF HashSet!hash_set_delete, HashSet!Freed, HashSet!Places
<1>2. /\ live = refused + num_entries /\ refused \in Nat /\ num_entries \in Nat
      /\ num_entries = Cardinality(HashSet!Places(bucket))
  BY DEF SetInv, HashSet!TypeOK
<1>3. live' = refused' + num_entries' /\ live' \in Nat
  BY <1>1, <1>2
<1>4. DOMAIN <<>> = {}
  OBVIOUS
<1>5. HashSet!TypeOK'
  BY <1>1, <1>2, <1>3, <1>4, EmptyBuckets DEF HashSet!TypeOK
<1>6. \A b \in HashSet!Bucket : Answers(bucket'[b], b, content')
  BY <1>1, <1>4, EmptyBuckets DEF Answers
<1> QED BY <1>1, <1>3, <1>5, <1>6, EmptyBuckets DEF SetInv

LEMMA SetKept == HashSet!HashAssumption /\ SetInv /\ [HashSet!Next]_HashSet!vars => SetInv'
<1> SUFFICES ASSUME HashSet!HashAssumption, SetInv, [HashSet!Next]_HashSet!vars PROVE SetInv'
  OBVIOUS
<1>1. CASE HashSet!hash_set_create
  <2>1. /\ phase' \in {"live", "wild"} /\ bucket' = bucket /\ num_entries' = num_entries
        /\ UNCHANGED <<live, refused, content, middle>>
    BY <1>1, EmptyBuckets DEF HashSet!hash_set_create, SetInv
  <2> QED BY <2>1 DEF SetInv, HashSet!TypeOK
<1>2. CASE HashSet!AddExhausted
  BY <1>2 DEF HashSet!AddExhausted, SetInv, HashSet!TypeOK
<1>3. CASE UNCHANGED HashSet!vars
  BY <1>3 DEF HashSet!vars, SetInv, HashSet!TypeOK
<1> QED BY <1>1, <1>2, <1>3, SetAdds, SetRemoves, SetDeleted DEF HashSet!Next

LEMMA SetImplies ==
  HashSet!HashAssumption /\ SetInv =>
    HashSet!TypeOK /\ HashSet!EntriesExact /\ HashSet!LookupRight /\ HashSet!OnlyRefusedLeak
<1> SUFFICES ASSUME HashSet!HashAssumption, SetInv
             PROVE  HashSet!EntriesExact /\ HashSet!LookupRight /\ HashSet!OnlyRefusedLeak
  BY DEF SetInv
<1>1. HashSet!EntriesExact
  BY SameCount DEF SetInv, HashSet!EntriesExact
<1>2. HashSet!OnlyRefusedLeak
  BY EmptyBuckets DEF SetInv, HashSet!TypeOK, HashSet!OnlyRefusedLeak
<1>3. ASSUME NEW k \in Keys, HashSet!hash_uint(k) \notin middle
      PROVE  HashSet!hash_set_list_lookup(bucket[HashSet!hash_uint(k)], k) = content[k]
  <2> DEFINE b == HashSet!hash_uint(k)
             s == bucket[b]
  <2>1. b \in HashSet!Bucket /\ s \in Seq(HashSet!SetNode)
    BY HashUint DEF SetInv, HashSet!TypeOK
  <2>2. Increasing(s) /\ Answers(s, b, content)
    BY <2>1, <1>3 DEF SetInv
  <2> HIDE DEF s
  <2>3. PICK m : m = HashSet!Stop(s, k)
    OBVIOUS
  <2>4. /\ k \in Int /\ DOMAIN s = 1..Len(s) /\ Len(s) \in Nat
    BY <2>1, HashKeys
  <2>5. m \in 1..(Len(s) + 1)
    BY <2>1, <2>3, <2>4, StopFacts DEF StopIs
  <2>6. CASE content[k] = 0
    <3>1. ~(m <= Len(s) /\ s[m].key = k)
      <4>1. m <= Len(s) => m \in DOMAIN s
        BY <2>4, <2>5
      <4> QED BY <4>1, <2>2, <2>6 DEF Answers
    <3> QED BY <3>1, <2>3, <2>6 DEF HashSet!hash_set_list_lookup, HashSet!IsAt, s
  <2>7. CASE content[k] # 0
    <3>1. PICK i \in DOMAIN s : s[i].key = k /\ s[i].data = content[k]
      BY <2>2, <2>7 DEF Answers
    <3>2. m = i /\ m <= Len(s)
      BY <3>1, <2>1, <2>2, <2>3, <2>4, StopFinds
    <3> QED BY <3>1, <3>2, <2>3 DEF HashSet!hash_set_list_lookup, HashSet!IsAt, s
  <2> QED BY <2>6, <2>7
<1> QED BY <1>1, <1>2, <1>3 DEF HashSet!LookupRight

-----------------------------------------------------------------------------
(* Lists and hash sets among other parts *)

\* The lists (list.c), whatever they and their nodes are: along the pointers one meets the nodes
\* that were pushed and not removed, in both directions, and the size is off by the inner nodes
\* that were removed.  Hash sets (hash_set.c), whatever their keys, buckets and data are: they
\* count their nodes, find what was stored last unless a node came between two others of the
\* bucket, and leak what was added twice, nothing else.
THEOREM TablesRightHolds == TablesSpec => []TablesRight
<1> DEFINE L == part = "lists"
           H == part = "sets"
           I == (L => ListsInv) /\ (H => SetInv)
<1>0. ListAssumption /\ HashSet!HashAssumption
  BY TablesAssumption
<1>1. TablesInit => I
  BY <1>0, ListsBegin, SetBegins DEF TablesInit, ListsStart, SetsStart, OthersStart
<1>2. I /\ [TablesNext]_<<part, listsVars, setVars>> => I'
  <2> SUFFICES ASSUME I, [TablesNext]_<<part, listsVars, setVars>> PROVE I'
    OBVIOUS
  <2>1. /\ part' = part /\ (L => [ListsNext]_listsVars) /\ (H => [HashSet!Next]_HashSet!vars)
    <3>1. UNCHANGED setVars <=> UNCHANGED HashSet!vars
      BY DEF setVars, HashSet!vars
    <3> QED BY <3>1 DEF TablesNext, ListsStep, SetsStep, OthersStep
  <2>2. CASE L
    BY <2>1, <2>2, <1>0, ListsKept
  <2>3. CASE H
    BY <2>1, <2>3, <1>0, SetKept
  <2>4. CASE ~L /\ ~H
    BY <2>1, <2>4
  <2> QED BY <2>2, <2>3, <2>4
<1>3. I => TablesRight
  BY <1>0, ListsImply, SetImplies DEF TablesRight
<1> HIDE DEF I
<1> QED BY <1>1, <1>2, <1>3, PTL DEF TablesSpec

-----------------------------------------------------------------------------
(* From power on to the kernel *)

\* The sectors of the kernel, and of a cylinder and a disk.
KernelSectors == (disk.size \div SectorSize) + 1
\* The entry of memory for a sector in its place.
Base == Address(KernelSegment, 0)
InPlace(i) == [at |-> Base + ((i - 1) * SectorSize), lba |-> i]
\* A segment and an offset in it, and those of place n.
Segmented(e, b) == \E k \in Nat, j \in 0..127 : k <= 8 /\ e = 4096 * (k + 1) /\ b = 512 * j
PlaceOf(e, b, n) ==
  \E k \in Nat, j \in 0..127 : k <= 8 /\ e = 4096 * (k + 1) /\ b = 512 * j /\ n = (128 * k) + j
Shape == [sectors : MaxSector, heads : MaxHead, cylinders : MaxCylinder, size : KernelSize]

\* Loading: the next sector on the disk is the one that goes to the next place in memory, and
\* the place is given by a segment and an offset below 64k.
LoadInv ==
  /\ ch \in Nat /\ ch <= disk.cylinders /\ dh \in Nat /\ dh <= disk.heads
  /\ cl \in Nat /\ 1 <= cl /\ cl <= disk.sectors
  /\ Segmented(es, bx) /\ (stage = "load" => PlaceOf(es, bx, Len(memory)))
  /\ stage = "load" => Lba(ch, dh, cl) = Len(memory) + 1 /\ Len(memory) < KernelSectors

BootInv ==
  /\ disk \in Shape /\ machine \in [megabytes : Megabytes, modern : BOOLEAN, modes : Modes]
  /\ stage \in {"load", "memory", "video", "main", "halt"}
  /\ memory \in Seq([at : Int, lba : Int]) /\ Len(memory) <= KernelSectors
  /\ \A i \in DOMAIN memory : memory[i] = InPlace(i)
  /\ sectors_left = IF Len(memory) = 0 THEN Unset ELSE KernelSectors - Len(memory)
  /\ stage # "load" => Len(memory) = KernelSectors
  /\ LoadInv
  /\ total_memory \in Nat /\ (stage \in {"load", "memory"} => total_memory = 0)
  /\ stage \in {"video", "main", "halt"} =>
       /\ total_memory <= machine.megabytes
       /\ machine.modern \/ machine.megabytes <= 64 => total_memory >= machine.megabytes - 1
  /\ mode \in 0..4 /\ (mode = 0 <=> stage = "halt")
  /\ \A n \in machine.modes : n <= mode
  /\ stage = "main" => mode \in machine.modes

\* What the assumptions say of a disk.
LEMMA DiskFacts ==
  ASSUME BootAssumption, SmallDisks, disk \in Shape
  PROVE  /\ disk.sectors \in Nat /\ 2 <= disk.sectors /\ disk.sectors <= 63
         /\ disk.heads \in Nat /\ disk.heads <= 127
         /\ disk.cylinders \in Nat /\ disk.cylinders <= 127
         /\ disk.size \in Nat /\ 1 <= disk.size
         /\ KernelSectors \in Nat /\ 1 <= KernelSectors /\ KernelSectors <= 1152
         /\ disk.size <= KernelSectors * 512
         /\ KernelSectors = (disk.size \div SectorSize) + 1
         /\ KernelSectors < (disk.cylinders + 1) * ((disk.heads + 1) * disk.sectors)
         /\ disk.heads = 127 => KernelSectors < (disk.heads + 1) * disk.sectors
<1>1. PICK s \in MaxSector, h \in MaxHead, c \in MaxCylinder, z \in KernelSize :
        disk.sectors = s /\ disk.heads = h /\ disk.cylinders = c /\ disk.size = z
  BY DEF Shape
<1>2. /\ s \in Nat /\ 2 <= s /\ s <= 63 /\ h \in Nat /\ h <= 127 /\ c \in Nat /\ c <= 127
      /\ z \in Nat /\ 1 <= z /\ z < 1152 * 512
  <2>1. s \in 2..63
    BY <1>1 DEF BootAssumption
  <2>2. h \in 0..127 /\ c \in 0..127
    BY <1>1 DEF SmallDisks
  <2>3. z \in Nat \ {0} /\ z < 1152 * 512
    BY <1>1 DEF BootAssumption, SectorSize
  <2> QED BY <2>1, <2>2, <2>3
<1>3. FitsOn(z, (c + 1) * ((h + 1) * s)) /\ (h = 127 => FitsOn(z, (h + 1) * s))
  <2>1. \A s1 \in MaxSector, h1 \in MaxHead, c1 \in MaxCylinder, z1 \in KernelSize :
          FitsOn(z1, (c1 + 1) * ((h1 + 1) * s1)) /\ (h1 = 127 => FitsOn(z1, (h1 + 1) * s1))
    BY DEF SmallDisks
  <2>2. s \in MaxSector /\ h \in MaxHead /\ c \in MaxCylinder /\ z \in KernelSize
    BY <1>1
  <2> HIDE DEF SmallDisks
  <2> QED BY <2>1, <2>2, Zenon
<1>4. PICK q \in Int : q = z \div 512
  BY <1>2
<1>5. KernelSectors = q + 1
  BY <1>1, <1>4 DEF KernelSectors, SectorSize
<1>6. q \in Nat /\ q + 1 <= 1152 /\ z <= (q + 1) * 512
  BY <1>2, <1>4
<1>7. /\ q + 1 < (c + 1) * ((h + 1) * s)
      /\ h = 127 => q + 1 < (h + 1) * s
  BY <1>3, <1>4 DEF FitsOn, SectorSize
<1> QED BY <1>1, <1>2, <1>5, <1>6, <1>7 DEF KernelSectors

\* The counters of nextsector count the sectors of the disk, as long as it has more of them.
LEMMA NextOnDisk ==
  ASSUME BootAssumption, SmallDisks, disk \in Shape,
         ch \in Nat, ch <= disk.cylinders, dh \in Nat, dh <= disk.heads,
         cl \in Nat, 1 <= cl, cl <= disk.sectors, Lba(ch, dh, cl) < KernelSectors
  PROVE  LET next == NextSector
         IN  /\ next[1] \in Nat /\ next[1] <= disk.cylinders
             /\ next[2] \in Nat /\ next[2] <= disk.heads
             /\ next[3] \in Nat /\ 1 <= next[3] /\ next[3] <= disk.sectors
             /\ Lba(next[1], next[2], next[3]) = Lba(ch, dh, cl) + 1
             /\ Goes(next)
<1>1. PICK S \in Nat, H \in Nat, C \in Nat, K \in Nat :
        /\ S = disk.sectors /\ H = disk.heads + 1 /\ C = disk.cylinders /\ K = KernelSectors
        /\ disk.heads = H - 1
        /\ 2 <= S /\ S <= 63 /\ 1 <= H /\ H <= 128 /\ C <= 127
        /\ K < (C + 1) * (H * S) /\ (H = 128 => K < H * S)
  <2>1. /\ disk.sectors \in Nat /\ 2 <= disk.sectors /\ disk.sectors <= 63
        /\ disk.heads \in Nat /\ disk.heads <= 127
        /\ disk.cylinders \in Nat /\ disk.cylinders <= 127 /\ KernelSectors \in Nat
        /\ KernelSectors < (disk.cylinders + 1) * ((disk.heads + 1) * disk.sectors)
        /\ disk.heads = 127 => KernelSectors < (disk.heads + 1) * disk.sectors
    BY DiskFacts
  <2>2. PICK h \in Nat : h = disk.heads
    BY <2>1
  <2>3. h + 1 \in Nat /\ h = (h + 1) - 1 /\ (h + 1 = 128 => h = 127) /\ 1 <= h + 1 /\ h + 1 <= 128
    BY <2>1, <2>2
  <2> QED BY <2>1, <2>2, <2>3
<1>2. \A c, h, s : Lba(c, h, s) = (((c * H) + h) * S) + s - 1
  BY <1>1 DEF Lba
<1>3. \A a, b \in Int : (a + 1) * b = (a * b) + b
  OBVIOUS
<1>4. \A a, b, c \in Int : a * (b * c) = (a * b) * c
  OBVIOUS
<1>5. /\ ch \in Nat /\ ch <= C /\ dh \in Nat /\ dh <= H - 1 /\ cl \in Nat /\ 1 <= cl /\ cl <= S
  BY <1>1
<1>6. /\ InTrack(cl + 1) <=> cl + 1 <= S
      /\ Signed(disk.heads) = H - 1 /\ Signed(disk.cylinders % 256) = C
      /\ (ch + 1) % 256 = ch + 1
      /\ dh + 1 < 128 => Signed((dh + 1) % 256) = dh + 1 /\ (dh + 1) % 256 = dh + 1
      /\ ch < C => Signed(ch + 1) = ch + 1
  <2>1. \A x \in Nat : x <= 127 => Signed(x) = x
    BY DEF Signed
  <2>2. \A x \in Nat : x <= 128 => x % 256 = x
    OBVIOUS
  <2>3. InTrack(cl + 1) <=> cl + 1 <= S
    <3>1. Signed(cl + 1) = cl + 1 /\ Signed(S) = S
      BY <2>1, <1>1, <1>5
    <3> QED BY <3>1, <1>1 DEF InTrack
  <2>4. Signed(H - 1) = H - 1 /\ Signed(C % 256) = C /\ (ch + 1) % 256 = ch + 1
    <3>1. C % 256 = C /\ (ch + 1) % 256 = ch + 1 /\ H - 1 \in Nat /\ H - 1 <= 127
      BY <2>2, <1>1, <1>5
    <3> QED BY <3>1, <2>1, <1>1
  <2>5. dh + 1 < 128 => Signed((dh + 1) % 256) = dh + 1 /\ (dh + 1) % 256 = dh + 1
    BY <2>1, <2>2, <1>5
  <2>6. ch < C => Signed(ch + 1) = ch + 1
    BY <2>1, <1>1, <1>5
  <2> QED BY <2>3, <2>4, <2>5, <2>6, <1>1
<1>7. PICK m \in Int : m = ch * H
  BY <1>1
<1>8. PICK n \in Int : n = (m + dh) * S
  BY <1>1, <1>7
<1>9. Lba(ch, dh, cl) = n + cl - 1 /\ n + cl - 1 < K
  <2>1. Lba(ch, dh, cl) = n + cl - 1
    BY <1>2, <1>7, <1>8
  <2> QED BY <2>1, <1>1
<1> DEFINE Right(next) == /\ next[1] \in Nat /\ next[1] <= C
                          /\ next[2] \in Nat /\ next[2] <= H - 1
                          /\ next[3] \in Nat /\ 1 <= next[3] /\ next[3] <= S
                          /\ Lba(next[1], next[2], next[3]) = (n + cl - 1) + 1
                          /\ Goes(next)
<1>10. ASSUME cl + 1 <= S PROVE Right(NextSector)
  <2>1. NextSector = <<ch, dh, cl + 1>>
    BY <1>6, <1>10 DEF NextSector
  <2>2. Lba(ch, dh, cl + 1) = (n + cl - 1) + 1
    <3>1. Lba(ch, dh, cl + 1) = n + (cl + 1) - 1
      BY <1>2, <1>7, <1>8
    <3> QED BY <3>1, <1>5, <1>8
  <2>3. Goes(<<ch, dh, cl + 1>>)
    BY DEF Goes
  <2>4. Right(<<ch, dh, cl + 1>>)
    BY <2>2, <2>3, <1>5, <1>10
  <2> QED BY <2>1, <2>4
<1>11. ASSUME cl = S /\ dh + 1 < H PROVE Right(NextSector)
  <2>1. dh + 1 < 128 /\ dh + 1 <= H - 1
    BY <1>1, <1>5, <1>11
  <2>2. NextSector = <<ch, dh + 1, 1>>
    <3>1. ~InTrack(cl + 1)
      BY <1>6, <1>11, <1>1
    <3>2. Signed((dh + 1) % 256) <= Signed(disk.heads)
      BY <2>1, <1>6
    <3> QED BY <2>1, <3>1, <3>2, <1>6 DEF NextSector
  <2>3. Lba(ch, dh + 1, 1) = (n + cl - 1) + 1
    <3>1. (m + (dh + 1)) * S = ((m + dh) + 1) * S
      BY <1>7, <1>5
    <3>2. ((m + dh) + 1) * S = n + S
      BY <1>1, <1>3, <1>5, <1>7, <1>8
    <3>3. Lba(ch, dh + 1, 1) = ((m + (dh + 1)) * S) + 1 - 1
      BY <1>2, <1>7
    <3> QED BY <3>1, <3>2, <3>3, <1>1, <1>5, <1>8, <1>11
  <2>4. Goes(<<ch, dh + 1, 1>>)
    BY DEF Goes
  <2>5. Right(<<ch, dh + 1, 1>>)
    BY <2>1, <2>3, <2>4, <1>1, <1>5
  <2> QED BY <2>2, <2>5
<1>12. ASSUME cl = S /\ dh + 1 = H PROVE Right(NextSector)
  <2>1. (ch + 1) * H = (m + dh) + 1
    <3>1. (ch + 1) * H = m + H
      <4>1. ch \in Int /\ H \in Int
        BY <1>1, <1>5
      <4>2. (ch + 1) * H = (ch * H) + H
        BY <4>1, <1>3, Zenon
      <4> QED BY <4>2, <1>7, Zenon
    <3>2. m + H = (m + dh) + 1
      BY <1>1, <1>5, <1>7, <1>12
    <3> QED BY <3>1, <3>2, Zenon
  <2>2. ((ch + 1) * H) * S = n + S
    BY <2>1, <1>1, <1>3, <1>5, <1>7, <1>8
  <2>3. n + S - 1 < K
    BY <1>9, <1>12
  <2>4. ch < C
    <3> SUFFICES ASSUME ch = C PROVE FALSE
      BY <1>1, <1>5
    <3>1. (C + 1) * (H * S) = n + S
      BY <1>1, <1>4, <2>2
    <3> QED BY <3>1, <2>3, <1>1, <1>8
  <2>5. H < 128
    <3> SUFFICES ASSUME H = 128 PROVE FALSE
      BY <1>1
    <3>1. PICK a \in Nat : a = ch * H
      BY <1>1, <1>5
    <3>2. PICK b \in Nat : b = a * S
      BY <3>1, <1>1
    <3>3. PICK g \in Nat : g = H * S
      BY <1>1
    <3>4. (a + H) * S = b + g
      BY <3>1, <3>2, <3>3, <1>1
    <3>5. (ch + 1) * H = a + H
      BY <3>1, <1>1, <1>3, <1>5
    <3>6. n + S = b + g
      BY <3>4, <3>5, <2>2
    <3> QED BY <3>2, <3>3, <3>6, <2>3, <1>1, <1>8
  <2>6. NextSector = <<ch + 1, 0, 1>>
    <3>1. ~InTrack(cl + 1)
      BY <1>6, <1>12, <1>1
    <3>2. ~(Signed((dh + 1) % 256) <= Signed(disk.heads))
      BY <2>5, <1>6, <1>12, <1>1
    <3> QED BY <3>1, <3>2, <1>6 DEF NextSector
  <2>7. Goes(<<ch + 1, 0, 1>>)
    BY <2>4, <1>1, <1>5, <1>6 DEF Goes
  <2>8. Lba(ch + 1, 0, 1) = (n + cl - 1) + 1
    <3>1. PICK u \in Int : u = (ch + 1) * H
      BY <1>1, <1>5
    <3>2. Lba(ch + 1, 0, 1) = ((u + 0) * S) + 1 - 1
      BY <1>2, <3>1
    <3>3. (u + 0) * S = n + S
      BY <3>1, <2>2
    <3> QED BY <3>2, <3>3, <1>1, <1>5, <1>8, <1>12
  <2>9. Right(<<ch + 1, 0, 1>>)
    BY <2>4, <2>7, <2>8, <1>1, <1>5
  <2> QED BY <2>6, <2>9
<1>13. Right(NextSector)
  BY <1>1, <1>5, <1>10, <1>11, <1>12
<1> QED BY <1>1, <1>9, <1>13

\* The next place in memory: a segment has 128 sectors.
LEMMA NextPlace ==
  ASSUME NEW n \in Nat, n < 1151, PlaceOf(es, bx, n)
  PROVE  PlaceOf(NextSegment(bx + SectorSize)[1], NextSegment(bx + SectorSize)[2], n + 1)
<1>1. PICK k \in Nat, j \in 0..127 :
        k <= 8 /\ es = 4096 * (k + 1) /\ bx = 512 * j /\ n = (128 * k) + j
  BY DEF PlaceOf
<1>2. bx + SectorSize = 512 * (j + 1) /\ j + 1 \in Nat /\ j + 1 <= 128
  BY <1>1 DEF SectorSize
<1>3. CASE j = 127
  <2>1. NextSegment(bx + SectorSize) = <<es + 4096, 0>>
    BY <1>2, <1>3 DEF NextSegment
  <2>2. /\ k + 1 \in Nat /\ k + 1 <= 8 /\ 0 \in 0..127
        /\ es + 4096 = 4096 * ((k + 1) + 1) /\ 0 = 512 * 0 /\ n + 1 = (128 * (k + 1)) + 0
    BY <1>1, <1>3
  <2>3. PlaceOf(es + 4096, 0, n + 1)
    BY <2>2 DEF PlaceOf
  <2> QED BY <2>1, <2>3
<1>4. CASE j # 127
  <2>1. NextSegment(bx + SectorSize) = <<es, bx + SectorSize>>
    BY <1>2, <1>4 DEF NextSegment
  <2>2. j + 1 \in 0..127 /\ n + 1 = (128 * k) + (j + 1)
    BY <1>1, <1>4
  <2>3. PlaceOf(es, bx + SectorSize, n + 1)
    BY <1>1, <1>2, <2>2 DEF PlaceOf
  <2> QED BY <2>1, <2>3
<1> QED BY <1>3, <1>4

\* Where a place is.
LEMMA PlaceAddress ==
  ASSUME NEW n, PlaceOf(es, bx, n)
  PROVE  Address(es, bx) = Base + (n * SectorSize) /\ n \in Nat /\ Base \in Nat
<1>1. PICK k \in Nat, j \in 0..127 :
        k <= 8 /\ es = 4096 * (k + 1) /\ bx = 512 * j /\ n = (128 * k) + j
  BY DEF PlaceOf
<1>2. Address(es, bx) = ((4096 * (k + 1)) * 16) + (512 * j)
  BY <1>1 DEF Address
<1>3. Base = (4096 * 16) + 0
  BY DEF Address, Base, KernelSegment
<1> QED BY <1>1, <1>2, <1>3, SMT DEF SectorSize

\* A place is one in a segment.
LEMMA PlaceSegmented ==
  ASSUME NEW e, NEW b, NEW n, PlaceOf(e, b, n)
  PROVE  Segmented(e, b)
BY DEF PlaceOf, Segmented

LEMMA BootBegins ==
  ASSUME BootAssumption, SmallDisks, BootInit
  PROVE  BootInv
<1>1. /\ disk \in Shape /\ machine \in [megabytes : Megabytes, modern : BOOLEAN, modes : Modes]
      /\ ch = 0 /\ dh = 0 /\ cl = 2 /\ es = KernelSegment /\ bx = 0 /\ sectors_left = Unset
      /\ memory = <<>> /\ total_memory = 0 /\ mode = 4 /\ stage = "load"
  BY DEF BootInit, Shape
<1>2. memory \in Seq([at : Int, lba : Int]) /\ Len(memory) = 0 /\ DOMAIN memory = {}
  BY <1>1
<1>3. /\ KernelSectors \in Nat /\ 1 <= KernelSectors
      /\ disk.sectors \in Nat /\ 2 <= disk.sectors /\ disk.heads \in Nat /\ disk.cylinders \in Nat
  BY <1>1, DiskFacts
<1>4. LoadInv
  <2>1. PlaceOf(es, bx, Len(memory)) /\ Segmented(es, bx)
    <3>1. /\ 0 \in Nat /\ 0 \in 0..127 /\ 0 <= 8 /\ es = 4096 * (0 + 1) /\ bx = 512 * 0
          /\ Len(memory) = (128 * 0) + 0
      BY <1>1, <1>2 DEF KernelSegment
    <3>2. PlaceOf(es, bx, Len(memory))
      BY <3>1 DEF PlaceOf
    <3> QED BY <3>2, PlaceSegmented
  <2>2. Lba(ch, dh, cl) = Len(memory) + 1
    <3>1. Lba(0, 0, 2) = (((0 * (disk.heads + 1)) + 0) * disk.sectors) + 2 - 1
      BY DEF Lba
    <3>2. 0 * (disk.heads + 1) = 0 /\ 0 * disk.sectors = 0
      BY <1>3
    <3> QED BY <3>1, <3>2, <1>1, <1>2
  <2>3. Len(memory) < KernelSectors
    BY <1>2, <1>3
  <2>4. /\ ch \in Nat /\ ch <= disk.cylinders /\ dh \in Nat /\ dh <= disk.heads
        /\ cl \in Nat /\ 1 <= cl /\ cl <= disk.sectors
    BY <1>1, <1>3
  <2> QED BY <2>1, <2>2, <2>3, <2>4 DEF LoadInv
<1>5. \A n \in machine.modes : n <= mode
  BY <1>1 DEF BootAssumption
<1> QED BY <1>1, <1>2, <1>3, <1>4, <1>5 DEF BootInv

\* A sequence grows by one entry, and keeps what an operator says of its entries.
LEMMA Grown ==
  ASSUME NEW S, NEW s \in Seq(S), NEW e \in S, NEW t, t = Append(s, e),
         NEW f, \A i \in DOMAIN s : s[i] = f[i], e = f[Len(s) + 1]
  PROVE  t \in Seq(S) /\ Len(t) = Len(s) + 1 /\ \A i \in DOMAIN t : t[i] = f[i]
<1>1. PICK n \in Nat : n = Len(s)
  OBVIOUS
<1>2. t \in Seq(S) /\ Len(t) = n + 1
  BY <1>1
<1>3. t[n + 1] = e
  BY <1>1
<1>4. \A i \in 1..n : t[i] = s[i]
  BY <1>1
<1>5. DOMAIN s = 1..n
  BY <1>1
<1>6. DOMAIN t = 1..(n + 1)
  BY <1>2
<1>7. \A i \in 1..(n + 1) : i \in 1..n \/ i = n + 1
  BY <1>1
<1> QED BY <1>1, <1>2, <1>3, <1>4, <1>5, <1>6, <1>7

\* loadsector.
LEMMA SectorLoaded ==
  ASSUME BootAssumption, SmallDisks, BootInv, loadsector
  PROVE  BootInv'
<1> DEFINE L == Len(memory)
           T == KernelSectors
           Next1 == [at |-> Address(es, bx), lba |-> Lba(ch, dh, cl)]
<1>1. /\ disk' = disk /\ machine' = machine /\ total_memory' = total_memory /\ mode' = mode
      /\ stage = "load" /\ sectors_left' = Remaining /\ memory' = Append(memory, Next1)
  BY DEF loadsector
<1>2. /\ disk \in Shape /\ L \in Nat /\ L < T /\ memory \in Seq([at : Int, lba : Int])
      /\ Lba(ch, dh, cl) = L + 1 /\ T \in Nat /\ T <= 1152 /\ T' = T
      /\ ch \in Nat /\ ch <= disk.cylinders /\ dh \in Nat /\ dh <= disk.heads
      /\ cl \in Nat /\ 1 <= cl /\ cl <= disk.sectors
  <2>1. T' = T
    BY <1>1 DEF KernelSectors
  <2>2. disk \in Shape /\ memory \in Seq([at : Int, lba : Int])
    BY DEF BootInv
  <2> QED BY <1>1, <2>1, <2>2, DiskFacts DEF BootInv, LoadInv
<1>3. Segmented(es, bx) /\ PlaceOf(es, bx, L)
  <2>1. LoadInv
    BY DEF BootInv
  <2> QED BY <2>1, <1>1 DEF LoadInv
<1>4. Next1 = InPlace(L + 1) /\ Next1 \in [at : Int, lba : Int]
  <2>1. Address(es, bx) = Base + (L * SectorSize) /\ Base \in Int /\ L * SectorSize \in Int
    BY <1>2, <1>3, PlaceAddress DEF SectorSize
  <2>2. (L + 1) - 1 = L /\ L + 1 \in Int
    BY <1>2
  <2>3. Base + (L * SectorSize) \in Int
    BY <2>1
  <2> QED BY <2>1, <2>2, <2>3, <1>2 DEF InPlace
<1>5. /\ memory' \in Seq([at : Int, lba : Int]) /\ Len(memory') = L + 1
      /\ \A i \in DOMAIN memory' : memory'[i] = InPlace(i)
  <2>1. \A i \in DOMAIN memory : memory[i] = InPlace(i)
    BY DEF BootInv
  <2> DEFINE f == [i \in Nat |-> InPlace(i)]
  <2>2. DOMAIN memory \subseteq Nat /\ L + 1 \in Nat
    BY <1>2
  <2>3. (\A i \in DOMAIN memory : memory[i] = f[i]) /\ Next1 = f[L + 1]
    BY <2>1, <2>2, <1>4
  <2>4. \A i \in Nat : f[i] = InPlace(i)
    OBVIOUS
  <2> HIDE DEF f, Next1
  <2>5. /\ memory' \in Seq([at : Int, lba : Int]) /\ Len(memory') = L + 1
        /\ \A i \in DOMAIN memory' : memory'[i] = f[i]
    <3> DEFINE R == [at : Int, lba : Int]
    <3> HIDE DEF R
    <3>1. memory \in Seq(R) /\ Next1 \in R /\ memory' = Append(memory, Next1)
      BY <1>1, <1>2, <1>4 DEF R
    <3>2. memory' \in Seq(R) /\ Len(memory') = L + 1 /\ \A i \in DOMAIN memory' : memory'[i] = f[i]
      BY <3>1, <2>3, Grown
    <3> QED BY <3>2 DEF R
  <2>6. DOMAIN memory' \subseteq Nat
    BY <2>5
  <2> QED BY <2>4, <2>5, <2>6
<1>6. Remaining = T - (L + 1)
  <2>1. sectors_left = IF L = 0 THEN Unset ELSE T - L
    BY DEF BootInv
  <2>2. T - L # Unset /\ Unset \in Int
    BY <1>2, SMT DEF Unset
  <2>3. Remaining = (IF sectors_left = Unset THEN T ELSE sectors_left) - 1
    BY DEF Remaining, KernelSectors
  <2> QED BY <2>1, <2>2, <2>3, <1>2
<1>7. CASE Remaining = 0
  <2>1. /\ stage' = "memory" /\ ch' = ch /\ dh' = dh /\ cl' = cl /\ es' = es /\ bx' = bx
    BY <1>7 DEF loadsector
  <2>2. L + 1 = T
    BY <1>6, <1>7, <1>2
  <2>3. LoadInv'
    <3>1. /\ ch' \in Nat /\ ch' <= disk'.cylinders /\ dh' \in Nat /\ dh' <= disk'.heads
          /\ cl' \in Nat /\ 1 <= cl' /\ cl' <= disk'.sectors
      BY <2>1, <1>1, <1>2
    <3>2. Segmented(es, bx)' /\ stage' # "load"
      BY <2>1, <1>3 DEF Segmented
    <3> QED BY <3>1, <3>2 DEF LoadInv
  <2> QED BY <1>1, <1>2, <1>5, <1>6, <2>1, <2>2, <2>3 DEF BootInv
<1>8. CASE Remaining # 0
  <2>1. L + 1 < T
    BY <1>6, <1>8, <1>2
  <2>2. LET next == NextSector
        IN  /\ next[1] \in Nat /\ next[1] <= disk.cylinders
            /\ next[2] \in Nat /\ next[2] <= disk.heads
            /\ next[3] \in Nat /\ 1 <= next[3] /\ next[3] <= disk.sectors
            /\ Lba(next[1], next[2], next[3]) = L + 2
            /\ Goes(next)
    <3>1. Lba(ch, dh, cl) < KernelSectors /\ Lba(ch, dh, cl) + 1 = L + 2
      BY <1>2, <2>1
    <3> QED BY <3>1, <1>2, NextOnDisk
  <2>3. /\ PlaceOf(NextSegment(bx + SectorSize)[1], NextSegment(bx + SectorSize)[2], L + 1)
    BY <2>1, <1>2, <1>3, NextPlace
  <2>4. /\ es' = NextSegment(bx + SectorSize)[1] /\ bx' = NextSegment(bx + SectorSize)[2]
        /\ ch' = NextSector[1] /\ dh' = NextSector[2] /\ cl' = NextSector[3]
        /\ stage' = "load"
    BY <1>8, <2>2 DEF loadsector
  <2>5. Lba(ch, dh, cl)' = (L + 1) + 1
    <3>1. Lba(ch, dh, cl)' = Lba(NextSector[1], NextSector[2], NextSector[3])
      BY <1>1, <2>4 DEF Lba
    <3> QED BY <3>1, <2>2, <1>2
  <2>6. /\ ch' \in Nat /\ ch' <= disk.cylinders /\ dh' \in Nat /\ dh' <= disk.heads
        /\ cl' \in Nat /\ 1 <= cl' /\ cl' <= disk.sectors
    BY <2>2, <2>4
  <2>7. LoadInv'
    <3>1. /\ ch' <= disk'.cylinders /\ dh' <= disk'.heads /\ cl' <= disk'.sectors
          /\ Lba(ch, dh, cl)' = Len(memory') + 1 /\ Len(memory') < KernelSectors'
      BY <2>1, <2>5, <2>6, <1>1, <1>2, <1>5
    <3>2. PlaceOf(es', bx', Len(memory'))
      BY <2>3, <2>4, <1>5
    <3>3. Segmented(es', bx')
      BY <3>2, PlaceSegmented
    <3>4. PlaceOf(es, bx, Len(memory))'
      BY <3>2 DEF PlaceOf
    <3>5. Segmented(es, bx)'
      BY <3>3 DEF Segmented
    <3> QED BY <3>1, <3>4, <3>5, <2>6 DEF LoadInv
  <2>8. L + 1 # 0 /\ L + 1 <= T
    BY <1>2
  <2> QED BY <1>1, <1>2, <1>5, <1>6, <2>4, <2>7, <2>8 DEF BootInv
<1> QED BY <1>7, <1>8

\* The two tests of memory, in megabytes.
LEMMA MemtestRight ==
  ASSUME machine.megabytes \in Nat, 3 <= machine.megabytes
  PROVE  /\ memtest \in Nat /\ memtest <= machine.megabytes
         /\ machine.modern \/ machine.megabytes <= 64 => memtest >= machine.megabytes - 1
<1>1. PICK m \in Nat : m = machine.megabytes /\ 3 <= m
  OBVIOUS
<1>2. \A x \in Nat : (1024 * x) \div 1024 = x /\ (16 * x) \div 16 = x
  OBVIOUS
<1>3. \A n \in Nat : Least(m, n) = IF m < n THEN m ELSE n
  BY DEF Least
<1>4. CASE machine.modern
  <2>1. PICK a \in Nat, b \in Nat :
          /\ a = (IF m < 16 THEN m ELSE 16) - 1 /\ b = (IF m > 16 THEN m - 16 ELSE 0)
    BY <1>1
  <2>2. Call_e801[1] = 1024 * a /\ Call_e801[2] = 16 * b
    BY <1>1, <1>3, <2>1 DEF Call_e801
  <2>3. memtest = a + b
    BY <1>2, <1>4, <2>1, <2>2 DEF memtest
  <2> QED BY <1>1, <2>1, <2>3
<1>5. CASE ~machine.modern
  <2>1. PICK a \in Nat : a = (IF m < 64 THEN m ELSE 64) - 1
    BY <1>1
  <2>2. Call_88 = 1024 * a
    BY <1>1, <1>3, <2>1 DEF Call_88
  <2>3. memtest = a + 1
    BY <1>2, <1>5, <2>1, <2>2 DEF memtest
  <2> QED BY <1>1, <1>5, <2>1, <2>3
<1> QED BY <1>4, <1>5

\* What the assumptions say of the rest of the machine.
LEMMA MachineFacts ==
  ASSUME BootAssumption, machine \in [megabytes : Megabytes, modern : BOOLEAN, modes : Modes]
  PROVE  /\ machine.megabytes \in Nat /\ 3 <= machine.megabytes /\ machine.megabytes <= 4095
         /\ machine.modes \subseteq 1..4
<1>1. PICK m \in Megabytes, v \in Modes : machine.megabytes = m /\ machine.modes = v
  OBVIOUS
<1>2. Megabytes \subseteq 3..4095 /\ Modes \subseteq SUBSET (1..4)
  BY DEF BootAssumption
<1>3. m \in 3..4095 /\ v \in SUBSET (1..4)
  BY <1>2
<1> QED BY <1>1, <1>3

\* What stays as it is once the kernel is loaded.
LEMMA BootUnchanged ==
  ASSUME BootInv, stage' \in {"memory", "video", "main", "halt"}, stage # "load",
         UNCHANGED <<disk, ch, dh, cl, es, bx, sectors_left, memory, machine>>
  PROVE  /\ disk' \in Shape /\ machine' \in [megabytes : Megabytes, modern : BOOLEAN, modes : Modes]
         /\ memory' \in Seq([at : Int, lba : Int]) /\ Len(memory') <= KernelSectors'
         /\ \A i \in DOMAIN memory' : memory'[i] = InPlace(i)
         /\ sectors_left' = IF Len(memory') = 0 THEN Unset ELSE KernelSectors' - Len(memory')
         /\ Len(memory') = KernelSectors'
         /\ LoadInv'
<1>1. KernelSectors' = KernelSectors
  BY DEF KernelSectors
<1>2. LoadInv'
  <2>1. Segmented(es, bx)'
    BY DEF BootInv, LoadInv, Segmented
  <2>2. stage' # "load"
    OBVIOUS
  <2> QED BY <2>1, <2>2 DEF BootInv, LoadInv
<1> QED BY <1>1, <1>2 DEF BootInv

LEMMA BootKept ==
  ASSUME BootAssumption, SmallDisks, BootInv, [BootNext]_bootVars
  PROVE  BootInv'
<1>1. CASE loadsector
  BY <1>1, SectorLoaded
<1>2. CASE Measure
  <2>1. /\ stage = "memory" /\ total_memory' = memtest /\ stage' = "video" /\ mode' = mode
        /\ UNCHANGED <<disk, ch, dh, cl, es, bx, sectors_left, memory, machine>>
    BY <1>2 DEF Measure
  <2>2. machine.megabytes \in Nat /\ 3 <= machine.megabytes
    <3>1. machine \in [megabytes : Megabytes, modern : BOOLEAN, modes : Modes]
      BY DEF BootInv
    <3> QED BY <3>1, MachineFacts
  <2>3. /\ total_memory' \in Nat /\ total_memory' <= machine'.megabytes
        /\ (machine'.modern \/ machine'.megabytes <= 64) =>
             total_memory' >= machine'.megabytes - 1
    BY <2>1, <2>2, MemtestRight
  <2>4. /\ mode' \in 0..4 /\ (mode' = 0 <=> stage' = "halt") /\ \A n \in machine'.modes : n <= mode'
    BY <2>1 DEF BootInv
  <2> QED BY <2>1, <2>3, <2>4, BootUnchanged DEF BootInv
<1>3. CASE Set
  <2>1. /\ stage = "video" /\ mode \in machine.modes /\ stage' = "main"
        /\ mode' = mode /\ total_memory' = total_memory
        /\ UNCHANGED <<disk, ch, dh, cl, es, bx, sectors_left, memory, machine>>
    BY <1>3 DEF Set
  <2>2. /\ total_memory' \in Nat /\ total_memory' <= machine'.megabytes
        /\ (machine'.modern \/ machine'.megabytes <= 64) =>
             total_memory' >= machine'.megabytes - 1
    BY <2>1 DEF BootInv
  <2>3. /\ mode' \in 0..4 /\ (mode' = 0 <=> stage' = "halt") /\ \A n \in machine'.modes : n <= mode'
    BY <2>1 DEF BootInv
  <2> QED BY <2>1, <2>2, <2>3, BootUnchanged DEF BootInv
<1>4. CASE TryNext
  <2>1. /\ stage = "video" /\ mode \notin machine.modes /\ mode' = mode - 1
        /\ stage' = (IF mode' = 0 THEN "halt" ELSE stage)
        /\ total_memory' = total_memory
        /\ UNCHANGED <<disk, ch, dh, cl, es, bx, sectors_left, memory, machine>>
    BY <1>4 DEF TryNext, NextMode
  <2>2. /\ total_memory' \in Nat /\ total_memory' <= machine'.megabytes
        /\ (machine'.modern \/ machine'.megabytes <= 64) =>
             total_memory' >= machine'.megabytes - 1
    BY <2>1 DEF BootInv
  <2>3. mode \in 1..4 /\ \A n \in machine.modes : n <= mode /\ n \in 1..4
    <3>1. mode \in 0..4 /\ mode # 0 /\ \A n \in machine.modes : n <= mode
      BY <2>1 DEF BootInv
    <3>2. machine \in [megabytes : Megabytes, modern : BOOLEAN, modes : Modes]
      BY DEF BootInv
    <3>3. machine.modes \subseteq 1..4
      BY <3>2, MachineFacts
    <3> QED BY <3>1, <3>3
  <2>4. mode' \in 0..4 /\ (mode' = 0 <=> stage' = "halt")
    BY <2>1, <2>3
  <2>5. \A n \in machine'.modes : n <= mode'
    BY <2>1, <2>3
  <2>6. stage' \in {"video", "halt"}
    BY <2>1
  <2> QED BY <2>1, <2>2, <2>4, <2>5, <2>6, BootUnchanged DEF BootInv
<1>5. CASE UNCHANGED bootVars
  <2>1. /\ UNCHANGED <<disk, ch, dh, cl, es, bx, sectors_left, memory, machine>>
        /\ total_memory' = total_memory /\ mode' = mode /\ stage' = stage
    BY <1>5 DEF bootVars
  <2>2. KernelSectors' = KernelSectors
    BY <2>1 DEF KernelSectors
  <2>3. LoadInv'
    <3>1. Segmented(es, bx)' /\ (stage' = "load" => PlaceOf(es, bx, Len(memory))')
      BY <2>1 DEF BootInv, LoadInv, Segmented, PlaceOf
    <3>2. Lba(ch, dh, cl)' = Lba(ch, dh, cl)
      BY <2>1 DEF Lba
    <3> QED BY <2>1, <2>2, <3>1, <3>2 DEF BootInv, LoadInv
  <2> QED BY <2>1, <2>2, <2>3 DEF BootInv
<1> QED BY <1>1, <1>2, <1>3, <1>4, <1>5 DEF BootNext, Stopped

LEMMA BootImplies ==
  ASSUME BootAssumption, SmallDisks, BootInv
  PROVE  BootTypeOK /\ Loaded /\ MemoryRight /\ VideoRight
<1>1. /\ disk.sectors \in Nat /\ disk.heads \in Nat /\ disk.heads <= 127
      /\ disk.cylinders \in Nat /\ disk.cylinders <= 127
      /\ KernelSectors \in Nat /\ 1 <= KernelSectors /\ KernelSectors <= 1152
      /\ disk.size <= KernelSectors * 512 /\ disk.size \in Nat
  BY DiskFacts DEF BootInv
<1>2. /\ memory \in Seq([at : Int, lba : Int]) /\ Len(memory) \in Nat
      /\ Len(memory) <= KernelSectors /\ \A i \in DOMAIN memory : memory[i] = InPlace(i)
  BY DEF BootInv
<1>3. machine.megabytes \in Nat /\ machine.megabytes <= 4095 /\ machine.modes \subseteq 1..4
  <2>1. machine \in [megabytes : Megabytes, modern : BOOLEAN, modes : Modes]
    BY DEF BootInv
  <2> QED BY <2>1, MachineFacts
<1>4. BootTypeOK
  <2>1. ch \in 0..255 /\ dh \in 0..255 /\ cl \in 1..disk.sectors
    <3>1. /\ ch \in Nat /\ ch <= disk.cylinders /\ dh \in Nat /\ dh <= disk.heads
          /\ cl \in Nat /\ 1 <= cl /\ cl <= disk.sectors
      BY DEF BootInv, LoadInv
    <3> QED BY <1>1, <3>1
  <2>2. es \in {KernelSegment * i : i \in 1..9} /\ bx \in {SectorSize * i : i \in 0..127}
    <3>1. Segmented(es, bx)
      BY DEF BootInv, LoadInv
    <3>2. PICK k \in Nat, j \in 0..127 : k <= 8 /\ es = 4096 * (k + 1) /\ bx = 512 * j
      BY <3>1 DEF Segmented
    <3>3. es \in {4096 * i : i \in 1..9}
      <4>1. k + 1 \in 1..9
        BY <3>2
      <4>2. PICK i \in 1..9 : i = k + 1
        BY <4>1
      <4>3. es = 4096 * i
        BY <3>2, <4>2
      <4> QED BY <4>2, <4>3, SMT
    <3>4. bx \in {512 * i : i \in 0..127}
      BY <3>2, Zenon
    <3> QED BY <3>3, <3>4 DEF KernelSegment, SectorSize
  <2>3. sectors_left \in 0..Unset
    <3>1. sectors_left = IF Len(memory) = 0 THEN Unset ELSE KernelSectors - Len(memory)
      BY DEF BootInv
    <3>2. Unset \in Nat /\ 1152 <= Unset
      BY DEF Unset
    <3> QED BY <1>1, <1>2, <3>1, <3>2
  <2>4. total_memory \in 0..4095
    <3>1. total_memory \in Nat /\ total_memory <= machine.megabytes
      <4>1. \/ stage \in {"load", "memory"} /\ total_memory = 0
            \/ total_memory \in Nat /\ total_memory <= machine.megabytes
        BY DEF BootInv
      <4> QED BY <4>1, <1>3
    <3> QED BY <3>1, <1>3
  <2>5. mode \in 0..4 /\ stage \in {"load", "memory", "video", "main", "halt"}
    BY DEF BootInv
  <2> QED BY <2>1, <2>2, <2>3, <2>4, <2>5 DEF BootTypeOK
<1>5. Loaded
  <2> SUFFICES ASSUME stage # "load"
               PROVE  /\ Len(memory) * SectorSize >= disk.size
                      /\ \A i \in DOMAIN memory :
                           memory[i] = [at |-> Address(KernelSegment, 0) + ((i - 1) * SectorSize),
                                        lba |-> i]
    BY DEF Loaded
  <2>1. Len(memory) = KernelSectors
    BY DEF BootInv
  <2>2. Len(memory) * SectorSize >= disk.size
    BY <1>1, <2>1 DEF SectorSize
  <2> QED BY <1>2, <2>2 DEF InPlace, Base
<1>6. MemoryRight
  BY DEF BootInv, MemoryRight
<1>7. VideoRight
  <2>1. stage = "main" => mode \in machine.modes /\ \A n \in machine.modes : n <= mode
    BY DEF BootInv
  <2>2. stage = "halt" => machine.modes = {}
    <3> SUFFICES ASSUME stage = "halt", NEW n \in machine.modes PROVE FALSE
      OBVIOUS
    <3>1. mode = 0 /\ n <= mode
      BY DEF BootInv
    <3> QED BY <3>1, <1>3
  <2> QED BY <2>1, <2>2 DEF VideoRight
<1> QED BY <1>4, <1>5, <1>6, <1>7

\* On a disk that the bootblock can read, the kernel that is entered is whole, in order and
\* without a gap, the memory it is told of is there, and the video mode is the best of the card;
\* and a machine that stops has none of the modes (bootblock.S, loadsector and nextsector;
\* kernelcore.S, memtest1 to video640_lowcolor).
THEOREM BootRightHolds ==
  ASSUME SmallDisks
  PROVE  MachineSpec => []BootRight
<1> DEFINE Inv == device = "boot" => BootInv
<1>1. BootAssumption
  BY BootAssumed
<1>2. MachineInit => Inv
  BY <1>1, BootBegins DEF MachineInit, BootStart, DevicesStart
<1>3. Inv /\ [MachineNext]_<<device, bootVars>> => Inv'
  <2> SUFFICES ASSUME Inv, [MachineNext]_<<device, bootVars>>, device' = "boot"
               PROVE  BootInv'
    OBVIOUS
  <2>1. device = "boot" /\ [BootNext]_bootVars
    BY DEF MachineNext, BootStep, DevicesStep
  <2> QED BY <1>1, <2>1, BootKept
<1>4. Inv => BootRight
  BY <1>1, BootImplies DEF BootRight
<1> QED BY <1>2, <1>3, <1>4, PTL DEF MachineSpec
=============================================================================
