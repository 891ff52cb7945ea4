---------------------------- MODULE BasicLemmas ----------------------------
(***************************************************************************)
(* Lemmas about the operators that several models are built from: least    *)
(* elements, the slots of a ring, sequences as lists of nodes, and the     *)
(* list operations of KList on one list and on a family of lists.  The     *)
(* proofs about processes reason with these facts only, never with the     *)
(* positions of nodes.                                                     *)
(***************************************************************************)
EXTENDS KList, SequenceTheorems, FiniteSetTheorems, WellFoundedInduction,
        NaturalsInduction, TLAPS

-----------------------------------------------------------------------------
(* The least element of a set of naturals: the first pid, child, list position or chunk a   *)
(* loop of the kernel comes to.                                                             *)

\* A nonempty set of naturals has a least element, which Min returns.
LEMMA MinIn ==
  ASSUME NEW S \in SUBSET Nat, S # {}
  PROVE  Min(S) \in S /\ \A j \in S : Min(S) <= j
<1> DEFINE R == {ss \in Nat \X Nat : ss[1] < ss[2]}
<1>1. IsWellFoundedOn(R, Nat)
  BY NatLessThanWellFounded, Zenon DEF OpToRel
<1>2. \E x \in S : \A y \in S : ~(<<y, x>> \in R)
  <2> HIDE DEF R
  <2> QED BY <1>1, WFMin
<1>3. \E x \in S : \A y \in S : x <= y
  <2>1. PICK x \in S : \A y \in S : ~(<<y, x>> \in R)
    BY <1>2
  <2>2. ASSUME NEW y \in S PROVE ~(y < x)
    <3>1. y < x => <<y, x>> \in R
      OBVIOUS
    <3> QED BY <3>1, <2>1
  <2>3. \A y \in S : x <= y
    BY <2>2
  <2> QED BY <2>3
<1> QED BY <1>3 DEF Min

-----------------------------------------------------------------------------
(* Rings: event queues and pipes keep what they hold in an array of S slots, from slot t up *)
(* to, but without, slot h.                                                                *)

Ring(S, b, t, h) == [i \in 1..((h - t) % S) |-> b[(t + i - 1) % S]]

\* The indices of a ring without remainders.
LEMMA RingSucc ==
  ASSUME NEW S \in Nat \ {0, 1}, NEW i \in 0..(S - 1)
  PROVE  (i + 1) % S = IF i + 1 = S THEN 0 ELSE i + 1
OBVIOUS

\* The number of slots in use of a ring without remainders.
LEMMA RingLength ==
  ASSUME NEW S \in Nat \ {0, 1}, NEW t \in 0..(S - 1), NEW h \in 0..(S - 1)
  PROVE  (h - t) % S = IF h >= t THEN h - t ELSE h - t + S
OBVIOUS

\* The i-th slot in use of a ring without remainders.
LEMMA RingIndex ==
  ASSUME NEW S \in Nat \ {0, 1}, NEW t \in 0..(S - 1), NEW i \in 1..S
  PROVE  (t + i - 1) % S = IF t + i <= S THEN t + i - 1 ELSE t + i - 1 - S
OBVIOUS

RingFacts(S, D, b, t, h) ==
  /\ Ring(S, b, t, h) \in Seq(D)
  /\ Len(Ring(S, b, t, h)) = (h - t) % S
  /\ \A i \in 1..((h - t) % S) : Ring(S, b, t, h)[i] = b[(t + i - 1) % S]
  /\ (h - t) % S \in 0..(S - 1)
  /\ Ring(S, b, t, h) = << >> <=> h = t

\* What a ring holds is a sequence of less than S elements; it is empty when h is t.
LEMMA RingSeq ==
  ASSUME NEW S \in Nat \ {0, 1}, NEW D, NEW b \in [0..(S - 1) -> D],
         NEW t \in 0..(S - 1), NEW h \in 0..(S - 1)
  PROVE  RingFacts(S, D, b, t, h)
<1> DEFINE n == (h - t) % S
           r == Ring(S, b, t, h)
<1>1. n \in 0..(S - 1) /\ (n = 0 <=> h = t)
  <2>1. n = IF h >= t THEN h - t ELSE h - t + S
    BY RingLength
  <2> HIDE DEF n
  <2> QED BY <2>1
<1>2. r = [i \in 1..n |-> b[(t + i - 1) % S]]
  BY DEF Ring
<1> HIDE DEF n, r
<1>3. ASSUME NEW i \in 1..n PROVE b[(t + i - 1) % S] \in D
  <2>1. i \in 1..S
    BY <1>1
  <2>2. (t + i - 1) % S = IF t + i <= S THEN t + i - 1 ELSE t + i - 1 - S
    BY <2>1, RingIndex
  <2> QED BY <1>1, <2>1, <2>2
<1>4. r \in Seq(D) /\ Len(r) = n /\ \A i \in 1..n : r[i] = b[(t + i - 1) % S]
  BY <1>1, <1>2, <1>3
<1>5. r = << >> <=> n = 0
  BY <1>1, <1>4
<1> QED BY <1>1, <1>4, <1>5 DEF n, r, RingFacts

PutFacts(S, b, t, h, v) ==
  /\ Ring(S, [b EXCEPT ![h] = v], t, (h + 1) % S) = Append(Ring(S, b, t, h), v)
  /\ (((h + 1) % S) - t) % S = ((h - t) % S) + 1

\* A ring that is not full takes one more at h.
LEMMA RingPut ==
  ASSUME NEW S \in Nat \ {0, 1}, NEW D, NEW b \in [0..(S - 1) -> D],
         NEW t \in 0..(S - 1), NEW h \in 0..(S - 1), NEW v \in D, (h + 1) % S # t
  PROVE  PutFacts(S, b, t, h, v)
<1> DEFINE g == (h + 1) % S
           n == (h - t) % S
           c == [b EXCEPT ![h] = v]
           r == Ring(S, b, t, h)
           q == Ring(S, c, t, g)
<1>1. /\ g \in 0..(S - 1) /\ g # t /\ g = (IF h + 1 = S THEN 0 ELSE h + 1)
      /\ n = (IF h >= t THEN h - t ELSE h - t + S)
      /\ n \in 0..(S - 1)
  <2>1. g = IF h + 1 = S THEN 0 ELSE h + 1
    BY RingSucc
  <2>2. n = IF h >= t THEN h - t ELSE h - t + S
    BY RingLength
  <2>3. g # t
    OBVIOUS
  <2> HIDE DEF g, n
  <2> QED BY <2>1, <2>2, <2>3
<1>2. /\ c \in [0..(S - 1) -> D] /\ c[h] = v
      /\ \A j \in 0..(S - 1) : j # h => c[j] = b[j]
  OBVIOUS
<1>3. r \in Seq(D) /\ Len(r) = n /\ \A i \in 1..n : r[i] = b[(t + i - 1) % S]
  <2>1. RingFacts(S, D, b, t, h)
    BY RingSeq
  <2> QED BY <2>1 DEF RingFacts
<1> HIDE DEF g, c
<1>4. q \in Seq(D) /\ Len(q) = (g - t) % S
      /\ \A i \in 1..((g - t) % S) : q[i] = c[(t + i - 1) % S]
  <2>1. RingFacts(S, D, c, t, g)
    BY <1>1, <1>2, RingSeq
  <2> QED BY <2>1 DEF RingFacts
<1>5. (g - t) % S = IF g >= t THEN g - t ELSE g - t + S
  BY <1>1, RingLength
<1> HIDE DEF n, r, q
<1>6. (g - t) % S = n + 1 /\ n + 1 \in 1..(S - 1)
  BY <1>1, <1>5
<1>7. ASSUME NEW i \in 1..(n + 1) PROVE q[i] = IF i = n + 1 THEN v ELSE r[i]
  <2>1. i \in 1..S
    BY <1>6
  <2>2. (t + i - 1) % S = IF t + i <= S THEN t + i - 1 ELSE t + i - 1 - S
    BY <2>1, RingIndex
  <2>3. q[i] = c[(t + i - 1) % S]
    BY <1>4, <1>6
  <2>4. CASE i = n + 1
    <3>1. (t + i - 1) % S = h
      BY <2>2, <2>4, <1>1
    <3> QED BY <3>1, <2>3, <2>4, <1>2
  <2>5. CASE i # n + 1
    <3>1. i \in 1..n
      BY <2>5, <1>1
    <3>2. (t + i - 1) % S \in 0..(S - 1) /\ (t + i - 1) % S # h
      BY <2>2, <3>1, <1>1, <1>6
    <3> QED BY <3>1, <3>2, <2>3, <2>5, <1>2, <1>3
  <2> QED BY <2>4, <2>5
<1>8. q = Append(r, v)
  <2>1. n \in Nat
    BY <1>1
  <2> QED BY <2>1, <1>3, <1>4, <1>6, <1>7
<1> QED BY <1>6, <1>8 DEF g, n, c, r, q, PutFacts

\* A ring that is not empty gives the one at t.
LEMMA RingGet ==
  ASSUME NEW S \in Nat \ {0, 1}, NEW D, NEW b \in [0..(S - 1) -> D],
         NEW t \in 0..(S - 1), NEW h \in 0..(S - 1), h # t
  PROVE  /\ Ring(S, b, t, h) # << >> /\ Head(Ring(S, b, t, h)) = b[t]
         /\ Ring(S, b, (t + 1) % S, h) = Tail(Ring(S, b, t, h))
         /\ (h - t) % S > 0 /\ (h - ((t + 1) % S)) % S = ((h - t) % S) - 1
<1> DEFINE u == (t + 1) % S
           n == (h - t) % S
           r == Ring(S, b, t, h)
           q == Ring(S, b, u, h)
<1>1. /\ u \in 0..(S - 1) /\ u = (IF t + 1 = S THEN 0 ELSE t + 1)
      /\ n = (IF h >= t THEN h - t ELSE h - t + S)
      /\ n \in 1..(S - 1)
  <2>1. u = IF t + 1 = S THEN 0 ELSE t + 1
    BY RingSucc
  <2>2. n = IF h >= t THEN h - t ELSE h - t + S
    BY RingLength
  <2> HIDE DEF u, n
  <2> QED BY <2>1, <2>2
<1>2. r \in Seq(D) /\ Len(r) = n /\ \A i \in 1..n : r[i] = b[(t + i - 1) % S]
  <2>1. RingFacts(S, D, b, t, h)
    BY RingSeq
  <2> QED BY <2>1 DEF RingFacts
<1> HIDE DEF u
<1>3. q \in Seq(D) /\ Len(q) = (h - u) % S
      /\ \A i \in 1..((h - u) % S) : q[i] = b[(u + i - 1) % S]
  <2>1. RingFacts(S, D, b, u, h)
    BY <1>1, RingSeq
  <2> QED BY <2>1 DEF RingFacts
<1>4. (h - u) % S = IF h >= u THEN h - u ELSE h - u + S
  BY <1>1, RingLength
<1> HIDE DEF n, r, q
<1>5. (h - u) % S = n - 1
  BY <1>1, <1>4
<1>6. ASSUME NEW i \in 1..(n - 1) PROVE q[i] = r[i + 1]
  <2>1. i \in 1..S /\ i + 1 \in 1..S /\ i + 1 \in 1..n
    BY <1>1
  <2>2. (u + i - 1) % S = IF u + i <= S THEN u + i - 1 ELSE u + i - 1 - S
    BY <1>1, <2>1, RingIndex
  <2>3. (t + (i + 1) - 1) % S =
          IF t + (i + 1) <= S THEN t + (i + 1) - 1 ELSE t + (i + 1) - 1 - S
    BY <2>1, RingIndex
  <2>4. (u + i - 1) % S = (t + (i + 1) - 1) % S
    BY <1>1, <2>1, <2>2, <2>3
  <2> QED BY <1>2, <1>3, <1>5, <2>1, <2>4
<1>7. r[1] = b[t]
  <2>1. 1 \in 1..S /\ 1 \in 1..n
    BY <1>1
  <2>2. (t + 1 - 1) % S = IF t + 1 <= S THEN t + 1 - 1 ELSE t + 1 - 1 - S
    BY <2>1, RingIndex
  <2>3. (t + 1 - 1) % S = t
    BY <2>2
  <2> QED BY <1>2, <2>1, <2>3
<1>8. r # << >> /\ Head(r) = b[t] /\ q = Tail(r)
  <2>1. n \in Nat /\ n > 0
    BY <1>1
  <2> QED BY <2>1, <1>2, <1>3, <1>5, <1>6, <1>7
<1>9. n > 0
  BY <1>1
<1> QED BY <1>5, <1>8, <1>9, Zenon DEF u, n, r, q

-----------------------------------------------------------------------------
(* One list *)

\* The nodes of a list: there are none just when it is empty.
LEMMA ListNodes ==
  ASSUME NEW S, NEW s \in Seq(S)
  PROVE  Range(s) \subseteq S /\ (s = << >> <=> Range(s) = {})
<1>1. DOMAIN s = 1..Len(s) /\ Len(s) \in Nat /\ \A i \in 1..Len(s) : s[i] \in S
  OBVIOUS
<1>2. Range(s) \subseteq S
  BY <1>1 DEF Range
<1>3. s = << >> => Range(s) = {}
  BY DEF Range
<1>4. ASSUME s # << >>
      PROVE  Range(s) # {}
  <2>1. 1 \in DOMAIN s
    BY <1>1, <1>4
  <2> QED BY <2>1 DEF Range
<1> QED BY <1>2, <1>3, <1>4

\* list_push_tail adds the one node.
LEMMA AppendNodes ==
  ASSUME NEW S, NEW s \in Seq(S), NEW n \in S
  PROVE  /\ Append(s, n) \in Seq(S)
         /\ Range(Append(s, n)) = Range(s) \cup {n}
         /\ IsInjective(s) /\ n \notin Range(s) => IsInjective(Append(s, n))
<1>1. /\ Len(s) \in Nat /\ DOMAIN s = 1..Len(s)
      /\ Append(s, n) \in Seq(S) /\ DOMAIN Append(s, n) = 1..(Len(s) + 1)
      /\ \A i \in 1..Len(s) : Append(s, n)[i] = s[i]
      /\ Append(s, n)[Len(s) + 1] = n
  OBVIOUS
<1> DEFINE t == Append(s, n)
<1>2. /\ DOMAIN t = 1..(Len(s) + 1) /\ t[Len(s) + 1] = n
      /\ \A i \in 1..Len(s) : t[i] = s[i]
  BY <1>1
<1> HIDE DEF t
<1>3. Range(t) = Range(s) \cup {n}
  <2>1. Range(t) \subseteq Range(s) \cup {n}
    <3> SUFFICES ASSUME NEW i \in 1..(Len(s) + 1) PROVE t[i] \in Range(s) \cup {n}
      BY <1>2 DEF Range
    <3>1. CASE i = Len(s) + 1
      BY <3>1, <1>2
    <3>2. CASE i # Len(s) + 1
      <4>1. i \in 1..Len(s)
        BY <3>2, <1>1
      <4> QED BY <4>1, <1>1, <1>2 DEF Range
    <3> QED BY <3>1, <3>2
  <2>2. \A i \in 1..Len(s) : i \in 1..(Len(s) + 1) /\ s[i] = t[i]
    BY <1>1, <1>2
  <2>3. Range(s) \subseteq Range(t)
    BY <2>2, <1>1, <1>2 DEF Range
  <2>4. n \in Range(t)
    <3>1. Len(s) + 1 \in 1..(Len(s) + 1)
      BY <1>1
    <3> QED BY <3>1, <1>2 DEF Range
  <2> QED BY <2>1, <2>3, <2>4
<1>4. ASSUME IsInjective(s), n \notin Range(s) PROVE IsInjective(t)
  <2>1. \A i \in 1..Len(s) : s[i] # n
    BY <1>4, <1>1 DEF Range
  <2> QED BY <2>1, <1>1, <1>2, <1>4 DEF IsInjective
<1> QED BY <1>1, <1>3, <1>4 DEF t

\* list_pop_head takes the head away, and only it.
LEMMA TailNodes ==
  ASSUME NEW S, NEW s \in Seq(S), s # << >>, IsInjective(s)
  PROVE  /\ Tail(s) \in Seq(S)
         /\ Head(s) \in Range(s)
         /\ Range(Tail(s)) = Range(s) \ {Head(s)}
         /\ IsInjective(Tail(s))
<1>1. /\ Len(s) \in Nat /\ Len(s) > 0 /\ Head(s) = s[1] /\ Tail(s) \in Seq(S)
      /\ Len(Tail(s)) = Len(s) - 1
      /\ \A i \in 1..(Len(s) - 1) : Tail(s)[i] = s[i + 1]
  OBVIOUS
<1>2. /\ DOMAIN s = 1..Len(s) /\ DOMAIN Tail(s) = 1..(Len(s) - 1)
  BY <1>1
<1>3. Range(Tail(s)) \subseteq Range(s) \ {Head(s)}
  BY <1>1, <1>2 DEF Range, IsInjective
<1>4. ASSUME NEW x \in Range(s) \ {Head(s)} PROVE x \in Range(Tail(s))
  <2>1. PICK i \in 1..Len(s) : s[i] = x
    BY <1>2 DEF Range
  <2>2. i # 1 /\ i - 1 \in 1..(Len(s) - 1) /\ Tail(s)[i - 1] = x
    BY <1>1, <2>1
  <2> QED BY <2>2, <1>2 DEF Range
<1>5. IsInjective(Tail(s))
  BY <1>1, <1>2 DEF IsInjective
<1>6. Head(s) \in Range(s)
  BY <1>1, <1>2 DEF Range
<1> QED BY <1>1, <1>3, <1>4, <1>5, <1>6

\* list_remove takes the node away, and only it.
LEMMA CutNodes ==
  ASSUME NEW S, NEW s \in Seq(S), NEW n, IsInjective(s)
  PROVE  /\ RemoveFirst(s, n) \in Seq(S)
         /\ Range(RemoveFirst(s, n)) = Range(s) \ {n}
         /\ IsInjective(RemoveFirst(s, n))
         /\ Len(RemoveFirst(s, n)) = IF n \in Range(s) THEN Len(s) - 1 ELSE Len(s)
<1>0. Len(s) \in Nat /\ DOMAIN s = 1..Len(s) /\ \A i \in 1..Len(s) : s[i] \in S
  OBVIOUS
<1>1. CASE ~\E i \in 1..Len(s) : s[i] = n
  <2>1. RemoveFirst(s, n) = s /\ n \notin Range(s)
    BY <1>0, <1>1 DEF RemoveFirst, Range
  <2> QED BY <2>1
<1>2. CASE \E i \in 1..Len(s) : s[i] = n
  <2>1. PICK k \in 1..Len(s) : s[k] = n
    BY <1>2
  <2>2. \A j \in 1..Len(s) : s[j] = n => j = k
    BY <1>0, <2>1 DEF IsInjective
  <2> DEFINE I == {i \in 1..Len(s) : s[i] = n}
  <2>3. I = {k} /\ Min(I) = k
    <3>1. I = {k}
      BY <2>1, <2>2
    <3>2. Min({k}) = k
      BY <2>1 DEF Min
    <3> QED BY <3>1, <3>2
  <2>4. RemoveFirst(s, n) = RemoveAt(s, k)
    BY <1>2, <2>3 DEF RemoveFirst, SelectInSeq
  <2> DEFINE t == RemoveAt(s, k)
  <2> DEFINE front == SubSeq(s, 1, k - 1)
             back == SubSeq(s, k + 1, Len(s))
  <2>5. /\ front \in Seq(S) /\ back \in Seq(S) /\ Len(front) = k - 1 /\ Len(back) = Len(s) - k
        /\ Len(s) - 1 \in Nat /\ t = front \o back
        /\ \A j \in 1..(k - 1) : front[j] = s[j]
        /\ \A j \in 1..(Len(s) - k) : back[j] = s[j + k]
    <3>1. /\ front \in Seq(S) /\ Len(front) = k - 1
          /\ \A j \in 1..(k - 1) : front[j] = s[j]
      <4>1. 1 \in 1..(Len(s) + 1) /\ k - 1 \in (1 - 1)..Len(s) /\ (k - 1) - 1 + 1 = k - 1
        BY <1>0, <2>1
      <4>2. \A j \in 1..(k - 1) : 1 + j - 1 = j
        BY <2>1
      <4> QED BY <4>1, <4>2, SubSeqProperties
    <3>2. /\ back \in Seq(S) /\ Len(back) = Len(s) - k
          /\ \A j \in 1..(Len(s) - k) : back[j] = s[j + k]
      <4>1. PICK m \in Int : m = k + 1
        BY <2>1
      <4>2. \A i \in m..Len(s) : s[i] \in S
        BY <4>1, <1>0, <2>1
      <4>3. Len(s) \in Int
        BY <1>0
      <4>4. /\ SubSeq(s, m, Len(s)) \in Seq(S)
            /\ Len(SubSeq(s, m, Len(s))) =
                 IF m <= Len(s) THEN Len(s) - m + 1 ELSE 0
            /\ \A i \in 1..(Len(s) - m + 1) :
                 SubSeq(s, m, Len(s))[i] = s[m + i - 1]
        BY <4>2, <4>3, SubSeqProperties
      <4>5. back = SubSeq(s, m, Len(s))
        BY <4>1
      <4> HIDE DEF back
      <4>6. /\ Len(s) - m + 1 = Len(s) - k
            /\ (IF m <= Len(s) THEN Len(s) - m + 1 ELSE 0) = Len(s) - k
            /\ \A j \in 1..(Len(s) - k) : m + j - 1 = j + k
        <5>1. PICK l \in Nat : l = Len(s)
          BY <1>0
        <5>2. k \in Int /\ k <= l
          BY <5>1, <2>1
        <5>3. l - m + 1 = l - k
          BY <4>1, <5>2
        <5>4. (IF m <= l THEN l - m + 1 ELSE 0) = l - k
          BY <4>1, <5>2
        <5>5. \A j \in Int : m + j - 1 = j + k
          BY <4>1, <5>2
        <5> QED BY <5>1, <5>3, <5>4, <5>5
      <4> QED BY <4>4, <4>5, <4>6
    <3>3. t = front \o back
      BY DEF RemoveAt
    <3>4. Len(s) - 1 \in Nat
      BY <1>0, <2>1
    <3> QED BY <3>1, <3>2, <3>3, <3>4, Zenon
  <2> HIDE DEF t, front, back
  <2>6. \A j \in 1..(Len(s) - 1) :
           /\ j \in 1..Len(s) /\ j + 1 \in 1..Len(s)
           /\ j < k => t[j] = s[j]
           /\ ~(j < k) => t[j] = s[j + 1]
    <3> SUFFICES ASSUME NEW j \in 1..(Len(s) - 1)
                 PROVE  /\ j < k => t[j] = s[j]
                        /\ ~(j < k) => t[j] = s[j + 1]
      BY <1>0
    <3>1. CASE j < k
      BY <3>1, <2>1, <2>5, <1>0
    <3>2. CASE ~(j < k)
      <4>1. j - (k - 1) \in 1..(Len(s) - k) /\ (j - (k - 1)) + k = j + 1
        BY <3>2, <2>1, <1>0
      <4>2. t[j] = back[j - (k - 1)]
        BY <3>2, <2>1, <2>5, <1>0
      <4> QED BY <3>2, <4>1, <4>2, <2>5
    <3> QED BY <3>1, <3>2
  <2>7. t \in Seq(S)
    BY <2>5
  <2>8. DOMAIN t = 1..(Len(s) - 1)
    BY <2>5, <2>1, <1>0
  <2>9. Range(t) \subseteq Range(s) \ {n}
    <3> SUFFICES ASSUME NEW j \in 1..(Len(s) - 1) PROVE t[j] \in Range(s) \ {n}
      BY <2>8 DEF Range
    <3> DEFINE a == IF j < k THEN j ELSE j + 1
    <3>1. a \in 1..Len(s) /\ t[j] = s[a] /\ a # k
      BY <2>6
    <3>2. s[a] # n
      BY <3>1, <2>2
    <3> QED BY <3>1, <3>2, <1>0 DEF Range
  <2>10. ASSUME NEW x \in Range(s) \ {n} PROVE x \in Range(t)
    <3>1. PICK i \in 1..Len(s) : s[i] = x
      BY <1>0 DEF Range
    <3>2. i # k
      BY <2>1, <3>1
    <3>3. CASE i < k
      <4>1. i \in 1..(Len(s) - 1) /\ t[i] = x
        BY <3>1, <3>3, <2>6, <2>1, <1>0
      <4> QED BY <4>1, <2>8 DEF Range
    <3>4. CASE i > k
      <4>1. i - 1 \in 1..(Len(s) - 1) /\ ~(i - 1 < k) /\ (i - 1) + 1 = i
        BY <3>1, <3>4, <2>1, <1>0
      <4>2. t[i - 1] = x
        BY <4>1, <2>6, <3>1
      <4> QED BY <4>1, <4>2, <2>8 DEF Range
    <3> QED BY <3>2, <3>3, <3>4
  <2>11. IsInjective(t)
    <3> SUFFICES ASSUME NEW i \in 1..(Len(s) - 1), NEW j \in 1..(Len(s) - 1),
                        t[i] = t[j]
                 PROVE  i = j
      BY <2>8 DEF IsInjective
    <3> DEFINE a == IF i < k THEN i ELSE i + 1
               b == IF j < k THEN j ELSE j + 1
    <3>1. /\ a \in 1..Len(s) /\ b \in 1..Len(s) /\ s[a] = t[i] /\ s[b] = t[j]
      BY <2>6
    <3>2. a = b
      BY <3>1, <1>0 DEF IsInjective
    <3> QED BY <3>2, <2>1
  <2>12. n \in Range(s) /\ Len(t) = Len(s) - 1
    <3>1. n \in Range(s)
      BY <1>0, <2>1 DEF Range
    <3>2. Len(s) - 1 \in Nat
      BY <2>5
    <3> QED BY <2>7, <2>8, <3>1, <3>2
  <2> QED BY <2>4, <2>7, <2>9, <2>10, <2>11, <2>12 DEF t
<1> QED BY <1>1, <1>2

\* list_pop_tail takes the last node away, and only it.
LEMMA FrontNodes ==
  ASSUME NEW S, NEW s \in Seq(S), s # << >>, IsInjective(s)
  PROVE  /\ Front(s) \in Seq(S) /\ Len(Front(s)) = Len(s) - 1
         /\ Last(s) \in Range(s)
         /\ Range(Front(s)) = Range(s) \ {Last(s)}
         /\ IsInjective(Front(s))
         /\ Len(s) > 1 => Head(Front(s)) = Head(s) /\ Last(s) # Head(s)
<1>1. Len(s) \in Nat /\ Len(s) > 0 /\ DOMAIN s = 1..Len(s) /\ \A i \in 1..Len(s) : s[i] \in S
  OBVIOUS
<1> DEFINE n == Len(s)
           t == Front(s)
<1>2. t \in Seq(S) /\ Len(t) = n - 1 /\ \A i \in 1..(n - 1) : t[i] = s[i]
  BY <1>1 DEF Front
<1>3. Last(s) = s[n]
  BY DEF Last
<1> HIDE DEF n, t
<1>4. n \in Nat /\ n > 0 /\ DOMAIN s = 1..n /\ DOMAIN t = 1..(n - 1)
  BY <1>1, <1>2 DEF n
<1>5. Last(s) \in Range(s)
  BY <1>3, <1>4 DEF Range
<1>6. Range(t) \subseteq Range(s) \ {Last(s)}
  BY <1>2, <1>3, <1>4 DEF Range, IsInjective
<1>7. ASSUME NEW x \in Range(s) \ {Last(s)} PROVE x \in Range(t)
  <2>1. PICK i \in 1..n : s[i] = x
    BY <1>4 DEF Range
  <2>2. i \in 1..(n - 1) /\ t[i] = x
    BY <1>2, <1>3, <1>4, <2>1
  <2> QED BY <2>2, <1>4 DEF Range
<1>8. IsInjective(t)
  BY <1>2, <1>4 DEF IsInjective
<1>9. n > 1 => Head(t) = Head(s) /\ Last(s) # Head(s)
  <2>1. Head(s) = s[1]
    OBVIOUS
  <2>2. n > 1 => Head(t) = t[1]
    BY <1>2, <1>4
  <2> QED BY <1>2, <1>3, <1>4, <2>1, <2>2 DEF IsInjective
<1> QED BY <1>2, <1>5, <1>6, <1>7, <1>8, <1>9 DEF n, t

\* Joining two lists joins their nodes.
LEMMA ConcatNodes ==
  ASSUME NEW S, NEW s \in Seq(S), NEW t \in Seq(S)
  PROVE  /\ s \o t \in Seq(S)
         /\ Range(s \o t) = Range(s) \cup Range(t)
         /\ IsInjective(s) /\ IsInjective(t) /\ Range(s) \cap Range(t) = {}
              => IsInjective(s \o t)
<1>1. /\ s \o t \in Seq(S) /\ Len(s) \in Nat /\ Len(t) \in Nat
      /\ DOMAIN s = 1..Len(s) /\ DOMAIN t = 1..Len(t)
      /\ Len(s \o t) = Len(s) + Len(t)
      /\ DOMAIN (s \o t) = 1..(Len(s) + Len(t))
      /\ \A i \in 1..(Len(s) + Len(t)) :
           (s \o t)[i] = IF i <= Len(s) THEN s[i] ELSE t[i - Len(s)]
  OBVIOUS
<1> DEFINE u == s \o t
<1>2. /\ DOMAIN u = 1..(Len(s) + Len(t))
      /\ \A i \in 1..(Len(s) + Len(t)) :
           u[i] = IF i <= Len(s) THEN s[i] ELSE t[i - Len(s)]
  BY <1>1
<1> HIDE DEF u
<1>3. Range(u) \subseteq Range(s) \cup Range(t)
  <2> SUFFICES ASSUME NEW i \in 1..(Len(s) + Len(t))
               PROVE  u[i] \in Range(s) \cup Range(t)
    BY <1>2 DEF Range
  <2>1. CASE i <= Len(s)
    BY <2>1, <1>1, <1>2 DEF Range
  <2>2. CASE i > Len(s)
    <3>1. i - Len(s) \in 1..Len(t) /\ u[i] = t[i - Len(s)]
      BY <2>2, <1>1, <1>2
    <3> QED BY <3>1, <1>1 DEF Range
  <2> QED BY <2>1, <2>2, <1>1
<1>4. Range(s) \subseteq Range(u)
  BY <1>1, <1>2 DEF Range
<1>5. ASSUME NEW j \in 1..Len(t) PROVE t[j] \in Range(u)
  <2>1. /\ j + Len(s) \in 1..(Len(s) + Len(t)) /\ ~(j + Len(s) <= Len(s))
        /\ (j + Len(s)) - Len(s) = j
    BY <1>1
  <2>2. u[j + Len(s)] = t[j]
    BY <2>1, <1>2
  <2> QED BY <2>1, <2>2, <1>2 DEF Range
<1>6. Range(t) \subseteq Range(u)
  BY <1>1, <1>5 DEF Range
<1>7. ASSUME IsInjective(s), IsInjective(t), Range(s) \cap Range(t) = {}
      PROVE  IsInjective(u)
  <2> SUFFICES ASSUME NEW i \in 1..(Len(s) + Len(t)),
                      NEW j \in 1..(Len(s) + Len(t)), u[i] = u[j]
               PROVE  i = j
    BY <1>2 DEF IsInjective
  <2>1. CASE i <= Len(s) /\ j <= Len(s)
    BY <2>1, <1>7, <1>1, <1>2 DEF IsInjective
  <2>2. CASE i > Len(s) /\ j > Len(s)
    <3>1. /\ i - Len(s) \in 1..Len(t) /\ j - Len(s) \in 1..Len(t)
          /\ t[i - Len(s)] = t[j - Len(s)]
      BY <2>2, <1>1, <1>2
    <3>2. i - Len(s) = j - Len(s)
      BY <3>1, <1>7, <1>1 DEF IsInjective
    <3> QED BY <3>2, <1>1
  <2>3. ASSUME NEW a \in 1..(Len(s) + Len(t)), NEW b \in 1..(Len(s) + Len(t)),
               a <= Len(s), b > Len(s), u[a] = u[b]
        PROVE  FALSE
    <3>1. u[a] = s[a] /\ a \in 1..Len(s)
      BY <2>3, <1>1, <1>2
    <3>2. u[b] = t[b - Len(s)] /\ b - Len(s) \in 1..Len(t)
      BY <2>3, <1>1, <1>2
    <3>3. u[a] \in Range(s) /\ u[b] \in Range(t)
      BY <3>1, <3>2, <1>1 DEF Range
    <3> QED BY <3>3, <2>3, <1>7
  <2> QED BY <2>1, <2>2, <2>3, <1>1
<1> QED BY <1>1, <1>3, <1>4, <1>6, <1>7 DEF u

\* list_push_head puts a node before the head.
LEMMA PushNodes ==
  ASSUME NEW S, NEW s \in Seq(S), NEW n \in S, n \notin Range(s), IsInjective(s)
  PROVE  /\ <<n>> \o s \in Seq(S) /\ Len(<<n>> \o s) = Len(s) + 1
         /\ <<n>> \o s # << >> /\ Head(<<n>> \o s) = n
         /\ Range(<<n>> \o s) = Range(s) \cup {n}
         /\ IsInjective(<<n>> \o s)
<1>1. <<n>> \in Seq(S) /\ Range(<<n>>) = {n} /\ IsInjective(<<n>>)
  BY DEF Range, IsInjective
<1>2. /\ <<n>> \o s \in Seq(S) /\ Range(<<n>> \o s) = Range(s) \cup {n}
      /\ IsInjective(<<n>> \o s)
  <2>1. Range(<<n>>) \cap Range(s) = {} /\ {n} \cup Range(s) = Range(s) \cup {n}
    BY <1>1
  <2> DEFINE h == <<n>>
  <2>2. h \in Seq(S) /\ Range(h) = {n} /\ IsInjective(h) /\ Range(h) \cap Range(s) = {}
    BY <1>1, <2>1
  <2> HIDE DEF h
  <2>3. h \o s \in Seq(S) /\ Range(h \o s) = Range(h) \cup Range(s) /\ IsInjective(h \o s)
    BY <2>2, ConcatNodes
  <2> QED BY <2>1, <2>2, <2>3 DEF h
<1>3. Len(<<n>> \o s) = Len(s) + 1 /\ <<n>> \o s # << >> /\ Head(<<n>> \o s) = n
  OBVIOUS
<1> QED BY <1>2, <1>3

-----------------------------------------------------------------------------
(* A family of lists, none of which shares a node with another *)

\* M is the family L of lists after n was pushed onto q; without the head of q;
\* without n; with the list r joined to the end of q.
PushFacts(Q, S, L, q, n, M) ==
  /\ M \in ListsOver(Q, S) /\ NoDup(M)
  /\ \A r \in Q : Range(M[r]) =
                  IF r = q THEN Range(L[r]) \cup {n} ELSE Range(L[r])
  /\ Linked(M) = Linked(L) \cup {n}
PopFacts(Q, S, L, q, M) ==
  /\ M \in ListsOver(Q, S) /\ NoDup(M)
  /\ Head(L[q]) \in S /\ Head(L[q]) \in Range(L[q])
  /\ \A r \in Q : Range(M[r]) =
                  IF r = q THEN Range(L[r]) \ {Head(L[q])} ELSE Range(L[r])
  /\ Linked(M) = Linked(L) \ {Head(L[q])}
RemoveFacts(Q, S, L, n, M) ==
  /\ M \in ListsOver(Q, S) /\ NoDup(M)
  /\ \A r \in Q : Range(M[r]) = Range(L[r]) \ {n}
  /\ Linked(M) = Linked(L) \ {n}
JoinFacts(Q, S, L, q, r, M) ==
  /\ M \in ListsOver(Q, S) /\ NoDup(M)
  /\ \A t \in Q : Range(M[t]) =
                  IF t = q THEN Range(L[q]) \cup Range(L[r])
                  ELSE IF t = r THEN {} ELSE Range(L[t])
  /\ Linked(M) = Linked(L)

\* Pushing a node that is linked nowhere.
LEMMA PushLists ==
  ASSUME NEW Q, NEW S, NEW L \in ListsOver(Q, S), NoDup(L),
         NEW q \in Q, NEW n \in S, n \notin Linked(L)
  PROVE  PushFacts(Q, S, L, q, n, PushTail(L, q, n))
<1> DEFINE M == PushTail(L, q, n)
<1>1. /\ L[q] \in Seq(S) /\ DOMAIN L = Q /\ DOMAIN M = Q
      /\ M[q] = Append(L[q], n) /\ \A r \in Q \ {q} : M[r] = L[r]
  BY DEF PushTail, ListsOver
<1>2. \A r \in Q : n \notin Range(L[r])
  BY <1>1 DEF Linked
<1>3. IsInjective(L[q])
  BY <1>1 DEF NoDup
<1>4. /\ Append(L[q], n) \in Seq(S)
      /\ Range(Append(L[q], n)) = Range(L[q]) \cup {n}
      /\ IsInjective(Append(L[q], n))
  BY <1>1, <1>2, <1>3, AppendNodes
<1>5. M \in ListsOver(Q, S)
  BY <1>4 DEF PushTail, ListsOver
<1> HIDE DEF M
<1>6. \A r \in Q : Range(M[r]) = IF r = q THEN Range(L[r]) \cup {n} ELSE Range(L[r])
  BY <1>1, <1>4
<1>7. Linked(M) = Linked(L) \cup {n}
  BY <1>1, <1>6 DEF Linked
<1>8. NoDup(M)
  <2>1. \A r \in Q : IsInjective(M[r])
    BY <1>1, <1>4 DEF NoDup
  <2>2. \A r, t \in Q : r # t => Range(M[r]) \cap Range(M[t]) = {}
    BY <1>1, <1>2, <1>6 DEF NoDup
  <2> QED BY <1>1, <2>1, <2>2 DEF NoDup
<1> QED BY <1>5, <1>6, <1>7, <1>8 DEF M, PushFacts

\* Popping the head of a list that is not empty.
LEMMA PopLists ==
  ASSUME NEW Q, NEW S, NEW L \in ListsOver(Q, S), NoDup(L),
         NEW q \in Q, L[q] # << >>
  PROVE  PopFacts(Q, S, L, q, PopHead(L, q))
<1> DEFINE M == PopHead(L, q)
           n == Head(L[q])
<1>1. /\ L[q] \in Seq(S) /\ DOMAIN L = Q /\ DOMAIN M = Q
      /\ M[q] = Tail(L[q]) /\ \A r \in Q \ {q} : M[r] = L[r]
  BY DEF PopHead, ListsOver
<1>2. IsInjective(L[q])
  BY <1>1 DEF NoDup
<1>3. /\ Tail(L[q]) \in Seq(S) /\ n \in Range(L[q])
      /\ Range(Tail(L[q])) = Range(L[q]) \ {n}
      /\ IsInjective(Tail(L[q]))
  BY <1>1, <1>2, TailNodes
<1>4. M \in ListsOver(Q, S)
  BY <1>3 DEF PopHead, ListsOver
<1>5. n \in S
  BY <1>1
<1> HIDE DEF M, n
<1>6. \A r \in Q : Range(M[r]) = IF r = q THEN Range(L[r]) \ {n} ELSE Range(L[r])
  BY <1>1, <1>3
<1>7. \A r \in Q : r # q => n \notin Range(L[r])
  BY <1>1, <1>3 DEF NoDup
<1>8. Linked(M) = Linked(L) \ {n}
  BY <1>1, <1>6, <1>7 DEF Linked
<1>9. NoDup(M)
  <2>1. \A r \in Q : IsInjective(M[r])
    BY <1>1, <1>3 DEF NoDup
  <2>2. \A r, t \in Q : r # t => Range(M[r]) \cap Range(M[t]) = {}
    BY <1>1, <1>6 DEF NoDup
  <2> QED BY <1>1, <2>1, <2>2 DEF NoDup
<1> QED BY <1>3, <1>4, <1>5, <1>6, <1>8, <1>9 DEF M, n, PopFacts

\* Unlinking a node, wherever it is.
LEMMA RemoveLists ==
  ASSUME NEW Q, NEW S, NEW L \in ListsOver(Q, S), NoDup(L), NEW n
  PROVE  RemoveFacts(Q, S, L, n, Unlink(L, n))
<1> DEFINE M == Unlink(L, n)
<1>1. DOMAIN L = Q /\ DOMAIN M = Q /\ \A r \in Q : M[r] = RemoveFirst(L[r], n)
  BY DEF Unlink, ListsOver
<1>2. ASSUME NEW r \in Q
      PROVE  /\ RemoveFirst(L[r], n) \in Seq(S)
             /\ Range(RemoveFirst(L[r], n)) = Range(L[r]) \ {n}
             /\ IsInjective(RemoveFirst(L[r], n))
  <2>1. L[r] \in Seq(S) /\ IsInjective(L[r])
    BY <1>1 DEF NoDup, ListsOver
  <2> QED BY <2>1, CutNodes
<1>3. M \in ListsOver(Q, S)
  BY <1>2 DEF Unlink, ListsOver
<1> HIDE DEF M
<1>4. \A r \in Q : Range(M[r]) = Range(L[r]) \ {n}
  BY <1>1, <1>2
<1>5. Linked(M) = Linked(L) \ {n}
  BY <1>1, <1>4 DEF Linked
<1>6. NoDup(M)
  <2>1. \A r \in Q : IsInjective(M[r])
    BY <1>1, <1>2
  <2>2. \A r, t \in Q : r # t => Range(M[r]) \cap Range(M[t]) = {}
    BY <1>1, <1>4 DEF NoDup
  <2> QED BY <1>1, <2>1, <2>2 DEF NoDup
<1> QED BY <1>3, <1>4, <1>5, <1>6 DEF M, RemoveFacts

\* Moving a whole list to the end of another.
LEMMA JoinLists ==
  ASSUME NEW Q, NEW S, NEW L \in ListsOver(Q, S), NoDup(L),
         NEW q \in Q, NEW r \in Q, q # r,
         NEW M, M = [L EXCEPT ![q] = @ \o L[r], ![r] = << >>]
  PROVE  JoinFacts(Q, S, L, q, r, M)
<1>1. /\ L[q] \in Seq(S) /\ L[r] \in Seq(S) /\ DOMAIN L = Q /\ DOMAIN M = Q
      /\ M[q] = L[q] \o L[r] /\ M[r] = << >>
      /\ \A t \in Q \ {q, r} : M[t] = L[t]
  BY DEF ListsOver
<1>2. /\ IsInjective(L[q]) /\ IsInjective(L[r])
      /\ Range(L[q]) \cap Range(L[r]) = {}
  BY <1>1 DEF NoDup
<1>3. /\ L[q] \o L[r] \in Seq(S)
      /\ Range(L[q] \o L[r]) = Range(L[q]) \cup Range(L[r])
      /\ IsInjective(L[q] \o L[r])
  BY <1>1, <1>2, ConcatNodes
<1>4. << >> \in Seq(S) /\ Range(<< >>) = {} /\ IsInjective(<< >>)
  BY DEF Range, IsInjective
<1>5. M \in ListsOver(Q, S)
  BY <1>3, <1>4 DEF ListsOver
<1>6. \A t \in Q : Range(M[t]) =
              IF t = q THEN Range(L[q]) \cup Range(L[r])
              ELSE IF t = r THEN {} ELSE Range(L[t])
  BY <1>1, <1>3, <1>4
<1>7. Linked(M) = Linked(L)
  <2>1. ASSUME NEW t \in Q PROVE Range(M[t]) \subseteq Linked(L)
    <3>1. Range(M[t]) = {} \/ Range(M[t]) \subseteq Range(L[q]) \cup Range(L[r])
          \/ Range(M[t]) = Range(L[t])
      BY <1>6
    <3> QED BY <3>1, <1>1 DEF Linked
  <2>2. ASSUME NEW t \in Q PROVE Range(L[t]) \subseteq Linked(M)
    <3>1. CASE t \in {q, r}
      <4>0. Range(M[q]) = Range(L[q]) \cup Range(L[r])
        BY <1>1, <1>3
      <4>1. Range(L[t]) \subseteq Range(M[q])
        BY <3>1, <4>0, Zenon
      <4>2. Range(M[q]) \subseteq Linked(M)
        BY <1>1 DEF Linked
      <4> QED BY <4>1, <4>2
    <3>2. CASE t \notin {q, r}
      BY <3>2, <1>1 DEF Linked
    <3> QED BY <3>1, <3>2
  <2>3. ASSUME NEW n \in Linked(M) PROVE n \in Linked(L)
    <3>1. PICK t \in Q : n \in Range(M[t])
      BY <1>1 DEF Linked
    <3> QED BY <3>1, <2>1
  <2>4. ASSUME NEW n \in Linked(L) PROVE n \in Linked(M)
    <3>1. PICK t \in Q : n \in Range(L[t])
      BY <1>1 DEF Linked
    <3> QED BY <3>1, <2>2
  <2> QED BY <2>3, <2>4
<1>8. NoDup(M)
  <2>1. \A t \in Q : IsInjective(M[t])
    BY <1>1, <1>3, <1>4 DEF NoDup
  <2>2. \A t, v \in Q : t # v => Range(M[t]) \cap Range(M[v]) = {}
    BY <1>1, <1>6 DEF NoDup
  <2>3. DOMAIN M = Q
    BY <1>1
  <2> QED BY <2>1, <2>2, <2>3, Zenon DEF NoDup
<1> QED BY <1>5, <1>6, <1>7, <1>8 DEF JoinFacts
=============================================================================
