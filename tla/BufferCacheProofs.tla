------------------------- MODULE BufferCacheProofs -------------------------
(***************************************************************************)
(* Theorems about BufferCache, for any processes, devices and blocks, any  *)
(* size of the cache and any number of entries and writes.                 *)
(***************************************************************************)
EXTENDS BufferCache, BasicLemmas

-----------------------------------------------------------------------------
(* The invariant.  It speaks of a record s of the list and the entries and of a function c of  *)
(* the calls, since a step works on such a record; its parts hold of Now and call.            *)

EntryType == [key : Key, data : Data \cup {Junk}, dirty : BOOLEAN, loaded : BOOLEAN,
              live : BOOLEAN]
CallType == [at : {"user", "read", "write"}, op : {"none", "read", "write", "flush"},
             keys : SUBSET Key, v : Data, e : {0} \cup Id, hit : BOOLEAN,
             w : {0} \cup Id, d : Data \cup {Junk}]
StateType == [cache : Seq(Id), size : Nat, entry : Seq(EntryType), raced : SUBSET Race]

Made(s) == 1..Len(s.entry)

\* The list: it is not longer than its size field says, its entries are live, and no two are
\* for one block.
ListInv(s) ==
  /\ s \in StateType /\ Len(s.entry) <= MaxEntries
  /\ IsInjective(s.cache) /\ Len(s.cache) <= s.size
  /\ \A e \in Range(s.cache) : e \in Made(s) /\ s.entry[e].live
  /\ \A e, f \in Range(s.cache) : s.entry[e].key = s.entry[f].key => e = f

\* The calls: each works on an entry of its block, a trim on one that is out of the list, and
\* no two fetch the same one.
Fetches(x) == x.op = "read" /\ ~x.hit
Works(s, x) ==
  /\ x.op \in {"read", "write"} => x.e \in Made(s) /\ x.keys = {s.entry[x.e].key}
  /\ x.at = "user" => x.op = "none"
  /\ x.at = "read" => Fetches(x)
  /\ x.at = "write" => /\ x.w \in Made(s) /\ x.op # "none"
                       /\ x.op # "flush" => x.w \notin Range(s.cache)
CallInv(s, c) ==
  /\ \A p \in Proc : Works(s, c[p])
  /\ \A p, q \in Proc : Fetches(c[p]) /\ Fetches(c[q]) /\ c[p].e = c[q].e => p = q

\* An entry that is live and not in the list is one that a trim is writing to the device.
Trims(x, e) == x.at = "write" /\ x.op # "flush" /\ x.w = e
Tracked(s, c) ==
  \A e \in Made(s) : s.entry[e].live => e \in Range(s.cache) \/ \E p \in Proc : Trims(c[p], e)

\* What is in the entries and on the disk, as long as no race was recorded: no two live entries
\* are for one block; a loaded one has what was written last, and so has the disk if it is
\* clean, or if there is none; an entry that is written to the device keeps what it held, and
\* one that is fetched is not loaded yet.
Kept(s, dk, tr) ==
  /\ \A e, f \in Made(s) : s.entry[e].live /\ s.entry[f].live /\ s.entry[e].key = s.entry[f].key
                             => e = f
  /\ \A e \in Made(s) : s.entry[e].live /\ s.entry[e].loaded =>
       /\ s.entry[e].data = tr[s.entry[e].key]
       /\ ~s.entry[e].dirty => dk[s.entry[e].key] = tr[s.entry[e].key]
  /\ \A k \in Key : (\A e \in Made(s) : ~(s.entry[e].key = k /\ s.entry[e].live /\ s.entry[e].loaded))
                      => dk[k] = tr[k]
Agrees(s, x) ==
  /\ x.at = "write" => s.entry[x.w].loaded /\ s.entry[x.w].data = x.d
  /\ Fetches(x) => ~s.entry[x.e].loaded
CalmInv(s, dk, tr, c) == Kept(s, dk, tr) /\ \A p \in Proc : Agrees(s, c[p])

Whole(s, dk, tr, c, f) ==
  /\ ListInv(s) /\ CallInv(s, c) /\ Tracked(s, c)
  /\ s.raced = {} /\ f = "none" => CalmInv(s, dk, tr, c)

CacheInv == TypeOK /\ size <= CacheSize /\ Whole(Now, disk, truth, call, fault)

-----------------------------------------------------------------------------
(* What the operators on a record of the list and the entries do *)

\* t is s with the record r at entry e.
Updates(s, t, e, r) ==
  /\ t \in StateType /\ t.cache = s.cache /\ t.size = s.size /\ t.raced = s.raced
  /\ Made(t) = Made(s) /\ Len(t.entry) = Len(s.entry)
  /\ t.entry[e] = r /\ \A i \in Made(s) : i # e => t.entry[i] = s.entry[i]

\* The types of the fields of an entry.
LEMMA EntryFacts ==
  ASSUME NEW s \in StateType, NEW e \in Made(s)
  PROVE  /\ s.entry[e] \in EntryType /\ s.entry[e].key \in Key
         /\ s.entry[e].data \in Data \cup {Junk}
         /\ s.entry[e].live \in BOOLEAN /\ s.entry[e].loaded \in BOOLEAN
         /\ s.entry[e].dirty \in BOOLEAN
<1>1. s.entry[e] \in EntryType
  BY DEF StateType, Made
<1> QED BY <1>1 DEF EntryType

\* A state in which one entry has another value.
LEMMA UpdateFacts ==
  ASSUME NEW s \in StateType, NEW e \in Made(s), NEW r \in EntryType,
         NEW t, t = [s EXCEPT !.entry = [s.entry EXCEPT ![e] = r]]
  PROVE  Updates(s, t, e, r)
<1>1. s.entry \in Seq(EntryType) /\ e \in 1..Len(s.entry)
  BY DEF StateType, Made
<1> DEFINE x == [s.entry EXCEPT ![e] = r]
<1>2. /\ x \in Seq(EntryType) /\ Len(x) = Len(s.entry)
      /\ \A j \in 1..Len(s.entry) : x[j] = IF j = e THEN r ELSE s.entry[j]
  BY <1>1, ExceptSeq
<1> HIDE DEF x
<1>3. t \in StateType /\ t.cache = s.cache /\ t.size = s.size /\ t.raced = s.raced /\ t.entry = x
  <2>1. t = [s EXCEPT !.entry = x]
    BY DEF x
  <2> QED BY <1>2, <2>1 DEF StateType
<1> QED BY <1>1, <1>2, <1>3 DEF Updates, Made

\* bcache_entry_delete frees the entry and changes nothing else.
LEMMA DeleteFacts ==
  ASSUME NEW s \in StateType, NEW e \in Made(s)
  PROVE  /\ s.entry[e] \in EntryType
         /\ Updates(s, bcache_entry_delete(s, e), e, [s.entry[e] EXCEPT !.live = FALSE])
<1>1. s.entry[e] \in EntryType
  BY DEF StateType, Made
<1>2. [s.entry[e] EXCEPT !.live = FALSE] \in EntryType
  BY <1>1 DEF EntryType
<1> QED BY <1>1, <1>2, UpdateFacts DEF bcache_entry_delete

Loads(s, e, d) == [s EXCEPT !.entry[e].data = d, !.entry[e].loaded = TRUE]
Loaded(r, d) == [r EXCEPT !.data = d, !.loaded = TRUE]

\* A block that was read from the device is in its entry.
LEMMA LoadFacts ==
  ASSUME NEW s \in StateType, NEW e \in Made(s), NEW d \in Data \cup {Junk}
  PROVE  Updates(s, Loads(s, e, d), e, Loaded(s.entry[e], d))
<1> DEFINE r == Loaded(s.entry[e], d)
           t == Loads(s, e, d)
<1>1. s.entry[e] \in EntryType /\ s.entry \in Seq(EntryType) /\ e \in 1..Len(s.entry)
  BY DEF StateType, Made
<1>2. r \in EntryType
  BY <1>1 DEF EntryType, Loaded
<1>3. t = [s EXCEPT !.entry = [s.entry EXCEPT ![e] = r]]
  BY <1>1 DEF StateType, Loads, Loaded
<1> HIDE DEF r, t
<1>4. Updates(s, t, e, r)
  BY <1>2, <1>3, UpdateFacts
<1> QED BY <1>4 DEF r, t

\* A race that is recorded changes nothing but the record.
LEMMA NoteFacts ==
  ASSUME NEW s \in StateType, NEW what \in Race, NEW cond \in BOOLEAN
  PROVE  LET t == Note(s, what, cond)
         IN  /\ t \in StateType /\ t.cache = s.cache /\ t.size = s.size /\ t.entry = s.entry
             /\ Made(t) = Made(s) /\ (t.raced = {} => s.raced = {} /\ ~cond)
BY DEF Note, StateType, Made

\* The state that a call has worked out is the next one.
LEMMA CommitFacts ==
  ASSUME NEW s \in StateType, Commit(s)
  PROVE  Now' = s
BY DEF Commit, StateType, Now

-----------------------------------------------------------------------------
(* A step: what it does between two points where the processor is lost.  In the middle of it the  *)
(* record s is what the variables will be, and the call of p counts as none; dk is disk'.         *)

Others(p) == [call EXCEPT ![p] = Idle]
Mid(s, p, dk) ==
  /\ Whole(s, dk, truth, Others(p), "none") /\ CallInv(s, call)
  /\ s.raced = {} => raced = {}

\* The call x of p, in the middle of a step: its entry, which it alone fetches.
Own(s, p, x) ==
  /\ x \in CallType /\ x.op \in {"read", "write"} /\ x.e \in Made(s)
  /\ x.keys = {s.entry[x.e].key}
  /\ Fetches(x) => /\ \A q \in Proc \ {p} : Fetches(call[q]) => call[q].e # x.e
                   /\ s.raced = {} => ~s.entry[x.e].loaded

\* What the answer of a call says, as long as no race was recorded.
Tells ==
  \/ UNCHANGED <<truth, answer>>
  \/ answer' = None /\ truth' = truth
  \/ \E k \in Key : /\ answer' = <<k, truth'[k]>>
                    /\ truth' = truth \/ \E v \in Data : truth' = [truth EXCEPT ![k] = v]
Outcome(dk) ==
  /\ Whole(Now', dk, truth', call', fault') /\ size' <= CacheSize
  /\ call' \in [Proc -> CallType] /\ answer' \in {None} \cup (Key \X (Data \cup {Junk}))
  /\ truth' \in [Key -> Data] /\ fault' \in {"none", "freed"}
  /\ raced' = {} => raced = {}
  /\ raced' = {} /\ fault' = "none" => Tells

Context == /\ CacheAssumption
           /\ call \in [Proc -> CallType] /\ answer \in {None} \cup (Key \X (Data \cup {Junk}))
           /\ truth \in [Key -> Data]

\* A process that makes no call has no entry in its hands.
LEMMA IdleFacts ==
  ASSUME CacheAssumption
  PROVE  /\ Idle \in CallType /\ Idle.at = "user" /\ Idle.op = "none" /\ ~Fetches(Idle)
         /\ \A e : ~Trims(Idle, e)
         /\ \A s : Works(s, Idle) /\ Agrees(s, Idle)
<1>1. 0 \in Data /\ {} \in SUBSET Key
  BY DEF Data, CacheAssumption
<1> QED BY <1>1 DEF Idle, CallType, Fetches, Trims, Works, Agrees

\* The step ends with the call x of p.
LEMMA Resume ==
  ASSUME Context, NEW s, NEW dk, NEW p \in Proc, NEW x \in CallType,
         ListInv(s), CallInv(s, Others(p)), Works(s, x),
         Fetches(x) => \A q \in Proc \ {p} : Fetches(call[q]) => call[q].e # x.e,
         \A e \in Made(s) : s.entry[e].live =>
            e \in Range(s.cache) \/ Trims(x, e) \/ \E q \in Proc : Trims(Others(p)[q], e),
         s.raced = {} => /\ Kept(s, dk, truth) /\ \A q \in Proc : Agrees(s, Others(p)[q])
                         /\ Agrees(s, x)
  PROVE  Whole(s, dk, truth, [call EXCEPT ![p] = x], "none")
<1> DEFINE c == [call EXCEPT ![p] = x]
<1>1. /\ c[p] = x /\ \A q \in Proc \ {p} : c[q] = call[q] /\ Others(p)[q] = call[q]
      /\ Others(p)[p] = Idle /\ CacheAssumption
  BY DEF Context, Others
<1> HIDE DEF c
<1>2. CallInv(s, c)
  <2>1. \A q \in Proc : Works(s, c[q])
    BY <1>1 DEF CallInv
  <2>2. \A q, r \in Proc : Fetches(c[q]) /\ Fetches(c[r]) /\ c[q].e = c[r].e => q = r
    <3> SUFFICES ASSUME NEW q \in Proc, NEW r \in Proc, Fetches(c[q]), Fetches(c[r]),
                        c[q].e = c[r].e
                 PROVE  q = r
      OBVIOUS
    <3>1. CASE q # p /\ r # p
      BY <1>1, <3>1 DEF CallInv
    <3>2. CASE q = p \/ r = p
      BY <1>1, <3>2
    <3> QED BY <3>1, <3>2
  <2> QED BY <2>1, <2>2 DEF CallInv
<1>3. Tracked(s, c)
  <2> SUFFICES ASSUME NEW e \in Made(s), s.entry[e].live, e \notin Range(s.cache)
               PROVE  \E q \in Proc : Trims(c[q], e)
    BY DEF Tracked
  <2>1. Trims(x, e) \/ \E q \in Proc : Trims(Others(p)[q], e)
    OBVIOUS
  <2>2. CASE Trims(x, e)
    BY <1>1, <2>2
  <2>3. ASSUME NEW q \in Proc, Trims(Others(p)[q], e)
        PROVE  \E r \in Proc : Trims(c[r], e)
    <3>1. q # p
      BY <1>1, <2>3, IdleFacts
    <3> QED BY <1>1, <2>3, <3>1
  <2> QED BY <2>1, <2>2, <2>3
<1>4. s.raced = {} => CalmInv(s, dk, truth, c)
  <2>1. ASSUME s.raced = {}, NEW q \in Proc PROVE Agrees(s, c[q])
    BY <1>1, <2>1
  <2> QED BY <2>1 DEF CalmInv
<1> QED BY <1>2, <1>3, <1>4 DEF Whole, c

\* An entry is cleaned: the call goes on when it has been written to the device.  It is in the
\* list, or it has just been taken out of it.
LEMMA CleanStep ==
  ASSUME Context, NEW s, NEW dk, NEW p \in Proc, NEW x \in CallType, NEW e \in Made(s),
         ListInv(s), CallInv(s, Others(p)), s.size <= CacheSize,
         x.op = "flush" \/ (Own(s, p, x) /\ e \notin Range(s.cache)),
         \A i \in Made(s) : s.entry[i].live =>
            \/ i \in Range(s.cache) \/ (i = e /\ x.op # "flush")
            \/ \E q \in Proc : Trims(Others(p)[q], i),
         s.raced = {} => /\ raced = {} /\ Kept(s, dk, truth)
                         /\ \A q \in Proc : Agrees(s, Others(p)[q]),
         Clean(s, p, x, e), fault = "none"
  PROVE  Outcome(dk)
<1> DEFINE t == Note(s, "unread", ~s.entry[e].loaded)
           y == [x EXCEPT !.at = "write", !.w = e, !.d = s.entry[e].data]
<1>1. s \in StateType /\ s.entry[e] \in EntryType /\ e \in Id
  BY DEF ListInv, StateType, Made, Id, Context, CacheAssumption
<1>2. /\ t \in StateType /\ t.cache = s.cache /\ t.size = s.size /\ t.entry = s.entry
      /\ Made(t) = Made(s) /\ (t.raced = {} => s.raced = {} /\ s.entry[e].loaded)
  <2>1. (~s.entry[e].loaded) \in BOOLEAN /\ "unread" \in Race
    BY DEF Race
  <2> QED BY <1>1, <2>1, NoteFacts
<1>3. /\ y \in CallType /\ y.at = "write" /\ y.w = e /\ y.d = s.entry[e].data
      /\ y.op = x.op /\ y.e = x.e /\ y.hit = x.hit /\ y.keys = x.keys
  BY <1>1 DEF CallType, EntryType
<1>4. Commit(t) /\ call' = [call EXCEPT ![p] = y] /\ UNCHANGED <<answer, truth, fault>>
  BY DEF Clean, Transfer
<1> HIDE DEF t, y
<1>5. ListInv(t)
  BY <1>2 DEF ListInv
<1>6. CallInv(t, Others(p))
  BY <1>2 DEF CallInv, Works
<1>7. Works(t, y) /\ (Fetches(y) => \A q \in Proc \ {p} : Fetches(call[q]) => call[q].e # y.e)
  BY <1>2, <1>3 DEF Works, Own, Fetches
<1>8. \A i \in Made(t) : t.entry[i].live =>
            i \in Range(t.cache) \/ Trims(y, i) \/ \E q \in Proc : Trims(Others(p)[q], i)
  BY <1>2, <1>3 DEF Trims
<1>9. t.raced = {} => /\ Kept(t, dk, truth) /\ \A q \in Proc : Agrees(t, Others(p)[q])
                      /\ Agrees(t, y)
  BY <1>2, <1>3, SMTT(20) DEF Kept, Agrees, Own, Fetches
<1>10. Whole(t, dk, truth, [call EXCEPT ![p] = y], "none")
  BY <1>3, <1>5, <1>6, <1>7, <1>8, <1>9, Resume
<1>11. Now' = t /\ size' = t.size /\ raced' = t.raced
  BY <1>2, <1>4, CommitFacts DEF Commit
<1>12. call' \in [Proc -> CallType]
  BY <1>3, <1>4 DEF Context
<1> QED BY <1>2, <1>4, <1>10, <1>11, <1>12 DEF Outcome, Tells, Context

\* A freed entry is used: nothing is promised of the data.
LEMMA CrashStep ==
  ASSUME Context, NEW s, NEW dk, NEW p \in Proc, ListInv(s), CallInv(s, call),
         Tracked(s, Others(p)), s.size <= CacheSize, s.raced = {} => raced = {}, Crash(s)
  PROVE  Outcome(dk)
<1>1. /\ Now' = s /\ size' = s.size /\ raced' = s.raced /\ fault' = "freed"
      /\ UNCHANGED <<call, answer, truth>>
  BY CommitFacts DEF Crash, Commit, ListInv
<1>2. Tracked(s, call)
  <2>1. CacheAssumption /\ call \in [Proc -> CallType]
    BY DEF Context
  <2>2. \A e : \A q \in Proc : Trims(Others(p)[q], e) => Trims(call[q], e)
    BY <2>1, IdleFacts DEF Others
  <2> QED BY <2>2 DEF Tracked
<1>3. Whole(s, dk, truth, call, "freed")
  BY <1>2 DEF Whole
<1> QED BY <1>1, <1>3 DEF Outcome, Context

\* The call of p returns: what it leaves behind is as good as what was there in its middle.
LEMMA ReturnStep ==
  ASSUME Context, NEW s, NEW dk, NEW p \in Proc, NEW a \in {None} \cup (Key \X (Data \cup {Junk})),
         s.size <= CacheSize, fault = "none", truth' \in [Key -> Data],
         Whole(s, dk, truth', Others(p), "none"), s.raced = {} => raced = {},
         s.raced = {} => \/ a = None /\ truth' = truth
                         \/ \E k \in Key : /\ a = <<k, truth'[k]>>
                                           /\ \/ truth' = truth
                                              \/ \E v \in Data : truth' = [truth EXCEPT ![k] = v],
         Return(s, p, a)
  PROVE  Outcome(dk)
<1>1. /\ Now' = s /\ size' = s.size /\ raced' = s.raced /\ fault' = "none"
      /\ call' = Others(p) /\ answer' = a
  BY CommitFacts DEF Return, Commit, Whole, ListInv, Others
<1>2. call' \in [Proc -> CallType]
  BY <1>1, IdleFacts DEF Context, Others
<1> QED BY <1>1, <1>2 DEF Outcome, Tells

\* The memcpy into an entry.
Fills(s, t, p, x) ==
  /\ t \in StateType /\ t.cache = s.cache /\ t.size = s.size
  /\ Made(t) = Made(s) /\ Len(t.entry) = Len(s.entry)
  /\ \A i \in Made(s) \ {x.e} : t.entry[i] = s.entry[i]
  /\ t.entry[x.e].key = s.entry[x.e].key /\ t.entry[x.e].live = s.entry[x.e].live
  /\ t.entry[x.e].data = x.v /\ t.entry[x.e].loaded = TRUE /\ t.entry[x.e].dirty = TRUE
  /\ t.raced = {} => /\ s.raced = {}
                     /\ \A q \in Proc \ {p} : /\ Fetches(call[q]) => call[q].e # x.e
                                              /\ call[q].at = "write" => call[q].w # x.e

\* A read that found its block in the cache returns what is there.
LEMMA FilledFacts ==
  ASSUME Context, NEW s \in StateType, NEW p \in Proc, NEW x \in CallType, x.e \in Made(s)
  PROVE  Fills(s, Filled(s, p, x), p, x)
<1> DEFINE e == x.e
           t1 == [s EXCEPT !.entry[e].data = x.v, !.entry[e].loaded = TRUE,
                           !.entry[e].dirty = TRUE]
           others == {call[q] : q \in Proc \ {p}}
           over == \E d \in others : d.op = "read" /\ ~d.hit /\ d.e = e
           re == \E d \in others : d.at = "write" /\ d.w = e
<1>1. s.entry[e] \in EntryType /\ s.entry \in Seq(EntryType) /\ e \in 1..Len(s.entry)
  BY DEF StateType, Made
<1> DEFINE r == [s.entry[e] EXCEPT !.data = x.v, !.loaded = TRUE, !.dirty = TRUE]
<1>2. /\ r \in EntryType /\ r.key = s.entry[e].key /\ r.live = s.entry[e].live
      /\ r.data = x.v /\ r.loaded = TRUE /\ r.dirty = TRUE
  BY <1>1 DEF EntryType, CallType
<1>3. t1 = [s EXCEPT !.entry = [s.entry EXCEPT ![e] = r]]
  BY <1>1 DEF StateType
<1>4. Updates(s, t1, e, r)
  BY <1>2, <1>3, UpdateFacts
<1>5. Filled(s, p, x) = Note(Note(t1, "overwritten", over), "rewritten", re)
  BY DEF Filled
<1> DEFINE t2 == Note(t1, "overwritten", over)
<1>6. over \in BOOLEAN /\ re \in BOOLEAN /\ "overwritten" \in Race /\ "rewritten" \in Race
  BY DEF Race
<1> HIDE DEF t1, over, re, r
<1>7. /\ t2 \in StateType /\ t2.cache = t1.cache /\ t2.size = t1.size /\ t2.entry = t1.entry
      /\ Made(t2) = Made(t1) /\ (t2.raced = {} => t1.raced = {} /\ ~over)
  BY <1>4, <1>6, NoteFacts DEF Updates
<1> DEFINE t3 == Note(t2, "rewritten", re)
<1> HIDE DEF t2
<1>8. /\ t3 \in StateType /\ t3.cache = t2.cache /\ t3.size = t2.size /\ t3.entry = t2.entry
      /\ Made(t3) = Made(t2) /\ (t3.raced = {} => t2.raced = {} /\ ~re)
  BY <1>6, <1>7, NoteFacts
<1>9. Filled(s, p, x) = t3
  BY <1>5 DEF t2
<1> HIDE DEF t3
<1>10. ~over => \A q \in Proc \ {p} : Fetches(call[q]) => call[q].e # e
  BY DEF over, Fetches
<1>11. ~re => \A q \in Proc \ {p} : call[q].at = "write" => call[q].w # e
  BY DEF re
<1> QED BY <1>2, <1>4, <1>7, <1>8, <1>9, <1>10, <1>11 DEF Updates, Fills

\* The block of the call is in its entry: it is read or written there, and the call returns.
LEMMA UseStep ==
  ASSUME Context, NEW s, NEW dk, NEW p \in Proc, NEW x \in CallType,
         Mid(s, p, dk), s.size <= CacheSize, fault = "none",
         x.op \in {"read", "write"}, x.e \in Made(s), x.keys = {s.entry[x.e].key},
         Use(s, p, x)
  PROVE  Outcome(dk)
<1> DEFINE e == x.e
           k == s.entry[e].key
<1>1. /\ s \in StateType /\ s.entry[e] \in EntryType /\ k \in Key /\ e \in Made(s)
      /\ s.entry[e].data \in Data \cup {Junk}
  <2>1. s \in StateType
    BY DEF Mid, Whole, ListInv
  <2> QED BY <2>1, EntryFacts
<1>2. \A q \in Proc \ {p} : Others(p)[q] = call[q]
  BY DEF Context, Others
<1>3. /\ ListInv(s) /\ CallInv(s, Others(p)) /\ CallInv(s, call) /\ Tracked(s, Others(p))
      /\ s.raced = {} => Kept(s, dk, truth) /\ \A q \in Proc : Agrees(s, Others(p)[q])
      /\ s.raced = {} => raced = {}
  BY DEF Mid, Whole, CalmInv
<1>4. CASE ~s.entry[e].live
  <2>1. Crash(s)
    BY <1>4 DEF Use
  <2> QED BY <1>3, <2>1, CrashStep
<1>5. ASSUME s.entry[e].live, x.op = "read",
             Return(Note(s, "unread", ~s.entry[e].loaded), p, <<k, s.entry[e].data>>),
             UNCHANGED truth
      PROVE  Outcome(dk)
  <2> DEFINE t == Note(s, "unread", ~s.entry[e].loaded)
  <2>1. /\ t \in StateType /\ t.cache = s.cache /\ t.size = s.size /\ t.entry = s.entry
        /\ Made(t) = Made(s) /\ (t.raced = {} => s.raced = {} /\ s.entry[e].loaded)
    <3>1. (~s.entry[e].loaded) \in BOOLEAN /\ "unread" \in Race
      BY DEF Race
    <3> QED BY <1>1, <3>1, NoteFacts
  <2> HIDE DEF t
  <2>2. Whole(t, dk, truth', Others(p), "none")
    <3>1. ListInv(t) /\ CallInv(t, Others(p)) /\ Tracked(t, Others(p))
      BY <1>3, <2>1 DEF ListInv, CallInv, Works, Tracked
    <3>2. t.raced = {} => CalmInv(t, dk, truth, Others(p))
      BY <1>3, <2>1 DEF CalmInv, Kept, Agrees
    <3> QED BY <1>5, <3>1, <3>2 DEF Whole
  <2>3. t.raced = {} => s.entry[e].data = truth[k]
    BY <1>1, <1>3, <1>5, <2>1 DEF Kept
  <2>4. <<k, s.entry[e].data>> \in Key \X (Data \cup {Junk})
    BY <1>1
  <2> DEFINE a == <<k, s.entry[e].data>>
  <2>5. Return(t, p, a)
    BY <1>5 DEF t
  <2>6. t.raced = {} => a = <<k, truth'[k]>>
    BY <1>5, <2>3
  <2>7. truth' \in [Key -> Data] /\ t.size <= CacheSize /\ (t.raced = {} => raced = {})
    BY <1>3, <1>5, <2>1 DEF Context
  <2> HIDE DEF a, k
  <2>8. a \in {None} \cup (Key \X (Data \cup {Junk}))
    BY <2>4 DEF a
  <2> QED BY <1>1, <1>5, <2>2, <2>5, <2>6, <2>7, <2>8, ReturnStep
<1>6. ASSUME s.entry[e].live, x.op = "write",
             Return(Filled(s, p, x), p, <<k, x.v>>),
             truth' = [truth EXCEPT ![k] = x.v]
      PROVE  Outcome(dk)
  <2> DEFINE t == Filled(s, p, x)
  <2>1. /\ t \in StateType /\ t.cache = s.cache /\ t.size = s.size
        /\ Made(t) = Made(s) /\ Len(t.entry) = Len(s.entry)
        /\ \A i \in Made(s) \ {e} : t.entry[i] = s.entry[i]
        /\ t.entry[e].key = k /\ t.entry[e].live = s.entry[e].live
        /\ t.entry[e].data = x.v /\ t.entry[e].loaded = TRUE /\ t.entry[e].dirty = TRUE
        /\ t.raced = {} => /\ s.raced = {}
                           /\ \A q \in Proc \ {p} : /\ Fetches(call[q]) => call[q].e # e
                                                    /\ call[q].at = "write" => call[q].w # e
    <3>1. Fills(s, t, p, x)
      BY <1>1, FilledFacts
    <3> HIDE DEF t
    <3> QED BY <3>1 DEF Fills
  <2>2. /\ truth' \in [Key -> Data] /\ truth'[k] = x.v /\ x.v \in Data
        /\ \A j \in Key \ {k} : truth'[j] = truth[j]
    BY <1>1, <1>6 DEF Context, CallType
  <2>3. \A i \in Made(s) : t.entry[i].key = s.entry[i].key /\ t.entry[i].live = s.entry[i].live
    BY <1>6, <2>1
  <2> HIDE DEF t, k
  <2>4. ListInv(t)
    BY <1>3, <2>1, <2>3 DEF ListInv
  <2>5. CallInv(t, Others(p)) /\ Tracked(t, Others(p))
    BY <1>3, <2>1, <2>3 DEF CallInv, Works, Tracked
  <2>6. ASSUME t.raced = {}
        PROVE  CalmInv(t, dk, truth', Others(p))
    <3>1. s.raced = {} /\ Kept(s, dk, truth)
      BY <1>3, <2>1, <2>6
    <3>2. \A i \in Made(s) : s.entry[i].live /\ s.entry[i].key = k => i = e
      BY <1>1, <1>6, <3>1 DEF Kept, k
    <3>3. \A i \in Made(s) : s.entry[i].key \in Key
      BY <1>1, EntryFacts
    <3>4. \A i \in Made(t), j \in Made(t) :
             t.entry[i].live /\ t.entry[j].live /\ t.entry[i].key = t.entry[j].key => i = j
      BY <2>1, <2>3, <3>1 DEF Kept
    <3>5. ASSUME NEW i \in Made(t), t.entry[i].live, t.entry[i].loaded
          PROVE  /\ t.entry[i].data = truth'[t.entry[i].key]
                 /\ ~t.entry[i].dirty => dk[t.entry[i].key] = truth'[t.entry[i].key]
      <4>1. CASE i = e
        BY <2>1, <2>2, <4>1
      <4>2. CASE i # e
        <5>1. t.entry[i] = s.entry[i] /\ i \in Made(s)
          BY <2>1, <4>2
        <5>2. s.entry[i].key # k /\ s.entry[i].key \in Key
          BY <3>2, <3>3, <3>5, <4>2, <5>1
        <5>3. truth'[s.entry[i].key] = truth[s.entry[i].key]
          BY <2>2, <5>2
        <5> QED BY <3>1, <3>5, <5>1, <5>3 DEF Kept
      <4> QED BY <4>1, <4>2
    <3>6. ASSUME NEW j \in Key,
                 \A i \in Made(t) : ~(t.entry[i].key = j /\ t.entry[i].live /\ t.entry[i].loaded)
          PROVE  dk[j] = truth'[j]
      <4>1. j # k
        BY <1>1, <1>6, <2>1, <3>6
      <4>2. \A i \in Made(s) : ~(s.entry[i].key = j /\ s.entry[i].live /\ s.entry[i].loaded)
        <5> SUFFICES ASSUME NEW i \in Made(s), s.entry[i].key = j, s.entry[i].live,
                            s.entry[i].loaded
                     PROVE  FALSE
          OBVIOUS
        <5>1. i # e
          BY <4>1 DEF k
        <5> QED BY <2>1, <3>6, <5>1
      <4> QED BY <2>2, <3>1, <4>1, <4>2 DEF Kept
    <3>7. \A q \in Proc : Agrees(t, Others(p)[q])
      <4>1. Agrees(t, Others(p)[p])
        BY IdleFacts DEF Context, Others
      <4>2. ASSUME NEW q \in Proc \ {p}
            PROVE  Agrees(t, Others(p)[q])
        <5>1. Agrees(s, call[q]) /\ Works(s, call[q])
          BY <1>2, <1>3, <3>1 DEF CallInv
        <5>2. /\ Fetches(call[q]) => call[q].e \in Made(s) /\ call[q].e # e
              /\ call[q].at = "write" => call[q].w \in Made(s) /\ call[q].w # e
          BY <2>1, <2>6, <5>1 DEF Works, Fetches
        <5>3. Agrees(t, call[q])
          BY <2>1, <5>1, <5>2 DEF Agrees
        <5> QED BY <1>2, <5>3
      <4> QED BY <4>1, <4>2
    <3> QED BY <3>4, <3>5, <3>6, <3>7 DEF CalmInv, Kept
  <2>7. Whole(t, dk, truth', Others(p), "none")
    BY <2>4, <2>5, <2>6 DEF Whole
  <2>8. k \in Key
    BY <1>1 DEF k
  <2> DEFINE a == <<k, x.v>>
  <2>9. Return(t, p, a)
    BY <1>6 DEF t, k
  <2>10. a = <<k, truth'[k]>> /\ truth' = [truth EXCEPT ![k] = x.v]
    BY <1>6, <2>2 DEF k
  <2>11. a \in {None} \cup (Key \X (Data \cup {Junk}))
    BY <2>2, <2>8
  <2> HIDE DEF a
  <2>12. t.size <= CacheSize /\ (t.raced = {} => raced = {})
    BY <1>3, <2>1
  <2>13. \E j \in Key : /\ a = <<j, truth'[j]>>
                        /\ \/ truth' = truth
                           \/ \E v \in Data : truth' = [truth EXCEPT ![j] = v]
    BY <2>2, <2>8, <2>10
  <2> QED BY <2>2, <2>7, <2>9, <2>11, <2>12, <2>13, ReturnStep
<1>7. CASE s.entry[e].live
  <2>1. \E j \in {k} :
         \/ /\ x.op = "read"
            /\ Return(Note(s, "unread", ~s.entry[e].loaded), p, <<j, s.entry[e].data>>)
            /\ UNCHANGED truth
         \/ /\ x.op = "write"
            /\ Return(Filled(s, p, x), p, <<j, x.v>>)
            /\ truth' = [truth EXCEPT ![j] = x.v]
    BY <1>7 DEF Use
  <2> QED BY <1>5, <1>6, <1>7, <2>1
<1> QED BY <1>4, <1>7

\* What follows bcache_find_or_create: a read miss goes on with the device.
LEMMA ProceedStep ==
  ASSUME Context, NEW s, NEW dk, NEW p \in Proc, NEW x,
         Mid(s, p, dk), s.size <= CacheSize, fault = "none", Own(s, p, x), Proceed(s, p, x)
  PROVE  Outcome(dk)
<1>1. CASE Fetches(x)
  <2> DEFINE y == [x EXCEPT !.at = "read"]
  <2>1. /\ y \in CallType /\ y.at = "read" /\ y.op = x.op /\ y.e = x.e /\ y.hit = x.hit
        /\ y.keys = x.keys
    BY DEF Own, CallType
  <2>2. Commit(s) /\ call' = [call EXCEPT ![p] = y] /\ UNCHANGED <<answer, truth, fault>>
    BY <1>1 DEF Proceed, Transfer, Fetches
  <2> HIDE DEF y
  <2>3. /\ ListInv(s) /\ CallInv(s, Others(p)) /\ Tracked(s, Others(p))
        /\ s.raced = {} => /\ Kept(s, dk, truth) /\ \A q \in Proc : Agrees(s, Others(p)[q])
                           /\ raced = {}
    BY DEF Mid, Whole, CalmInv
  <2>4. Works(s, y) /\ \A q \in Proc \ {p} : Fetches(call[q]) => call[q].e # y.e
    BY <1>1, <2>1 DEF Own, Works, Fetches
  <2>5. s.raced = {} => Agrees(s, y)
    BY <1>1, <2>1 DEF Own, Agrees
  <2>6. Whole(s, dk, truth, [call EXCEPT ![p] = y], "none")
    BY <2>1, <2>3, <2>4, <2>5, Resume DEF Tracked
  <2>7. Now' = s /\ size' = s.size /\ raced' = s.raced
    BY <2>2, <2>3, CommitFacts DEF Commit, ListInv
  <2>8. call' \in [Proc -> CallType]
    BY <2>1, <2>2 DEF Context
  <2> QED BY <2>2, <2>3, <2>6, <2>7, <2>8 DEF Outcome, Tells, Context
<1>2. CASE ~Fetches(x)
  <2>1. Use(s, p, x)
    BY <1>2 DEF Proceed, Fetches
  <2> QED BY <2>1, UseStep DEF Own
<1> QED BY <1>1, <1>2

\* An entry that is in no list any more is freed; if it was loaded, its block is on the disk.
LEMMA DeleteStep ==
  ASSUME Context, NEW s, NEW dk, NEW tr \in [Key -> Data], NEW c, NEW e \in Made(s),
         ListInv(s), CallInv(s, c), e \notin Range(s.cache),
         \A i \in Made(s) \ {e} : s.entry[i].live =>
            i \in Range(s.cache) \/ \E q \in Proc : Trims(c[q], i),
         s.raced = {} => /\ CalmInv(s, dk, tr, c)
                         /\ s.entry[e].live /\ s.entry[e].loaded =>
                              dk[s.entry[e].key] = tr[s.entry[e].key]
  PROVE  /\ Whole(bcache_entry_delete(s, e), dk, tr, c, "none")
         /\ Updates(s, bcache_entry_delete(s, e), e, [s.entry[e] EXCEPT !.live = FALSE])
<1> DEFINE t == bcache_entry_delete(s, e)
           r == [s.entry[e] EXCEPT !.live = FALSE]
<1>1. /\ s \in StateType /\ s.entry[e] \in EntryType /\ Updates(s, t, e, r)
  BY DeleteFacts DEF ListInv
<1>2. /\ r.key = s.entry[e].key /\ r.data = s.entry[e].data /\ r.dirty = s.entry[e].dirty
      /\ r.loaded = s.entry[e].loaded /\ r.live = FALSE
  BY <1>1 DEF EntryType
<1> HIDE DEF t, r
<1>3. /\ t \in StateType /\ t.cache = s.cache /\ t.size = s.size /\ t.raced = s.raced
      /\ Made(t) = Made(s) /\ Len(t.entry) = Len(s.entry)
      /\ t.entry[e] = r /\ \A i \in Made(s) : i # e => t.entry[i] = s.entry[i]
  BY <1>1 DEF Updates
<1>4. \A i \in Made(s) : /\ t.entry[i].key = s.entry[i].key
                         /\ t.entry[i].data = s.entry[i].data
                         /\ t.entry[i].dirty = s.entry[i].dirty
                         /\ t.entry[i].loaded = s.entry[i].loaded
  BY <1>2, <1>3
<1>5. \A i \in Made(s) : t.entry[i].live => i # e /\ s.entry[i].live
  BY <1>2, <1>3
<1>6. ListInv(t)
  BY <1>3, <1>4 DEF ListInv
<1>7. CallInv(t, c)
  BY <1>3, <1>4 DEF CallInv, Works
<1>8. Tracked(t, c)
  BY <1>3, <1>5 DEF Tracked
<1>9. ASSUME t.raced = {}
      PROVE  CalmInv(t, dk, tr, c)
  <2>1. Kept(s, dk, tr) /\ \A q \in Proc : Agrees(s, c[q]) /\ Works(s, c[q])
    BY <1>3, <1>9 DEF CalmInv, CallInv
  <2>2. \A i \in Made(t), j \in Made(t) :
             t.entry[i].live /\ t.entry[j].live /\ t.entry[i].key = t.entry[j].key => i = j
    BY <1>3, <1>4, <1>5, <2>1 DEF Kept
  <2>3. \A i \in Made(t) : t.entry[i].live /\ t.entry[i].loaded =>
          /\ t.entry[i].data = tr[t.entry[i].key]
          /\ ~t.entry[i].dirty => dk[t.entry[i].key] = tr[t.entry[i].key]
    BY <1>3, <1>5, <2>1 DEF Kept
  <2>4. ASSUME NEW k \in Key,
               \A i \in Made(t) : ~(t.entry[i].key = k /\ t.entry[i].live /\ t.entry[i].loaded)
        PROVE  dk[k] = tr[k]
    <3>1. CASE s.entry[e].key = k /\ s.entry[e].live /\ s.entry[e].loaded
      BY <1>3, <1>9, <3>1
    <3>2. CASE ~(s.entry[e].key = k /\ s.entry[e].live /\ s.entry[e].loaded)
      <4>1. \A i \in Made(s) : ~(s.entry[i].key = k /\ s.entry[i].live /\ s.entry[i].loaded)
        BY <1>3, <2>4, <3>2
      <4> QED BY <2>1, <4>1 DEF Kept
    <3> QED BY <3>1, <3>2
  <2>5. \A q \in Proc : Agrees(t, c[q])
    BY <1>3, <1>4, <2>1 DEF Agrees, Works, Fetches
  <2> QED BY <2>2, <2>3, <2>4, <2>5 DEF CalmInv, Kept
<1>10. Whole(t, dk, tr, c, "none")
  BY <1>6, <1>7, <1>8, <1>9 DEF Whole
<1> QED BY <1>1, <1>10 DEF t, r

\* After DeleteStep the middle of the step goes on without the entry.
Remains(s, t, p, dk) ==
  /\ Mid(t, p, dk) /\ t.size = s.size /\ t.cache = s.cache
  /\ \A x : Own(s, p, x) => Own(t, p, x)

\* An entry that left the list is freed: what it had was written, or a race is recorded.
LEMMA MidDeleted ==
  ASSUME Context, NEW s, NEW dk, NEW p \in Proc, NEW e \in Made(s),
         ListInv(s), CallInv(s, Others(p)), CallInv(s, call), e \notin Range(s.cache),
         \A i \in Made(s) \ {e} : s.entry[i].live =>
            i \in Range(s.cache) \/ \E q \in Proc : Trims(Others(p)[q], i),
         s.raced = {} => /\ raced = {} /\ CalmInv(s, dk, truth, Others(p))
                         /\ s.entry[e].live /\ s.entry[e].loaded =>
                              dk[s.entry[e].key] = truth[s.entry[e].key]
  PROVE  Remains(s, bcache_entry_delete(s, e), p, dk)
<1> DEFINE t == bcache_entry_delete(s, e)
           r == [s.entry[e] EXCEPT !.live = FALSE]
<1>1. Whole(t, dk, truth, Others(p), "none") /\ Updates(s, t, e, r)
  BY DeleteStep DEF Context
<1>2. s.entry[e] \in EntryType
  BY EntryFacts DEF ListInv
<1>3. r.key = s.entry[e].key /\ r.loaded = s.entry[e].loaded
  BY <1>2 DEF EntryType
<1> HIDE DEF t, r
<1>4. /\ t.cache = s.cache /\ t.size = s.size /\ t.raced = s.raced /\ Made(t) = Made(s)
      /\ \A i \in Made(s) : /\ t.entry[i].key = s.entry[i].key
                            /\ t.entry[i].loaded = s.entry[i].loaded
  BY <1>1, <1>3 DEF Updates
<1>5. CallInv(t, call)
  BY <1>4 DEF CallInv, Works
<1>6. \A x : Own(s, p, x) => Own(t, p, x)
  BY <1>4 DEF Own
<1>7. Mid(t, p, dk)
  BY <1>1, <1>4, <1>5 DEF Mid
<1> QED BY <1>4, <1>6, <1>7 DEF Remains, t

\* bcache_trim
LEMMA TrimStep ==
  ASSUME Context, NEW s, NEW dk, NEW p \in Proc, NEW x,
         Mid(s, p, dk), s.size <= CacheSize + 1, s.size > CacheSize => s.cache # << >>,
         fault = "none", Own(s, p, x), Trim(s, p, x)
  PROVE  Outcome(dk)
<1>1. CASE s.size <= CacheSize
  BY <1>1, ProceedStep DEF Trim
<1>2. CASE ~(s.size <= CacheSize)
  <2> DEFINE e == Last(s.cache)
             t == [s EXCEPT !.cache = Front(@), !.size = @ - 1]
  <2>1. IF s.entry[e].dirty THEN Clean(t, p, x, e)
        ELSE Proceed(bcache_entry_delete(t, e), p, x)
    BY <1>2 DEF Trim
  <2>2. /\ s \in StateType /\ s.cache \in Seq(Id) /\ s.cache # << >> /\ IsInjective(s.cache)
        /\ s.size \in Nat /\ CacheSize \in Nat /\ Len(s.cache) <= s.size
        /\ Len(s.entry) <= MaxEntries /\ s.entry \in Seq(EntryType) /\ s.raced \in SUBSET Race
    BY <1>2 DEF Mid, Whole, ListInv, StateType, Context, CacheAssumption
  <2>3. /\ Front(s.cache) \in Seq(Id) /\ Len(Front(s.cache)) = Len(s.cache) - 1
        /\ e \in Range(s.cache) /\ Range(Front(s.cache)) = Range(s.cache) \ {e}
        /\ IsInjective(Front(s.cache))
    BY <2>2, FrontNodes
  <2>4. /\ t \in StateType /\ t.cache = Front(s.cache) /\ t.size = s.size - 1
        /\ t.entry = s.entry /\ t.raced = s.raced /\ Made(t) = Made(s)
        /\ t.size <= CacheSize /\ Len(t.cache) <= t.size
    <3>1. s.size - 1 \in Nat /\ s.size - 1 <= CacheSize /\ Len(Front(s.cache)) <= s.size - 1
      <4>1. Len(s.cache) \in Nat
        BY <2>2
      <4> QED BY <1>2, <2>2, <2>3, <4>1
    <3>2. /\ t \in StateType /\ t.cache = Front(s.cache) /\ t.size = s.size - 1
          /\ t.entry = s.entry /\ t.raced = s.raced
      BY <2>2, <2>3, <3>1 DEF StateType
    <3> HIDE DEF t
    <3> QED BY <3>1, <3>2 DEF Made
  <2>5. /\ ListInv(s) /\ CallInv(s, Others(p)) /\ CallInv(s, call) /\ Tracked(s, Others(p))
        /\ s.raced = {} => raced = {} /\ CalmInv(s, dk, truth, Others(p))
    BY DEF Mid, Whole
  <2> HIDE DEF t, e
  <2>6. e \in Made(s) /\ s.entry[e].live
    BY <2>3, <2>5 DEF ListInv
  <2>7. ListInv(t)
    BY <2>2, <2>3, <2>4, <2>5 DEF ListInv
  <2>8. CallInv(t, Others(p)) /\ CallInv(t, call)
    BY <2>3, <2>4, <2>5 DEF CallInv, Works
  <2>9. \A i \in Made(t) \ {e} : t.entry[i].live =>
            i \in Range(t.cache) \/ \E q \in Proc : Trims(Others(p)[q], i)
    BY <2>3, <2>4, <2>5 DEF Tracked
  <2>10. t.raced = {} => raced = {} /\ CalmInv(t, dk, truth, Others(p))
    BY <2>4, <2>5 DEF CalmInv, Kept, Agrees
  <2>11. Own(t, p, x)
    BY <2>4 DEF Own
  <2>12. CASE s.entry[e].dirty
    <3>1. x \in CallType /\ x.op # "flush"
      BY DEF Own
    <3>2. Clean(t, p, x, e)
      BY <2>1, <2>12
    <3>3. t.raced = {} => /\ raced = {} /\ Kept(t, dk, truth)
                          /\ \A q \in Proc : Agrees(t, Others(p)[q])
      BY <2>10 DEF CalmInv
    <3>4. e \in Made(t) /\ e \notin Range(t.cache)
      BY <2>3, <2>4, <2>6
    <3> QED BY <2>4, <2>7, <2>8, <2>9, <2>11, <3>1, <3>2, <3>3, <3>4, CleanStep
  <2>13. CASE ~s.entry[e].dirty
    <3> DEFINE u == bcache_entry_delete(t, e)
    <3>1. t.raced = {} => (t.entry[e].live /\ t.entry[e].loaded =>
                             dk[t.entry[e].key] = truth[t.entry[e].key])
      BY <2>4, <2>5, <2>6, <2>13 DEF CalmInv, Kept
    <3>2. Remains(t, u, p, dk)
      BY <2>3, <2>4, <2>6, <2>7, <2>8, <2>9, <2>10, <3>1, MidDeleted
    <3>3. Proceed(u, p, x)
      BY <2>1, <2>13
    <3> HIDE DEF u
    <3> QED BY <2>4, <2>11, <3>2, <3>3, ProceedStep DEF Remains
  <2> QED BY <2>12, <2>13
<1> QED BY <1>1, <1>2

\* The loop of the flush functions.
LEMMA FlushStep ==
  ASSUME Context, NEW s, NEW dk, NEW p \in Proc, NEW x \in CallType, NEW i \in Nat,
         Mid(s, p, dk), s.size <= CacheSize, fault = "none", x.op = "flush", i > 0,
         Flush(s, p, x, i)
  PROVE  Outcome(dk)
<1> DEFINE dirty == {j \in i..Len(s.cache) : /\ s.entry[s.cache[j]].key \in x.keys
                                             /\ s.entry[s.cache[j]].dirty}
<1>1. IF dirty = {} THEN Return(s, p, None) /\ UNCHANGED truth
      ELSE Clean(s, p, x, s.cache[Min(dirty)])
  BY DEF Flush
<1>2. /\ ListInv(s) /\ CallInv(s, Others(p)) /\ Tracked(s, Others(p))
      /\ s.raced = {} => /\ raced = {} /\ Kept(s, dk, truth)
                         /\ \A q \in Proc : Agrees(s, Others(p)[q])
      /\ Whole(s, dk, truth, Others(p), "none")
  BY DEF Mid, Whole, CalmInv
<1>3. CASE dirty = {}
  <2>1. Return(s, p, None) /\ truth' = truth
    BY <1>1, <1>3
  <2>2. Whole(s, dk, truth', Others(p), "none") /\ truth' \in [Key -> Data]
    BY <1>2, <2>1 DEF Context
  <2>3. None \in {None} \cup (Key \X (Data \cup {Junk}))
    OBVIOUS
  <2> HIDE DEF dirty
  <2> QED BY <1>2, <2>1, <2>2, <2>3, ReturnStep
<1>4. CASE dirty # {}
  <2>1. s.cache \in Seq(Id) /\ Len(s.cache) \in Nat
    BY <1>2 DEF ListInv, StateType
  <2>2. dirty \in SUBSET Nat /\ \A j \in dirty : j \in 1..Len(s.cache)
    BY <2>1
  <2> HIDE DEF dirty
  <2>3. Min(dirty) \in 1..Len(s.cache)
    BY <1>4, <2>2, MinIn
  <2> DEFINE e == s.cache[Min(dirty)]
  <2>4. e \in Range(s.cache)
    BY <2>1, <2>3 DEF Range
  <2>5. e \in Made(s)
    BY <1>2, <2>4 DEF ListInv
  <2>6. Clean(s, p, x, e)
    BY <1>1, <1>4
  <2> HIDE DEF e
  <2> QED BY <1>2, <2>5, <2>6, CleanStep DEF Tracked
<1> QED BY <1>3, <1>4

-----------------------------------------------------------------------------
(* The steps *)

\* What the invariant says of the cache before a call.
LEMMA NowFacts ==
  ASSUME CacheAssumption, CacheInv
  PROVE  /\ Context /\ Now.cache = cache /\ Now.size = size /\ Now.entry = entry
         /\ Now.raced = raced /\ Now \in StateType /\ disk \in [Key -> Data \cup {Junk}]
         /\ ListInv(Now) /\ CallInv(Now, call) /\ Tracked(Now, call) /\ size <= CacheSize
         /\ size \in Nat /\ CacheSize \in Nat
         /\ raced = {} /\ fault = "none" => CalmInv(Now, disk, truth, call)
<1>1. call \in [Proc -> CallType]
  BY DEF CacheInv, TypeOK, CallType
<1>2. /\ Now.cache = cache /\ Now.size = size /\ Now.entry = entry /\ Now.raced = raced
      /\ Whole(Now, disk, truth, call, fault) /\ size <= CacheSize
  BY DEF CacheInv, Now
<1>3. /\ answer \in {None} \cup (Key \X (Data \cup {Junk})) /\ truth \in [Key -> Data]
      /\ disk \in [Key -> Data \cup {Junk}] /\ size \in Nat
  BY DEF CacheInv, TypeOK
<1> QED BY <1>1, <1>2, <1>3 DEF Whole, ListInv, Context, CacheAssumption

\* What holds of all calls holds of those of the other processes.
LEMMA OthersFacts ==
  ASSUME Context, NEW s, NEW p \in Proc
  PROVE  /\ CallInv(s, call) => CallInv(s, Others(p))
         /\ (\A q \in Proc : Agrees(s, call[q])) => \A q \in Proc : Agrees(s, Others(p)[q])
         /\ \A q \in Proc \ {p} : Others(p)[q] = call[q]
         /\ Others(p)[p] = Idle
         /\ Tracked(s, call) =>
              \A e \in Made(s) : s.entry[e].live =>
                \/ e \in Range(s.cache) \/ Trims(call[p], e)
                \/ \E q \in Proc : Trims(Others(p)[q], e)
<1>1. /\ \A q \in Proc \ {p} : Others(p)[q] = call[q]
      /\ Others(p)[p] = Idle /\ CacheAssumption
  BY DEF Context, Others
<1>2. ASSUME CallInv(s, call)
      PROVE  CallInv(s, Others(p))
  <2>1. \A q \in Proc : Works(s, Others(p)[q]) /\ (Fetches(Others(p)[q]) => q # p)
    BY <1>1, <1>2, IdleFacts DEF CallInv
  <2> QED BY <1>1, <1>2, <2>1 DEF CallInv
<1>3. ASSUME \A q \in Proc : Agrees(s, call[q]), NEW q \in Proc
      PROVE  Agrees(s, Others(p)[q])
  BY <1>1, <1>3, IdleFacts
<1>4. ASSUME Tracked(s, call), NEW e \in Made(s), s.entry[e].live, e \notin Range(s.cache),
             ~Trims(call[p], e)
      PROVE  \E q \in Proc : Trims(Others(p)[q], e)
  <2>1. PICK q \in Proc : Trims(call[q], e)
    BY <1>4 DEF Tracked
  <2>2. q # p
    BY <1>4, <2>1
  <2> QED BY <1>1, <2>1, <2>2
<1> QED BY <1>1, <1>2, <1>3, <1>4

\* A call begins in a state in which the cache is whole.
LEMMA MidStart ==
  ASSUME CacheAssumption, CacheInv, NEW p \in Proc, call[p].at # "write", fault = "none"
  PROVE  Mid(Now, p, disk)
<1>1. /\ Context /\ ListInv(Now) /\ CallInv(Now, call) /\ Tracked(Now, call)
      /\ raced = {} => CalmInv(Now, disk, truth, call)
      /\ Now.raced = raced
  BY NowFacts
<1>2. \A e : ~Trims(call[p], e)
  BY DEF Trims
<1>3. CallInv(Now, Others(p)) /\ Tracked(Now, Others(p))
  BY <1>1, <1>2, OthersFacts DEF Tracked
<1>4. raced = {} => CalmInv(Now, disk, truth, Others(p))
  BY <1>1, OthersFacts DEF CalmInv
<1> QED BY <1>1, <1>3, <1>4 DEF Mid, Whole

\* bcache_entry_create and list_push_head.
LEMMA CreatedStep ==
  ASSUME CacheAssumption, CacheInv, NEW p \in Proc, call[p].at # "write", fault = "none",
         NEW k \in Key, NEW garbage \in BOOLEAN, bcache_find(Now, k) = {}, Len(entry) < MaxEntries
  PROVE  LET s == Created(Now, k, garbage)
             n == Len(entry) + 1
         IN  /\ Mid(s, p, disk) /\ s.size = size + 1 /\ s.cache # << >>
             /\ n \in Made(s) /\ s.entry[n].key = k /\ ~s.entry[n].loaded
             /\ \A q \in Proc : Fetches(call[q]) => call[q].e # n
<1> DEFINE n == Len(entry) + 1
           new == [key |-> k, data |-> Junk, dirty |-> garbage, loaded |-> FALSE, live |-> TRUE]
           t == [Now EXCEPT !.cache = <<n>> \o @, !.size = @ + 1, !.entry = Append(@, new)]
           late == \E q \in Proc : call[q].at = "write" /\ entry[call[q].w].key = k
           s == Note(t, "reordered", late)
<1>1. /\ Context /\ Now.cache = cache /\ Now.size = size /\ Now.entry = entry /\ Now.raced = raced
      /\ Now \in StateType /\ ListInv(Now) /\ CallInv(Now, call) /\ Tracked(Now, call)
      /\ size \in Nat
      /\ raced = {} => CalmInv(Now, disk, truth, call)
  BY NowFacts
<1>2. Created(Now, k, garbage) = s
  BY <1>1 DEF Created
<1>3. /\ cache \in Seq(Id) /\ entry \in Seq(EntryType) /\ Len(entry) \in Nat /\ MaxEntries \in Nat
      /\ n \in Id /\ new \in EntryType /\ n \in Nat
  BY <1>1 DEF StateType, Id, EntryType, CacheAssumption
<1>4. Range(cache) \subseteq 1..Len(entry) /\ n \notin Range(cache) /\ IsInjective(cache)
  BY <1>1, <1>3 DEF ListInv, Made
<1>5. /\ <<n>> \o cache \in Seq(Id) /\ Len(<<n>> \o cache) = Len(cache) + 1
      /\ <<n>> \o cache # << >> /\ Range(<<n>> \o cache) = Range(cache) \cup {n}
      /\ IsInjective(<<n>> \o cache)
  BY <1>3, <1>4, PushNodes
<1> HIDE DEF new, n
<1>6. /\ Append(entry, new) \in Seq(EntryType) /\ Len(Append(entry, new)) = n
      /\ Append(entry, new)[n] = new
      /\ \A i \in 1..Len(entry) : Append(entry, new)[i] = entry[i]
  BY <1>3 DEF n
<1>7. /\ t \in StateType /\ t.cache = <<n>> \o cache /\ t.size = size + 1
      /\ t.entry = Append(entry, new) /\ t.raced = raced
  <2> DEFINE l == <<n>> \o cache
             es == Append(entry, new)
  <2>1. l \in Seq(Id) /\ es \in Seq(EntryType) /\ size + 1 \in Nat /\ raced \in SUBSET Race
    BY <1>1, <1>5, <1>6 DEF StateType
  <2>2. t = [Now EXCEPT !.cache = l, !.size = size + 1, !.entry = es]
    BY <1>1
  <2> HIDE DEF l, es, t
  <2>3. /\ t \in StateType /\ t.cache = l /\ t.size = size + 1 /\ t.entry = es
        /\ t.raced = raced
    BY <1>1, <2>1, <2>2 DEF StateType
  <2> QED BY <2>3 DEF l, es
<1> HIDE DEF t
<1>8. late \in BOOLEAN /\ "reordered" \in Race
  BY DEF Race
<1> HIDE DEF late
<1>9. /\ s \in StateType /\ s.cache = <<n>> \o cache /\ s.size = size + 1
      /\ s.entry = Append(entry, new)
      /\ s.raced = {} => raced = {} /\ ~late
  BY <1>7, <1>8, NoteFacts
<1> HIDE DEF s
<1>10. /\ Made(s) = Made(Now) \cup {n} /\ n \notin Made(Now) /\ Made(Now) = 1..Len(entry)
       /\ Len(s.entry) = n
  BY <1>1, <1>3, <1>6, <1>9 DEF Made, n
<1>11. s.entry[n] = new /\ \A i \in Made(Now) : s.entry[i] = entry[i]
  BY <1>6, <1>9, <1>10
<1>12. /\ new.key = k /\ new.live = TRUE /\ new.loaded = FALSE
  BY DEF new
<1>13. Range(s.cache) = Range(cache) \cup {n} /\ \A e \in Range(cache) : entry[e].key # k
  BY <1>1, <1>5, <1>9 DEF bcache_find
<1>14. ListInv(s)
  <2>1. Len(s.entry) <= MaxEntries /\ IsInjective(s.cache) /\ Len(s.cache) <= s.size
    BY <1>1, <1>3, <1>5, <1>9, <1>10 DEF ListInv, n
  <2>2. \A e \in Range(s.cache) : e \in Made(s) /\ s.entry[e].live
    BY <1>1, <1>10, <1>11, <1>12, <1>13 DEF ListInv
  <2>3. \A e \in Range(s.cache), f \in Range(s.cache) : s.entry[e].key = s.entry[f].key => e = f
    <3>1. \A e \in Range(cache) : e \in Made(Now) /\ s.entry[e].key = entry[e].key
      BY <1>1, <1>11 DEF ListInv
    <3>2. \A e \in Range(cache), f \in Range(cache) : entry[e].key = entry[f].key => e = f
      BY <1>1 DEF ListInv
    <3> QED BY <1>11, <1>12, <1>13, <3>1, <3>2
  <2> QED BY <1>9, <2>1, <2>2, <2>3 DEF ListInv
<1>15. CallInv(s, call)
  <2>1. ASSUME NEW q \in Proc PROVE Works(s, call[q])
    <3>1. Works(Now, call[q])
      BY <1>1 DEF CallInv
    <3> QED BY <1>1, <1>10, <1>11, <1>13, <3>1 DEF Works
  <2> QED BY <1>1, <2>1 DEF CallInv
<1>16. Tracked(s, Others(p))
  <2> SUFFICES ASSUME NEW e \in Made(Now), entry[e].live, e \notin Range(cache)
               PROVE  \E q \in Proc : Trims(Others(p)[q], e)
    BY <1>1, <1>10, <1>11, <1>13 DEF Tracked
  <2>1. ~Trims(call[p], e)
    BY DEF Trims
  <2> QED BY <1>1, <2>1, OthersFacts
<1>17. ASSUME s.raced = {}
       PROVE  CalmInv(s, disk, truth, Others(p))
  <2>1. Kept(Now, disk, truth) /\ \A q \in Proc : Agrees(Now, call[q])
    BY <1>1, <1>9, <1>17 DEF CalmInv
  <2>2. \A e \in Made(Now) : entry[e].live => entry[e].key # k
    <3> SUFFICES ASSUME NEW e \in Made(Now), entry[e].live, entry[e].key = k PROVE FALSE
      OBVIOUS
    <3>1. e \notin Range(cache)
      BY <1>13
    <3>2. \E q \in Proc : Trims(call[q], e)
      BY <1>1, <3>1 DEF Tracked
    <3>3. late
      BY <3>2 DEF late, Trims
    <3> QED BY <1>9, <1>17, <3>3
  <2>3. \A e \in Made(s), f \in Made(s) :
          s.entry[e].live /\ s.entry[f].live /\ s.entry[e].key = s.entry[f].key => e = f
    <3>1. \A e \in Made(Now), f \in Made(Now) :
            entry[e].live /\ entry[f].live /\ entry[e].key = entry[f].key => e = f
      BY <1>1, <2>1 DEF Kept
    <3> QED BY <1>10, <1>11, <1>12, <2>2, <3>1
  <2>4. \A e \in Made(s) : s.entry[e].live /\ s.entry[e].loaded =>
          /\ s.entry[e].data = truth[s.entry[e].key]
          /\ ~s.entry[e].dirty => disk[s.entry[e].key] = truth[s.entry[e].key]
    BY <1>1, <1>10, <1>11, <1>12, <2>1 DEF Kept
  <2>5. ASSUME NEW j \in Key,
               \A e \in Made(s) : ~(s.entry[e].key = j /\ s.entry[e].live /\ s.entry[e].loaded)
        PROVE  disk[j] = truth[j]
    <3>1. \A e \in Made(Now) : ~(entry[e].key = j /\ entry[e].live /\ entry[e].loaded)
      BY <1>10, <1>11, <2>5
    <3> QED BY <1>1, <2>1, <3>1 DEF Kept
  <2>6. \A q \in Proc : Agrees(s, call[q])
    BY <1>1, <1>10, <1>11, <2>1 DEF Agrees, CallInv, Works, Fetches
  <2> QED BY <1>1, <2>3, <2>4, <2>5, <2>6, OthersFacts DEF CalmInv, Kept
<1>18. Mid(s, p, disk)
  <2>1. CallInv(s, Others(p))
    BY <1>1, <1>15, OthersFacts
  <2> QED BY <1>9, <1>14, <1>15, <1>16, <1>17, <2>1 DEF Mid, Whole
<1>19. ASSUME NEW q \in Proc, Fetches(call[q])
       PROVE  call[q].e # n
  <2>1. call[q].e \in Made(Now)
    BY <1>1, <1>19 DEF CallInv, Works, Fetches
  <2> QED BY <1>10, <2>1
<1>20. s.cache # << >> /\ n \in Made(s)
  BY <1>5, <1>9, <1>10
<1>21. /\ Mid(s, p, disk) /\ s.size = size + 1 /\ s.cache # << >>
       /\ n \in Made(s) /\ s.entry[n].key = k /\ ~s.entry[n].loaded
       /\ \A q \in Proc : Fetches(call[q]) => call[q].e # n
  BY <1>9, <1>11, <1>12, <1>18, <1>19, <1>20
<1> QED BY <1>2, <1>21 DEF n

\* bcache_read_block and bcache_write_block from the lookup up to the first wait.
LEMMA BeginStep ==
  ASSUME CacheAssumption, CacheInv, NEW p \in Proc, NEW k \in Key, NEW garbage \in BOOLEAN,
         NEW x \in CallType, x.at = "user", x.op \in {"read", "write"}, x.keys = {k},
         Begin(p, x, k, garbage)
  PROVE  Outcome(disk) /\ disk' = disk
<1>1. /\ Context /\ Now.cache = cache /\ Now.size = size /\ Now.entry = entry
      /\ size <= CacheSize /\ size \in Nat /\ CacheSize \in Nat /\ ListInv(Now)
      /\ Now \in StateType
  BY NowFacts
<1>2. call[p].at = "user" /\ fault = "none" /\ disk' = disk /\ call[p].at # "write"
  <2>1. call[p].at = "user" /\ fault = "none" /\ disk' = disk
    BY Zenon DEF Begin
  <2> QED BY <2>1
<1>3. ASSUME NEW e \in bcache_find(Now, k), Trim(Now, p, [x EXCEPT !.e = e, !.hit = TRUE])
      PROVE  Outcome(disk)
  <2> DEFINE y == [x EXCEPT !.e = e, !.hit = TRUE]
  <2>1. e \in Range(cache) /\ entry[e].key = k
    BY <1>1 DEF bcache_find
  <2>2. e \in Made(Now) /\ e \in Id
    BY <1>1, <2>1 DEF ListInv, Made, Id, CacheAssumption
  <2>3. /\ y \in CallType /\ y.op \in {"read", "write"} /\ y.e = e /\ y.keys = {k}
        /\ y.hit = TRUE
    BY <2>2 DEF CallType
  <2> HIDE DEF y
  <2>4. Own(Now, p, y)
    BY <1>1, <2>1, <2>2, <2>3 DEF Own, Fetches
  <2>5. Mid(Now, p, disk)
    BY <1>2, MidStart
  <2>6. Now.size <= CacheSize + 1 /\ ~(Now.size > CacheSize)
    BY <1>1
  <2>7. Trim(Now, p, y)
    BY <1>3 DEF y
  <2> QED BY <1>1, <1>2, <2>4, <2>5, <2>6, <2>7, TrimStep
<1>4. ASSUME bcache_find(Now, k) = {}, Len(entry) < MaxEntries,
             Trim(Created(Now, k, garbage), p, [x EXCEPT !.e = Len(entry) + 1])
      PROVE  Outcome(disk)
  <2> DEFINE n == Len(entry) + 1
             s == Created(Now, k, garbage)
             y == [x EXCEPT !.e = n]
  <2>1. /\ Mid(s, p, disk) /\ s.size = size + 1 /\ s.cache # << >>
        /\ n \in Made(s) /\ s.entry[n].key = k /\ ~s.entry[n].loaded
        /\ \A q \in Proc : Fetches(call[q]) => call[q].e # n
    BY <1>2, <1>4, CreatedStep
  <2>2. Trim(s, p, y)
    BY <1>4
  <2> HIDE DEF s
  <2>3. n \in Id
    BY <2>1 DEF Mid, Whole, ListInv, Made, Id, CacheAssumption
  <2> HIDE DEF n
  <2>4. /\ y \in CallType /\ y.op \in {"read", "write"} /\ y.e = n /\ y.keys = {k}
    BY <2>3 DEF CallType
  <2> HIDE DEF y
  <2>5. Own(s, p, y)
    BY <2>1, <2>4 DEF Own
  <2>6. s.size <= CacheSize + 1
    BY <1>1, <2>1
  <2> QED BY <1>1, <1>2, <2>1, <2>2, <2>5, <2>6, TrimStep
<1> QED BY <1>2, <1>3, <1>4, Zenon DEF Begin

\* The device has answered a read: the entry is filled, and the call goes on.
LEMMA ReadDoneStep ==
  ASSUME CacheAssumption, CacheInv, NEW p \in Proc, NEW ok \in BOOLEAN, ReadDone(p, ok)
  PROVE  Outcome(disk) /\ disk' = disk
<1> DEFINE x == call[p]
           e == x.e
           k == entry[e].key
<1>1. /\ Context /\ Now.cache = cache /\ Now.size = size /\ Now.entry = entry /\ Now.raced = raced
      /\ size <= CacheSize /\ size \in Nat /\ CacheSize \in Nat
      /\ Now \in StateType /\ ListInv(Now) /\ CallInv(Now, call) /\ Tracked(Now, call)
  BY NowFacts
<1>2. /\ x.at = "read" /\ x.at # "write" /\ fault = "none" /\ disk' = disk
      /\ IF ~entry[e].live THEN Crash(Now)
         ELSE IF ok
         THEN Use([Now EXCEPT !.entry[e].data = disk[k], !.entry[e].loaded = TRUE], p, x)
         ELSE /\ Return(bcache_entry_delete(Removed(Now, e), e), p, None)
              /\ UNCHANGED truth
  BY DEF ReadDone
<1>3. /\ Works(Now, x) /\ Fetches(x) /\ x \in CallType /\ e \in Made(Now) /\ x.keys = {k}
      /\ x.op = "read"
  BY <1>1, <1>2 DEF CallInv, Works, Fetches, Context
<1>4. raced = {} => /\ CalmInv(Now, disk, truth, call) /\ ~entry[e].loaded
  BY <1>1, <1>2, <1>3, NowFacts DEF CalmInv, Agrees
<1>5. entry[e] \in EntryType /\ k \in Key /\ disk[k] \in Data \cup {Junk}
  <2>1. entry[e] \in EntryType /\ k \in Key
    BY <1>1, <1>3, EntryFacts
  <2> QED BY <2>1, NowFacts
<1>6. Mid(Now, p, disk)
  BY <1>2, MidStart
<1>7. CallInv(Now, Others(p)) /\ Tracked(Now, Others(p))
  BY <1>6 DEF Mid, Whole
<1>8. \A q \in Proc \ {p} : Others(p)[q] = call[q] /\ Others(p)[p] = Idle
  BY <1>1, OthersFacts
<1>9. CASE ~entry[e].live
  BY <1>1, <1>2, <1>7, <1>9, CrashStep
<1>10. CASE entry[e].live /\ ok
  <2> DEFINE r == Loaded(entry[e], disk[k])
             s == Loads(Now, e, disk[k])
  <2>1. /\ r \in EntryType /\ r.key = k /\ r.data = disk[k] /\ r.loaded = TRUE
        /\ r.live = entry[e].live /\ r.dirty = entry[e].dirty
    BY <1>5 DEF EntryType, Loaded
  <2>3. Updates(Now, s, e, r)
    <3> HIDE DEF k, e
    <3> QED BY <1>1, <1>3, <1>5, LoadFacts
  <2>4. Use(s, p, x)
    BY <1>2, <1>10, Zenon DEF Loads
  <2> HIDE DEF s, r, k
  <2>5. /\ s \in StateType /\ s.cache = cache /\ s.size = size /\ s.raced = raced
        /\ Made(s) = Made(Now) /\ Len(s.entry) = Len(entry)
        /\ s.entry[e] = r /\ \A i \in Made(Now) : i # e => s.entry[i] = entry[i]
    BY <1>1, <2>3 DEF Updates
  <2>6. \A i \in Made(Now) : s.entry[i].key = entry[i].key /\ s.entry[i].live = entry[i].live
    BY <2>1, <2>5 DEF k
  <2>7. ListInv(s) /\ CallInv(s, Others(p)) /\ CallInv(s, call) /\ Tracked(s, Others(p))
    <3>1. ListInv(s)
      BY <1>1, <2>5, <2>6 DEF ListInv
    <3>2. CallInv(s, Others(p)) /\ CallInv(s, call)
      BY <1>1, <1>7, <2>5, <2>6 DEF CallInv, Works
    <3>3. Tracked(s, Others(p))
      BY <1>1, <1>7, <2>5, <2>6 DEF Tracked
    <3> QED BY <3>1, <3>2, <3>3
  <2>8. ASSUME s.raced = {}
        PROVE  CalmInv(s, disk, truth, Others(p))
    <3>1. Kept(Now, disk, truth) /\ (\A q \in Proc : Agrees(Now, call[q])) /\ ~entry[e].loaded
      BY <1>4, <2>5, <2>8 DEF CalmInv
    <3>2. \A i \in Made(Now), j \in Made(Now) :
             entry[i].live /\ entry[j].live /\ entry[i].key = entry[j].key => i = j
      BY <1>1, <3>1 DEF Kept
    <3>3. disk[k] = truth[k]
      <4>1. \A i \in Made(Now) : ~(entry[i].key = k /\ entry[i].live /\ entry[i].loaded)
        BY <1>3, <1>10, <3>1, <3>2 DEF k
      <4> QED BY <1>1, <1>5, <3>1, <4>1 DEF Kept
    <3>4. \A i \in Made(s), j \in Made(s) :
             s.entry[i].live /\ s.entry[j].live /\ s.entry[i].key = s.entry[j].key => i = j
      BY <2>5, <2>6, <3>2
    <3>5. \A i \in Made(s) : s.entry[i].live /\ s.entry[i].loaded =>
          /\ s.entry[i].data = truth[s.entry[i].key]
          /\ ~s.entry[i].dirty => disk[s.entry[i].key] = truth[s.entry[i].key]
      <4> SUFFICES ASSUME NEW i \in Made(s), s.entry[i].live, s.entry[i].loaded
                   PROVE  /\ s.entry[i].data = truth[s.entry[i].key]
                          /\ ~s.entry[i].dirty => disk[s.entry[i].key] = truth[s.entry[i].key]
        OBVIOUS
      <4>1. CASE i = e
        BY <2>1, <2>5, <3>3, <4>1
      <4>2. CASE i # e
        BY <1>1, <2>5, <3>1, <4>2 DEF Kept
      <4> QED BY <4>1, <4>2
    <3>6. ASSUME NEW j \in Key,
                 \A i \in Made(s) : ~(s.entry[i].key = j /\ s.entry[i].live /\ s.entry[i].loaded)
          PROVE  disk[j] = truth[j]
      <4>1. \A i \in Made(Now) : ~(entry[i].key = j /\ entry[i].live /\ entry[i].loaded)
        BY <2>5, <3>1, <3>6
      <4> QED BY <1>1, <3>1, <4>1 DEF Kept
    <3>7. \A q \in Proc : Agrees(s, Others(p)[q])
      <4>1. Agrees(s, Others(p)[p])
        BY <1>1, IdleFacts, OthersFacts
      <4>2. ASSUME NEW q \in Proc \ {p}
            PROVE  Agrees(s, call[q])
        <5>1. Agrees(Now, call[q]) /\ Works(Now, call[q])
          BY <1>1, <3>1 DEF CallInv
        <5>2. Fetches(call[q]) => call[q].e # e /\ call[q].e \in Made(Now)
          BY <1>1, <1>3, <5>1 DEF CallInv, Works, Fetches
        <5>3. call[q].at = "write" => call[q].w # e /\ call[q].w \in Made(Now)
          BY <1>1, <3>1, <5>1 DEF Works, Agrees
        <5> QED BY <1>1, <2>5, <5>1, <5>2, <5>3 DEF Agrees
      <4> QED BY <1>8, <4>1, <4>2
    <3> QED BY <3>4, <3>5, <3>6, <3>7 DEF CalmInv, Kept
  <2>9. Mid(s, p, disk)
    BY <2>5, <2>7, <2>8 DEF Mid, Whole
  <2>10. x.e \in Made(s) /\ x.keys = {s.entry[x.e].key} /\ s.size <= CacheSize
    BY <1>1, <1>3, <2>1, <2>5 DEF k
  <2> QED BY <1>1, <1>2, <1>3, <2>4, <2>9, <2>10, UseStep
<1>11. CASE entry[e].live /\ ~ok
  <2> DEFINE s == Removed(Now, e)
             t == bcache_entry_delete(s, e)
  <2>1. /\ cache \in Seq(Id) /\ Len(cache) \in Nat /\ IsInjective(cache) /\ Len(cache) <= size
        /\ (cache = << >> <=> Range(cache) = {})
    BY <1>1, ListNodes DEF ListInv, StateType
  <2>2. /\ RemoveFirst(cache, e) \in Seq(Id) /\ Range(RemoveFirst(cache, e)) = Range(cache) \ {e}
        /\ IsInjective(RemoveFirst(cache, e))
        /\ Len(RemoveFirst(cache, e)) = IF e \in Range(cache) THEN Len(cache) - 1 ELSE Len(cache)
    <3> HIDE DEF e
    <3> QED BY <2>1, CutNodes
  <2>3. cache # << >> /\ e \in {Head(cache), Last(cache)} => e \in Range(cache) /\ size - 1 \in Nat
    <3>1. cache # << >> => Head(cache) \in Range(cache) /\ Last(cache) \in Range(cache)
      BY <2>1, TailNodes, FrontNodes
    <3>2. cache # << >> => Len(cache) > 0
      BY <2>1
    <3> QED BY <1>1, <2>1, <3>1, <3>2
  <2> DEFINE z == IF cache # << >> /\ e \in {Head(cache), Last(cache)} THEN size - 1 ELSE size
  <2>4. z \in Nat /\ Len(RemoveFirst(cache, e)) <= z /\ z <= CacheSize
    BY <1>1, <2>1, <2>2, <2>3
  <2>5. s = [Now EXCEPT !.cache = RemoveFirst(cache, e), !.size = z]
    BY <1>1 DEF Removed
  <2> HIDE DEF z, s
  <2>6. /\ s \in StateType /\ s.cache = RemoveFirst(cache, e) /\ s.size = z /\ s.entry = entry
        /\ s.raced = raced /\ Made(s) = Made(Now)
    <3> DEFINE l == RemoveFirst(cache, e)
    <3>1. s = [Now EXCEPT !.cache = l, !.size = z] /\ l \in Seq(Id)
      BY <2>2, <2>5
    <3> HIDE DEF l
    <3>2. /\ s \in StateType /\ s.cache = l /\ s.size = z /\ s.entry = entry /\ s.raced = raced
      BY <1>1, <2>4, <3>1 DEF StateType
    <3> HIDE DEF e
    <3> QED BY <1>1, <3>2 DEF Made, l
  <2>7. ListInv(s)
    BY <1>1, <2>2, <2>4, <2>6 DEF ListInv
  <2>8. CallInv(s, call) /\ CallInv(s, Others(p))
    BY <1>1, <1>7, <2>2, <2>6 DEF CallInv, Works
  <2>9. e \in Made(s) /\ e \notin Range(s.cache)
    BY <1>3, <2>2, <2>6
  <2>10. \A i \in Made(s) \ {e} : s.entry[i].live =>
            i \in Range(s.cache) \/ \E q \in Proc : Trims(Others(p)[q], i)
    BY <1>1, <1>7, <2>2, <2>6 DEF Tracked
  <2>11. s.raced = {} => /\ raced = {} /\ CalmInv(s, disk, truth, Others(p))
                         /\ s.entry[e].live /\ s.entry[e].loaded =>
                              disk[s.entry[e].key] = truth[s.entry[e].key]
    <3>1. raced = {} => CalmInv(Now, disk, truth, Others(p))
      BY <1>1, <1>6 DEF Mid, Whole
    <3>2. raced = {} => CalmInv(s, disk, truth, Others(p))
      BY <1>1, <2>6, <3>1 DEF CalmInv, Kept, Agrees
    <3> QED BY <1>4, <2>6, <3>2
  <2>12. Remains(s, t, p, disk)
    BY <1>1, <2>7, <2>8, <2>9, <2>10, <2>11, MidDeleted
  <2>13. Return(t, p, None) /\ truth' = truth
    BY <1>2, <1>11 DEF s
  <2> HIDE DEF t
  <2>14. Whole(t, disk, truth', Others(p), "none") /\ (t.raced = {} => raced = {})
    BY <2>12, <2>13 DEF Mid, Remains
  <2>15. truth' \in [Key -> Data] /\ t.size <= CacheSize
    BY <1>1, <2>4, <2>6, <2>12, <2>13 DEF Context, Remains
  <2>16. None \in {None} \cup (Key \X (Data \cup {Junk}))
    OBVIOUS
  <2> QED BY <1>1, <1>2, <2>13, <2>14, <2>15, <2>16, ReturnStep
<1> QED BY <1>2, <1>9, <1>10, <1>11

\* Where the loop of the flush functions goes on.
LEMMA PositionFacts ==
  ASSUME NEW S, NEW l \in Seq(S), NEW n
  PROVE  LET i == IF Contains(l, n) THEN 1 + SelectInSeq(l, LAMBDA e : e = n) ELSE Len(l) + 1
         IN  i \in Nat /\ i > 0
<1> DEFINE I == {i \in 1..Len(l) : l[i] = n}
<1>1. I \in SUBSET Nat /\ Len(l) \in Nat
  OBVIOUS
<1>2. SelectInSeq(l, LAMBDA e : e = n) = IF I # {} THEN Min(I) ELSE 0
  BY DEF SelectInSeq
<1> HIDE DEF I
<1>3. SelectInSeq(l, LAMBDA e : e = n) \in Nat
  BY <1>1, <1>2, MinIn
<1> DEFINE m == SelectInSeq(l, LAMBDA e : e = n)
<1>4. m \in Nat
  BY <1>3
<1> HIDE DEF m
<1>5. 1 + m \in Nat /\ 1 + m > 0 /\ Len(l) + 1 \in Nat /\ Len(l) + 1 > 0
  BY <1>1, <1>4
<1> QED BY <1>5 DEF m

\* bcache_entry_clean, when the device has answered.
Cleaned(s, e) == [s EXCEPT !.entry[e].dirty = FALSE]

\* An entry that was written out is no longer dirty.
LEMMA CleanFacts ==
  ASSUME NEW s \in StateType, NEW e \in Made(s)
  PROVE  /\ s.entry[e] \in EntryType
         /\ Updates(s, Cleaned(s, e), e, [s.entry[e] EXCEPT !.dirty = FALSE])
<1>1. s.entry[e] \in EntryType
  BY DEF StateType, Made
<1>2. [s.entry[e] EXCEPT !.dirty = FALSE] \in EntryType
  BY <1>1 DEF EntryType
<1> QED BY <1>1, <1>2, UpdateFacts DEF Cleaned

Settled(s, t, e) ==
  /\ t \in StateType /\ t.cache = s.cache /\ t.size = s.size
  /\ Made(t) = Made(s) /\ Len(t.entry) = Len(s.entry)
  /\ \A i \in Made(s) : /\ t.entry[i].key = s.entry[i].key
                        /\ t.entry[i].data = s.entry[i].data
                        /\ t.entry[i].loaded = s.entry[i].loaded
                        /\ t.entry[i].live = s.entry[i].live
                        /\ i # e => t.entry[i].dirty = s.entry[i].dirty

\* An entry is settled when its block was written, or the failure is recorded.
LEMMA SettledFacts ==
  ASSUME NEW s \in StateType, NEW e \in Made(s), NEW ok \in BOOLEAN
  PROVE  LET t == Note(Cleaned(s, e), "failed", ~ok)
         IN  Settled(s, t, e) /\ (t.raced = {} => s.raced = {} /\ ok)
<1> DEFINE u == Cleaned(s, e)
           r == [s.entry[e] EXCEPT !.dirty = FALSE]
           t == Note(u, "failed", ~ok)
<1>1. s.entry[e] \in EntryType /\ Updates(s, u, e, r)
  BY CleanFacts
<1>2. /\ r.key = s.entry[e].key /\ r.data = s.entry[e].data
      /\ r.loaded = s.entry[e].loaded /\ r.live = s.entry[e].live
  BY <1>1 DEF EntryType
<1> HIDE DEF u, r
<1>3. (~ok) \in BOOLEAN /\ "failed" \in Race
  BY DEF Race
<1>4. /\ t \in StateType /\ t.cache = u.cache /\ t.size = u.size /\ t.entry = u.entry
      /\ Made(t) = Made(u) /\ (t.raced = {} => u.raced = {} /\ ok)
  BY <1>1, <1>3, NoteFacts DEF Updates
<1> HIDE DEF t
<1>5. \A i \in Made(s) : /\ u.entry[i].key = s.entry[i].key
                         /\ u.entry[i].data = s.entry[i].data
                         /\ u.entry[i].loaded = s.entry[i].loaded
                         /\ u.entry[i].live = s.entry[i].live
                         /\ i # e => u.entry[i].dirty = s.entry[i].dirty
  BY <1>1, <1>2 DEF Updates
<1>6. Settled(s, t, e) /\ (t.raced = {} => s.raced = {} /\ ok)
  BY <1>1, <1>4, <1>5 DEF Updates, Settled
<1> QED BY <1>6 DEF t, u

\* What was written to the device is what its entry holds, as long as no race was recorded.
LEMMA WrittenCalm ==
  ASSUME CacheAssumption, CacheInv, NEW p \in Proc, NEW ok \in BOOLEAN,
         NEW v \in {call[p].d, entry[call[p].w].data},
         call[p].at = "write", fault = "none", entry[call[p].w].live,
         disk' = IF ok THEN [disk EXCEPT ![entry[call[p].w].key] = v] ELSE disk,
         NEW s, Settled(Now, s, call[p].w), raced = {}, ok
  PROVE  /\ CalmInv(s, disk', truth, Others(p))
         /\ disk'[entry[call[p].w].key] = truth[entry[call[p].w].key]
<1> DEFINE w == call[p].w
           k == entry[w].key
<1>1. /\ Context /\ Now.entry = entry /\ Now \in StateType /\ CallInv(Now, call)
      /\ Kept(Now, disk, truth) /\ \A q \in Proc : Agrees(Now, call[q])
      /\ disk \in [Key -> Data \cup {Junk}]
  BY NowFacts DEF CalmInv
<1>2. w \in Made(Now) /\ entry[w].loaded /\ entry[w].data = call[p].d
  BY <1>1 DEF CallInv, Works, Agrees
<1>3. entry[w].data = truth[k] /\ k \in Key
  BY <1>1, <1>2, EntryFacts DEF Kept
<1>4. v = truth[k]
  BY <1>2, <1>3
<1>5. /\ disk'[k] = truth[k] /\ \A j \in Key : j # k => disk'[j] = disk[j]
  BY <1>1, <1>3, <1>4
<1>6. /\ Made(s) = Made(Now) /\ w \in Made(s) /\ entry[w].live
      /\ \A i \in Made(s) : /\ s.entry[i].key = entry[i].key
                            /\ s.entry[i].data = entry[i].data
                            /\ s.entry[i].loaded = entry[i].loaded
                            /\ s.entry[i].live = entry[i].live
                            /\ i # w => s.entry[i].dirty = entry[i].dirty
                            /\ entry[i].key \in Key
  BY <1>1, <1>2, EntryFacts DEF Settled
<1> HIDE DEF k, w
<1>7. \A i \in Made(s), j \in Made(s) :
        s.entry[i].live /\ s.entry[j].live /\ s.entry[i].key = s.entry[j].key => i = j
  BY <1>1, <1>6 DEF Kept
<1>8. ASSUME NEW i \in Made(s), s.entry[i].live, s.entry[i].loaded
      PROVE  /\ s.entry[i].data = truth[s.entry[i].key]
             /\ ~s.entry[i].dirty => disk'[s.entry[i].key] = truth[s.entry[i].key]
  <2>1. CASE i = w
    BY <1>3, <1>5, <1>6, <2>1 DEF k
  <2>2. CASE i # w
    <3>1. s.entry[i].key # k /\ s.entry[i].key \in Key
      BY <1>6, <1>7, <1>8, <2>2 DEF k
    <3>2. disk'[s.entry[i].key] = disk[s.entry[i].key]
      BY <1>5, <3>1
    <3> QED BY <1>1, <1>6, <1>8, <2>2, <3>2 DEF Kept
  <2> QED BY <2>1, <2>2
<1>9. ASSUME NEW j \in Key,
             \A i \in Made(s) : ~(s.entry[i].key = j /\ s.entry[i].live /\ s.entry[i].loaded)
      PROVE  disk'[j] = truth[j]
  <2>1. j # k
    BY <1>2, <1>6, <1>9 DEF k
  <2>2. \A i \in Made(Now) : ~(entry[i].key = j /\ entry[i].live /\ entry[i].loaded)
    BY <1>6, <1>9
  <2> QED BY <1>1, <1>5, <2>1, <2>2 DEF Kept
<1>10. \A q \in Proc : Agrees(s, call[q])
  BY <1>1, <1>6 DEF Agrees, CallInv, Works, Fetches
<1>11. \A q \in Proc : Agrees(s, Others(p)[q])
  BY <1>1, <1>10, OthersFacts
<1> QED BY <1>5, <1>7, <1>8, <1>9, <1>11 DEF CalmInv, Kept, k, w

\* The device has answered a write: the block is on the disk unless it failed.
LEMMA WriteDoneStep ==
  ASSUME CacheAssumption, CacheInv, NEW p \in Proc, NEW ok \in BOOLEAN,
         NEW v \in Data \cup {Junk}, WriteDone(p, ok, v)
  PROVE  Outcome(disk') /\ disk' \in [Key -> Data \cup {Junk}]
<1> DEFINE x == call[p]
           w == x.w
           s == Note(Cleaned(Now, w), "failed", ~ok)
<1>1. /\ Context /\ Now.cache = cache /\ Now.size = size /\ Now.entry = entry /\ Now.raced = raced
      /\ size <= CacheSize /\ Now \in StateType /\ disk \in [Key -> Data \cup {Junk}]
      /\ ListInv(Now) /\ CallInv(Now, call) /\ Tracked(Now, call)
  BY NowFacts
<1>2. /\ x.at = "write" /\ fault = "none" /\ v \in {x.d, entry[w].data}
      /\ disk' = IF ok THEN [disk EXCEPT ![entry[w].key] = v] ELSE disk
      /\ IF ~entry[w].live THEN Crash(Now) ELSE AfterClean(s, p, x)
  BY DEF WriteDone, Cleaned
<1>3. /\ w \in Made(Now) /\ x \in CallType /\ Works(Now, x) /\ x.op \in {"read", "write", "flush"}
      /\ x.op # "flush" => w \notin Range(cache)
  BY <1>1, <1>2 DEF CallInv, Works, Context, CallType
<1>4. disk' \in [Key -> Data \cup {Junk}]
  BY <1>1, <1>2
<1>5. /\ CallInv(Now, Others(p))
      /\ \A i \in Made(Now) : entry[i].live =>
            i \in Range(cache) \/ Trims(x, i) \/ \E q \in Proc : Trims(Others(p)[q], i)
  BY <1>1, OthersFacts
<1>6. CASE ~entry[w].live
  <2>1. Tracked(Now, Others(p))
    BY <1>1, <1>5, <1>6 DEF Tracked, Trims
  <2> QED BY <1>1, <1>2, <1>4, <1>6, <2>1, CrashStep
<1>7. CASE entry[w].live
  <2>1. Settled(Now, s, w) /\ (s.raced = {} => raced = {} /\ ok)
    BY <1>1, <1>3, SettledFacts
  <2>2. AfterClean(s, p, x)
    BY <1>2, <1>7
  <2> HIDE DEF s
  <2>3. /\ s \in StateType /\ s.cache = cache /\ s.size = size /\ Made(s) = Made(Now)
        /\ Len(s.entry) = Len(entry)
        /\ \A i \in Made(Now) : /\ s.entry[i].key = entry[i].key
                                /\ s.entry[i].loaded = entry[i].loaded
                                /\ s.entry[i].live = entry[i].live
    BY <1>1, <2>1 DEF Settled
  <2>4. ListInv(s) /\ CallInv(s, call) /\ CallInv(s, Others(p))
    <3>1. ListInv(s)
      BY <1>1, <2>3 DEF ListInv
    <3>2. CallInv(s, call)
      BY <1>1, <2>3 DEF CallInv, Works
    <3> QED BY <1>1, <3>1, <3>2, OthersFacts
  <2>5. s.raced = {} => /\ raced = {} /\ CalmInv(s, disk', truth, Others(p))
                        /\ disk'[s.entry[w].key] = truth[s.entry[w].key]
    BY <1>2, <1>3, <1>7, <2>1, <2>3, WrittenCalm
  <2>6. \A i \in Made(s) : s.entry[i].live =>
            i \in Range(s.cache) \/ Trims(x, i) \/ \E q \in Proc : Trims(Others(p)[q], i)
    BY <1>5, <2>3
  <2>7. CASE x.op # "flush"
    <3> DEFINE t == bcache_entry_delete(s, w)
    <3>1. Proceed(t, p, x)
      BY <2>2, <2>7 DEF AfterClean
    <3>2. \A i \in Made(s) \ {w} : s.entry[i].live =>
            i \in Range(s.cache) \/ \E q \in Proc : Trims(Others(p)[q], i)
      BY <2>6 DEF Trims
    <3>3. w \in Made(s) /\ w \notin Range(s.cache)
      BY <1>3, <2>3, <2>7
    <3>4. Remains(s, t, p, disk')
      BY <1>1, <2>4, <2>5, <3>2, <3>3, MidDeleted
    <3>5. Own(s, p, x)
      <4>1. x.e \in Made(s) /\ x.keys = {s.entry[x.e].key} /\ x.op \in {"read", "write"}
        BY <1>1, <1>3, <2>3, <2>7 DEF Works
      <4>2. Fetches(x) => \A q \in Proc \ {p} : Fetches(call[q]) => call[q].e # x.e
        BY <1>1 DEF CallInv
      <4>3. Fetches(x) /\ s.raced = {} => ~s.entry[x.e].loaded
        <5>1. raced = {} => Agrees(Now, x)
          BY <1>2, NowFacts DEF CalmInv
        <5> QED BY <1>1, <2>3, <2>5, <4>1, <5>1 DEF Agrees
      <4> QED BY <1>3, <4>1, <4>2, <4>3 DEF Own
    <3> HIDE DEF t
    <3> QED BY <1>1, <1>2, <1>4, <2>3, <3>1, <3>4, <3>5, ProceedStep DEF Remains
  <2>8. CASE x.op = "flush"
    <3> DEFINE i == IF Contains(s.cache, w) THEN 1 + SelectInSeq(s.cache, LAMBDA e : e = w)
                    ELSE Len(s.cache) + 1
    <3>1. Flush(s, p, x, i)
      BY <2>2, <2>8 DEF AfterClean
    <3>2. i \in Nat /\ i > 0
      BY <2>3, PositionFacts DEF StateType
    <3>3. Tracked(s, Others(p))
      BY <2>6, <2>8 DEF Tracked, Trims
    <3>4. Mid(s, p, disk')
      BY <2>4, <2>5, <3>3 DEF Mid, Whole
    <3> HIDE DEF i
    <3> QED BY <1>1, <1>2, <1>3, <1>4, <2>3, <2>8, <3>1, <3>2, <3>4, FlushStep
  <2> QED BY <2>7, <2>8
<1> QED BY <1>6, <1>7

\* A read of a block keeps the invariant.
LEMMA ReadStep ==
  ASSUME CacheAssumption, CacheInv, NEW p \in Proc, NEW k \in Key, Read(p, k)
  PROVE  Outcome(disk) /\ disk' = disk /\ writes' = writes
<1> DEFINE x == [Idle EXCEPT !.op = "read", !.keys = {k}]
<1>1. PICK garbage \in BOOLEAN : Begin(p, x, k, garbage)
  BY Zenon DEF Read
<1>2. /\ x \in CallType /\ x.at = "user" /\ x.op \in {"read", "write"} /\ x.keys = {k}
  BY IdleFacts DEF CallType
<1>3. writes' = writes
  BY Zenon DEF Read
<1> HIDE DEF x
<1> QED BY <1>1, <1>2, <1>3, BeginStep

\* A write of a block keeps the invariant.
LEMMA WriteStep ==
  ASSUME CacheAssumption, CacheInv, NEW p \in Proc, NEW k \in Key, Write(p, k)
  PROVE  Outcome(disk) /\ disk' = disk /\ writes' \in 0..MaxWrites
<1> DEFINE x == [Idle EXCEPT !.op = "write", !.keys = {k}, !.v = writes + 1]
<1>1. writes < MaxWrites /\ writes' = writes + 1 /\ Begin(p, x, k, TRUE)
  BY Zenon DEF Write
<1>2. writes + 1 \in Data /\ writes + 1 \in 0..MaxWrites
  BY <1>1 DEF CacheInv, TypeOK, Data, CacheAssumption
<1>3. /\ x \in CallType /\ x.at = "user" /\ x.op \in {"read", "write"} /\ x.keys = {k}
  BY <1>2, IdleFacts DEF CallType
<1> HIDE DEF x
<1> QED BY <1>1, <1>2, <1>3, BeginStep

\* bcache_flush_block, bcache_flush_device and bcache_flush_all keep the invariant.
LEMMA FlushKeysStep ==
  ASSUME CacheAssumption, CacheInv, NEW p \in Proc, NEW K \in FlushSets, FlushKeys(p, K)
  PROVE  Outcome(disk) /\ disk' = disk /\ writes' = writes
<1> DEFINE x == [Idle EXCEPT !.op = "flush", !.keys = K]
<1>1. /\ call[p].at = "user" /\ fault = "none" /\ Flush(Now, p, x, 1)
      /\ disk' = disk /\ writes' = writes
  BY Zenon DEF FlushKeys
<1>2. K \in SUBSET Key
  BY DEF FlushSets, Key
<1>3. x \in CallType /\ x.op = "flush"
  BY <1>2, IdleFacts DEF CallType
<1>4. Mid(Now, p, disk)
  BY <1>1, MidStart
<1>5. Context /\ Now.size <= CacheSize
  BY NowFacts
<1> HIDE DEF x
<1> QED BY <1>1, <1>3, <1>4, <1>5, FlushStep

\* Every step of the cache.
LEMMA NextStep ==
  ASSUME CacheAssumption, CacheInv, Next
  PROVE  /\ Outcome(disk') /\ disk' \in [Key -> Data \cup {Junk}]
         /\ writes' \in 0..MaxWrites
<1>1. disk \in [Key -> Data \cup {Junk}] /\ writes \in 0..MaxWrites
  BY DEF CacheInv, TypeOK
<1>2. PICK p \in Proc :
         \/ \E k \in Key : Read(p, k) \/ Write(p, k)
         \/ \E K \in FlushSets : FlushKeys(p, K)
         \/ \E ok \in Ok("read") : ReadDone(p, ok)
         \/ \E ok \in Ok("write"), v \in Data \cup {Junk} : WriteDone(p, ok, v)
  BY Zenon DEF Next
<1>3. ASSUME NEW k \in Key, Read(p, k)
      PROVE  Outcome(disk) /\ disk' = disk /\ writes' \in 0..MaxWrites
  BY <1>1, <1>3, ReadStep
<1>4. ASSUME NEW k \in Key, Write(p, k)
      PROVE  Outcome(disk) /\ disk' = disk /\ writes' \in 0..MaxWrites
  BY <1>4, WriteStep
<1>5. ASSUME NEW K \in FlushSets, FlushKeys(p, K)
      PROVE  Outcome(disk) /\ disk' = disk /\ writes' \in 0..MaxWrites
  BY <1>1, <1>5, FlushKeysStep
<1>6. ASSUME NEW ok \in BOOLEAN, ReadDone(p, ok)
      PROVE  Outcome(disk) /\ disk' = disk /\ writes' \in 0..MaxWrites
  <2>1. writes' = writes
    BY <1>6 DEF ReadDone
  <2> QED BY <1>1, <1>6, <2>1, ReadDoneStep
<1>7. ASSUME NEW ok \in BOOLEAN, NEW v \in Data \cup {Junk}, WriteDone(p, ok, v)
      PROVE  /\ Outcome(disk') /\ disk' \in [Key -> Data \cup {Junk}]
             /\ writes' \in 0..MaxWrites
  <2>1. writes' = writes
    BY <1>7 DEF WriteDone
  <2> QED BY <1>1, <1>7, <2>1, WriteDoneStep
<1>8. \A op : Ok(op) \subseteq BOOLEAN
  BY DEF Ok
<1>9. ASSUME Outcome(disk), disk' = disk
      PROVE  Outcome(disk')
  BY <1>9
<1> QED BY <1>1, <1>2, <1>3, <1>4, <1>5, <1>6, <1>7, <1>8, <1>9

-----------------------------------------------------------------------------
(* The theorems *)

\* The invariant holds of the empty cache.
LEMMA CacheStart ==
  ASSUME CacheAssumption, Init
  PROVE  CacheInv
<1>1. /\ cache = << >> /\ size = 0 /\ entry = << >> /\ raced = {} /\ fault = "none"
      /\ disk = [k \in Key |-> 0] /\ truth = [k \in Key |-> 0] /\ answer = None /\ writes = 0
      /\ call = [p \in Proc |-> Idle]
  BY DEF Init
<1>2. /\ 0 \in Data /\ 0 \in 0..MaxWrites /\ CacheSize \in Nat /\ MaxEntries \in Nat
      /\ 0 <= CacheSize /\ 0 <= MaxEntries
  BY DEF CacheAssumption, Data
<1>3. call \in [Proc -> CallType]
  BY <1>1, IdleFacts
<1>4. TypeOK
  <2>1. call \in [Proc -> [at : {"user", "read", "write"},
                        op : {"none", "read", "write", "flush"},
                        keys : SUBSET Key, v : Data, e : {0} \cup Id, hit : BOOLEAN,
                        w : {0} \cup Id, d : Data \cup {Junk}]]
    BY <1>3 DEF CallType
  <2> QED BY <1>1, <1>2, <2>1 DEF TypeOK
<1>5. /\ Now.cache = << >> /\ Now.size = 0 /\ Now.entry = << >> /\ Now.raced = {}
      /\ Now \in StateType
  BY <1>1 DEF Now, StateType
<1>6. Range(<< >>) = {} /\ IsInjective(<< >>) /\ Made(Now) = {} /\ Len(Now.entry) = 0
  BY <1>5 DEF Range, IsInjective, Made
<1>7. ListInv(Now)
  BY <1>2, <1>5, <1>6 DEF ListInv
<1>8. \A p \in Proc : call[p] = Idle
  BY <1>1
<1>9. CallInv(Now, call) /\ Tracked(Now, call)
  BY <1>6, <1>8, IdleFacts DEF CallInv, Tracked
<1>10. CalmInv(Now, disk, truth, call)
  BY <1>1, <1>6, <1>8, IdleFacts DEF CalmInv, Kept
<1> QED BY <1>1, <1>2, <1>4, <1>7, <1>9, <1>10 DEF CacheInv, Whole

\* The invariant is inductive.
LEMMA CacheKept ==
  ASSUME CacheAssumption, CacheInv, [Next]_vars
  PROVE  CacheInv'
<1>1. CASE Next
  <2>1. Outcome(disk') /\ disk' \in [Key -> Data \cup {Junk}] /\ writes' \in 0..MaxWrites
    BY <1>1, NextStep
  <2>2. Whole(Now', disk', truth', call', fault') /\ size' <= CacheSize
    BY <2>1 DEF Outcome
  <2>3. Whole(Now, disk, truth, call, fault)'
    BY <2>2
  <2>4. /\ Now' \in StateType /\ Now'.cache = cache' /\ Now'.size = size'
        /\ Now'.entry = entry' /\ Now'.raced = raced'
    BY <2>2 DEF Whole, ListInv, Now
  <2>5. /\ cache' \in Seq(Id) /\ size' \in Nat /\ entry' \in Seq(EntryType)
        /\ raced' \subseteq Race
    BY <2>4 DEF StateType
  <2>6. call' \in [Proc -> CallType]
    BY <2>1 DEF Outcome
  <2>7. TypeOK'
    <3>1. /\ answer' \in {None} \cup (Key \X (Data \cup {Junk}))
          /\ truth' \in [Key -> Data] /\ fault' \in {"none", "freed"}
      BY <2>1 DEF Outcome
    <3> QED BY <2>1, <2>5, <2>6, <3>1 DEF TypeOK, EntryType, CallType
  <2> QED BY <2>2, <2>3, <2>7 DEF CacheInv
<1>2. CASE UNCHANGED vars
  <2>1. Now' = Now
    BY <1>2 DEF Now, vars
  <2>2. TypeOK' /\ size' = size /\ disk' = disk /\ truth' = truth /\ call' = call
        /\ fault' = fault
    BY <1>2 DEF TypeOK, vars, CacheInv
  <2>3. Whole(Now', disk', truth', call', fault') /\ size' <= CacheSize
    BY <2>1, <2>2 DEF CacheInv
  <2>4. Whole(Now, disk, truth, call, fault)'
    BY <2>3
  <2> QED BY <2>2, <2>3, <2>4 DEF CacheInv
<1> QED BY <1>1, <1>2

\* The invariant above holds throughout: of the list, its size field and the entries; of what
\* each call works on between two transfers (kernel/bcache.c:26-219); and, until a race is
\* recorded, of the data in the entries and on the disk.
THEOREM BufferCacheInv ==
  ASSUME CacheAssumption
  PROVE  Spec => []CacheInv
<1>1. Init => CacheInv
  BY CacheStart
<1>2. CacheInv /\ [Next]_vars => CacheInv'
  BY CacheKept
<1> QED BY <1>1, <1>2, PTL DEF Spec

\* bcache_find_or_create (kernel/bcache.c:73-103): the cache never has two
\* entries for one block, however many calls are between two transfers.
THEOREM OneEntryHolds ==
  ASSUME CacheAssumption
  PROVE  Spec => []OneEntry
<1>1. ASSUME CacheInv
      PROVE  OneEntry
  <2>1. /\ cache \in Seq(Id) /\ IsInjective(cache)
        /\ \A e \in Range(cache), f \in Range(cache) : entry[e].key = entry[f].key => e = f
    BY <1>1, NowFacts DEF ListInv, StateType
  <2>2. \A i \in 1..Len(cache) : i \in DOMAIN cache /\ cache[i] \in Range(cache)
    BY <2>1 DEF Range
  <2>3. \A i \in 1..Len(cache), j \in 1..Len(cache) : cache[i] = cache[j] => i = j
    BY <2>1, <2>2 DEF IsInjective
  <2> QED BY <2>1, <2>2, <2>3 DEF OneEntry
<1> QED BY <1>1, BufferCacheInv, PTL

\* bcache_trim (kernel/bcache.c:62-71): the list keeps to its limit at every switch, and its
\* size field, which list_remove leaves too large, is never too small.
THEOREM BoundedHolds ==
  ASSUME CacheAssumption
  PROVE  Spec => []Bounded
<1>1. ASSUME CacheInv
      PROVE  Bounded
  BY <1>1, NowFacts DEF ListInv, Bounded
<1> QED BY <1>1, BufferCacheInv, PTL

\* What the next read must give, in terms of a record of the list and the entries.
Holders(s, k) ==
  {e \in 1..Len(s.entry) : s.entry[e].key = k /\ s.entry[e].live /\ s.entry[e].loaded}
Reading(s, dk, k) ==
  IF Holders(s, k) = {} THEN dk[k] ELSE s.entry[CHOOSE e \in Holders(s, k) : TRUE].data

\* What a reader would get is what was written last, if nothing was lost.
LEMMA ReadingFacts ==
  ASSUME NEW s, NEW dk, NEW tr, Kept(s, dk, tr), NEW k \in Key
  PROVE  Reading(s, dk, k) = tr[k]
<1>1. CASE Holders(s, k) = {}
  <2>1. \A e \in Made(s) : ~(s.entry[e].key = k /\ s.entry[e].live /\ s.entry[e].loaded)
    BY <1>1 DEF Holders, Made
  <2> QED BY <1>1, <2>1 DEF Kept, Reading
<1>2. CASE Holders(s, k) # {}
  <2> DEFINE e == CHOOSE e \in Holders(s, k) : TRUE
  <2>1. e \in Holders(s, k)
    BY <1>2
  <2>2. Reading(s, dk, k) = s.entry[e].data
    BY <1>2 DEF Reading
  <2> HIDE DEF e
  <2>3. e \in Made(s) /\ s.entry[e].key = k /\ s.entry[e].live /\ s.entry[e].loaded
    BY <2>1 DEF Holders, Made
  <2> QED BY <2>2, <2>3 DEF Kept
<1> QED BY <1>1, <1>2

\* The store of blocks as a function of the cache and the disk.
LEMMA CurrentFacts ==
  ASSUME NEW k
  PROVE  Current(k) = Reading(Now, disk, k) /\ Current(k)' = Reading(Now', disk', k)
BY DEF Current, Holder, Reading, Holders, Now

\* bcache_read_block, bcache_write_block and the trims and flushes between them
\* (kernel/bcache.c:62-187): as long as none of the recorded races has happened and no
\* write back has failed, what a read of a block gives is what was written to it last.
THEOREM NothingLostHolds ==
  ASSUME CacheAssumption
  PROVE  Spec => []NothingLost
<1>1. ASSUME CacheInv
      PROVE  NothingLost
  <2>1. raced = {} /\ fault = "none" => Kept(Now, disk, truth)
    BY <1>1, NowFacts DEF CalmInv
  <2> QED BY <2>1, ReadingFacts, CurrentFacts DEF NothingLost
<1> QED BY <1>1, BufferCacheInv, PTL

\* A step at whose end no race is recorded is one of the block store (BlockStore).
LEMMA StoreStepFacts ==
  ASSUME CacheAssumption, CacheInv, [Next]_vars, raced' = {}, fault' = "none"
  PROVE  StoreStep
<1> DEFINE B == [k \in Key |-> Current(k)]
<1>1. CASE Next
  <2>1. fault = "none"
    <3>1. \A p : /\ \A k : Read(p, k) \/ Write(p, k) => fault = "none"
                 /\ \A K : FlushKeys(p, K) => fault = "none"
                 /\ \A ok : ReadDone(p, ok) => fault = "none"
                 /\ \A ok, v : WriteDone(p, ok, v) => fault = "none"
      BY Zenon DEF Read, Write, FlushKeys, ReadDone, WriteDone, Begin
    <3> QED BY <1>1, <3>1, Zenon DEF Next
  <2>2. Outcome(disk')
    BY <1>1, NextStep
  <2>3. raced = {} /\ Tells /\ Kept(Now', disk', truth')
    BY <2>2 DEF Outcome, Whole, CalmInv, Now
  <2>4. Kept(Now, disk, truth)
    BY <2>1, <2>3, NowFacts DEF CalmInv
  <2>5. \A k \in Key : Current(k) = truth[k] /\ Current(k)' = truth'[k]
    BY <2>3, <2>4, ReadingFacts, CurrentFacts
  <2>6. truth \in [Key -> Data] /\ truth' \in [Key -> Data]
    BY <2>2 DEF CacheInv, TypeOK, Outcome
  <2>7. B = truth /\ B' = truth'
    BY <2>5, <2>6
  <2> HIDE DEF B
  <2>8. CASE UNCHANGED <<truth, answer>>
    BY <2>7, <2>8 DEF StoreStep, B
  <2>9. CASE answer' = None /\ truth' = truth
    BY <2>7, <2>9 DEF StoreStep, B, Store!Next, Store!Refuse
  <2>10. ASSUME NEW k \in Key, answer' = <<k, truth'[k]>>, truth' = truth
         PROVE  StoreStep
    <3>1. Store!Read(k)
      BY <2>7, <2>10 DEF Store!Read, B
    <3> QED BY <3>1 DEF StoreStep, Store!Next
  <2>11. ASSUME NEW k \in Key, answer' = <<k, truth'[k]>>, NEW v \in Data,
                truth' = [truth EXCEPT ![k] = v]
         PROVE  StoreStep
    <3>1. truth'[k] = v
      BY <2>6, <2>11
    <3>2. Store!Write(k, v)
      BY <2>7, <2>11, <3>1 DEF Store!Write, B
    <3> QED BY <3>2 DEF StoreStep, Store!Next
  <2> QED BY <2>3, <2>8, <2>9, <2>10, <2>11 DEF Tells
<1>2. CASE UNCHANGED vars
  <2>1. \A k : Current(k)' = Current(k)
    BY <1>2, CurrentFacts DEF vars, Now
  <2>2. B' = B /\ answer' = answer
    BY <1>2, <2>1 DEF vars
  <2> QED BY <2>2 DEF StoreStep
<1> QED BY <1>1, <1>2

\* Every step after which no race is recorded is a read, a write or a refusal of the store of
\* blocks (BlockStore), or none of them: whatever the cache, the trims and the flushes do, a
\* read gives what was written last (kernel/bcache.c:62-187).
THEOREM StoreHolds ==
  ASSUME CacheAssumption
  PROVE  Spec => [][raced' = {} /\ fault' = "none" => StoreStep]_vars
<1>1. ASSUME CacheInv, [Next]_vars
      PROVE  [raced' = {} /\ fault' = "none" => StoreStep]_vars
  BY <1>1, StoreStepFacts
<1> QED BY <1>1, BufferCacheInv, PTL DEF Spec
-----------------------------------------------------------------------------
(* A client whose calls do not overlap.  The size field is right then, since a failed read      *)
(* removes the head; an entry that is not loaded is the one of the call, and is at the head, so *)
(* that no trim takes it.                                                                      *)

Fresh(s, x) == ~x.hit /\ s.cache # << >> /\ Head(s.cache) = x.e
Sole(s, x) ==
  /\ s.size = Len(s.cache)
  /\ x.at = "read" => Fresh(s, x)
  /\ x.at = "write" /\ x.op # "flush" => Fresh(s, x) /\ s.entry[x.w].live
  /\ x.at = "write" /\ x.op = "flush" => x.w \in Range(s.cache)
  /\ \A e \in Range(s.cache) :
       s.entry[e].loaded \/ (x.at # "user" /\ x.op # "flush" /\ e = x.e)
NoRace(s) == "write" \notin Failing => s.raced = {}
SoleInv == fault = "none" /\ NoRace(Now) /\ \A p \in Proc : Sole(Now, call[p])
\* In the middle of a step, and at the end of one.
Calm(s) ==
  /\ s \in StateType /\ IsInjective(s.cache) /\ s.size = Len(s.cache) /\ NoRace(s)
  /\ \A e \in Range(s.cache) : e \in Made(s) /\ s.entry[e].live
OthersLoaded(s, e) == \A i \in Range(s.cache) : s.entry[i].loaded \/ i = e
Serves(s, x) ==
  /\ x \in CallType /\ x.op \in {"read", "write"} /\ x.e \in Range(s.cache)
  /\ OthersLoaded(s, x.e)
  /\ IF x.hit THEN s.entry[x.e].loaded ELSE Head(s.cache) = x.e
Alone(p) == Proc = {p} /\ call \in [Proc -> CallType] /\ fault = "none" /\ CacheAssumption
Ends == SoleInv'

\* What is recorded only when it happens.
LEMMA NoteKept ==
  ASSUME NEW s, NEW what, NEW cond, ~cond
  PROVE  Note(s, what, cond) = s
BY DEF Note

\* The step of the only client ends with s and the call x.
LEMMA SoleEnd ==
  ASSUME NEW p \in Proc, Alone(p), NEW s \in StateType, NEW x \in CallType, NoRace(s), Sole(s, x),
         Commit(s), fault' = fault, call' = [call EXCEPT ![p] = x]
  PROVE  Ends
<1>1. Now' = s /\ fault' = "none"
  BY CommitFacts DEF Alone
<1>2. \A q \in Proc : call'[q] = x
  BY DEF Alone
<1>3. NoRace(Now)' /\ \A q \in Proc : Sole(Now, call[q])'
  <2>1. NoRace(Now')
    BY <1>1
  <2>2. \A q \in Proc : Sole(Now', call'[q])
    BY <1>1, <1>2
  <2> QED BY <2>1, <2>2 DEF NoRace, Sole, Fresh
<1> QED BY <1>1, <1>3 DEF Ends, SoleInv

\* It ends with no call.
LEMMA SoleReturn ==
  ASSUME NEW p \in Proc, Alone(p), NEW s, Calm(s), \A e \in Range(s.cache) : s.entry[e].loaded,
         NEW a, Return(s, p, a)
  PROVE  Ends
<1>1. Idle \in CallType /\ Idle.at = "user"
  BY IdleFacts DEF Alone
<1>2. Sole(s, Idle) /\ s \in StateType /\ NoRace(s)
  BY <1>1 DEF Sole, Calm
<1>3. Commit(s) /\ fault' = fault /\ call' = [call EXCEPT ![p] = Idle]
  BY DEF Return
<1> QED BY <1>1, <1>2, <1>3, SoleEnd
\* The block is read or written in its entry, which is still there.
LEMMA SoleUse ==
  ASSUME NEW p \in Proc, Alone(p), Context, NEW s, Calm(s), NEW x, Serves(s, x),
         x.op = "read" => s.entry[x.e].loaded, Use(s, p, x)
  PROVE  Ends
<1>1. /\ s \in StateType /\ x.e \in Made(s) /\ s.entry[x.e].live /\ x \in CallType
      /\ \A e \in Range(s.cache) : e \in Made(s) /\ (s.entry[e].loaded \/ e = x.e)
  BY DEF Calm, Serves, OthersLoaded
<1>2. \E k \in x.keys :
         \/ x.op = "read" /\ Return(Note(s, "unread", ~s.entry[x.e].loaded), p, <<k, s.entry[x.e].data>>)
         \/ x.op = "write" /\ Return(Filled(s, p, x), p, <<k, x.v>>)
  BY <1>1, Zenon DEF Use
<1>3. ASSUME NEW a, x.op = "read", Return(Note(s, "unread", ~s.entry[x.e].loaded), p, a)
      PROVE  Ends
  <2>1. Note(s, "unread", ~s.entry[x.e].loaded) = s
    BY <1>3, NoteKept
  <2>2. \A e \in Range(s.cache) : s.entry[e].loaded
    BY <1>1, <1>3
  <2> QED BY <1>3, <2>1, <2>2, SoleReturn
<1>4. ASSUME NEW a, Return(Filled(s, p, x), p, a)
      PROVE  Ends
  <2> DEFINE t == Filled(s, p, x)
             t1 == [s EXCEPT !.entry[x.e].data = x.v, !.entry[x.e].loaded = TRUE,
                             !.entry[x.e].dirty = TRUE]
             others == {call[q] : q \in Proc \ {p}}
  <2>1. Fills(s, t, p, x)
    BY <1>1, FilledFacts
  <2>2. t.raced = s.raced
    <3>1. t = Note(Note(t1, "overwritten", \E d \in others : d.op = "read" /\ ~d.hit /\ d.e = x.e),
                   "rewritten", \E d \in others : d.at = "write" /\ d.w = x.e)
      BY DEF Filled
    <3>2. others = {}
      BY DEF Alone
    <3>3. t1.raced = s.raced
      BY <1>1 DEF StateType
    <3> HIDE DEF t, t1, others
    <3>4. t = t1
      BY <3>1, <3>2, NoteKept
    <3> QED BY <3>3, <3>4
  <2> HIDE DEF t
  <2>3. \A e \in Range(t.cache) : /\ e \in Made(t) /\ t.entry[e].live /\ t.entry[e].loaded
    BY <1>1, <2>1 DEF Fills, Calm
  <2>4. Calm(t)
    BY <2>1, <2>2, <2>3 DEF Fills, Calm, NoRace
  <2> QED BY <1>4, <2>3, <2>4, SoleReturn DEF t
<1> QED BY <1>2, <1>3, <1>4

\* A read that missed goes on with the device.
LEMMA SoleProceed ==
  ASSUME NEW p \in Proc, Alone(p), Context, NEW s, Calm(s), NEW x, Serves(s, x), Proceed(s, p, x)
  PROVE  Ends
<1>1. CASE x.op = "read" /\ ~x.hit
  <2> DEFINE y == [x EXCEPT !.at = "read"]
  <2>1. /\ y \in CallType /\ y.at = "read" /\ y.op = "read" /\ y.e = x.e /\ ~y.hit
    BY <1>1 DEF Serves, CallType
  <2>2. Transfer(s, p, y)
    BY <1>1 DEF Proceed
  <2> HIDE DEF y
  <2>3. s.cache # << >>
    BY ListNodes DEF Serves, Calm, StateType
  <2>4. Sole(s, y)
    BY <1>1, <2>1, <2>3 DEF Sole, Fresh, Serves, OthersLoaded, Calm
  <2>5. s \in StateType /\ NoRace(s) /\ Commit(s) /\ fault' = fault
        /\ call' = [call EXCEPT ![p] = y]
    BY <2>2 DEF Calm, Transfer
  <2> QED BY <2>1, <2>4, <2>5, SoleEnd
<1>2. CASE ~(x.op = "read" /\ ~x.hit)
  <2>1. Use(s, p, x) /\ (x.op = "read" => s.entry[x.e].loaded)
    BY <1>2 DEF Proceed, Serves
  <2> QED BY <2>1, SoleUse
<1> QED BY <1>1, <1>2

\* A loaded entry is cleaned.
LEMMA SoleClean ==
  ASSUME NEW p \in Proc, Alone(p), NEW s \in StateType, NoRace(s), NEW x \in CallType,
         NEW e \in Made(s), e \in Id, s.entry[e].loaded, s.size = Len(s.cache),
         IF x.op = "flush"
         THEN e \in Range(s.cache) /\ \A i \in Range(s.cache) : s.entry[i].loaded
         ELSE Fresh(s, x) /\ s.entry[e].live /\ OthersLoaded(s, x.e),
         Clean(s, p, x, e)
  PROVE  Ends
<1> DEFINE y == [x EXCEPT !.at = "write", !.w = e, !.d = s.entry[e].data]
<1>1. s.entry[e].data \in Data \cup {Junk}
  BY EntryFacts
<1>2. /\ y \in CallType /\ y.at = "write" /\ y.op = x.op /\ y.e = x.e /\ y.hit = x.hit /\ y.w = e
  BY <1>1 DEF CallType
<1>3. Transfer(s, p, y)
  BY NoteKept DEF Clean
<1> HIDE DEF y
<1>4. Sole(s, y)
  BY <1>2 DEF Sole, Fresh, OthersLoaded
<1>5. Commit(s) /\ fault' = fault /\ call' = [call EXCEPT ![p] = y]
  BY <1>3 DEF Transfer
<1> QED BY <1>2, <1>4, <1>5, SoleEnd
\* An entry that is not in the list is deleted.
LEMMA SoleDelete ==
  ASSUME NEW s, Calm(s), NEW e \in Made(s), e \notin Range(s.cache)
  PROVE  /\ Calm(bcache_entry_delete(s, e))
         /\ \A x : Serves(s, x) => Serves(bcache_entry_delete(s, e), x)
         /\ bcache_entry_delete(s, e).cache = s.cache
         /\ \A i \in Range(s.cache) : bcache_entry_delete(s, e).entry[i] = s.entry[i]
<1> DEFINE t == bcache_entry_delete(s, e)
<1>1. Updates(s, t, e, [s.entry[e] EXCEPT !.live = FALSE])
  BY DeleteFacts DEF Calm
<1> HIDE DEF t
<1>2. /\ t.cache = s.cache /\ t.size = s.size /\ t.raced = s.raced /\ t \in StateType
      /\ Made(t) = Made(s) /\ \A i \in Range(s.cache) : t.entry[i] = s.entry[i]
  BY <1>1 DEF Updates, Calm
<1>3. Calm(t)
  BY <1>2 DEF Calm, NoRace
<1>4. \A x : Serves(s, x) => Serves(t, x)
  BY <1>2 DEF Serves, OthersLoaded
<1> QED BY <1>2, <1>3, <1>4 DEF t

\* bcache_trim takes the last entry, which is not the one of the call.
LEMMA SoleTrim ==
  ASSUME NEW p \in Proc, Alone(p), Context, NEW s, Calm(s), NEW x, Serves(s, x),
         s.size <= CacheSize + 1, x.hit => s.size <= CacheSize, Trim(s, p, x)
  PROVE  Ends
<1>1. CASE s.size <= CacheSize
  BY <1>1, SoleProceed DEF Trim
<1>2. CASE ~(s.size <= CacheSize)
  <2> DEFINE e == Last(s.cache)
             t == [s EXCEPT !.cache = Front(@), !.size = @ - 1]
  <2>1. IF s.entry[e].dirty THEN Clean(t, p, x, e)
        ELSE Proceed(bcache_entry_delete(t, e), p, x)
    BY <1>2 DEF Trim
  <2>2. /\ s \in StateType /\ s.cache \in Seq(Id) /\ IsInjective(s.cache) /\ s.size = Len(s.cache)
        /\ CacheSize \in Nat \ {0} /\ ~x.hit /\ Head(s.cache) = x.e /\ x \in CallType
        /\ x.op # "flush" /\ Len(s.cache) \in Nat /\ NoRace(s) /\ s.size \in Nat
        /\ s.entry \in Seq(EntryType) /\ s.raced \in SUBSET Race /\ OthersLoaded(s, x.e)
        /\ x.e \in Range(s.cache)
        /\ \A i \in Range(s.cache) : i \in Made(s) /\ s.entry[i].live
    BY <1>2 DEF Calm, Serves, StateType, Alone, CacheAssumption
  <2>3. Len(s.cache) > 1 /\ s.cache # << >>
    BY <1>2, <2>2
  <2>4. /\ Front(s.cache) \in Seq(Id) /\ Len(Front(s.cache)) = Len(s.cache) - 1
        /\ e \in Range(s.cache) /\ Range(Front(s.cache)) = Range(s.cache) \ {e}
        /\ IsInjective(Front(s.cache)) /\ Head(Front(s.cache)) = x.e /\ e # x.e
    BY <2>2, <2>3, FrontNodes
  <2>5. /\ t \in StateType /\ t.cache = Front(s.cache) /\ t.size = Len(t.cache)
        /\ t.entry = s.entry /\ t.raced = s.raced /\ Made(t) = Made(s)
    <3> DEFINE f == Front(s.cache)
               m == s.size - 1
    <3>1. f \in Seq(Id) /\ m \in Nat /\ m = Len(f)
      BY <2>2, <2>3, <2>4
    <3>2. t = [s EXCEPT !.cache = f, !.size = m]
      OBVIOUS
    <3> HIDE DEF f, m, t
    <3>3. /\ t \in StateType /\ t.cache = f /\ t.size = m /\ t.entry = s.entry
          /\ t.raced = s.raced
      BY <2>2, <3>1, <3>2 DEF StateType
    <3> QED BY <3>1, <3>3 DEF f, Made
  <2>6. e \in Made(t) /\ e \in Id /\ t.entry[e].loaded /\ t.entry[e].live /\ e \notin Range(t.cache)
    BY <2>2, <2>4, <2>5, ListNodes DEF OthersLoaded
  <2> HIDE DEF e, t
  <2>7. Calm(t)
    BY <2>2, <2>4, <2>5 DEF Calm, NoRace
  <2>8. x.e \in Range(t.cache) /\ OthersLoaded(t, x.e)
    BY <2>2, <2>4, <2>5 DEF OthersLoaded
  <2>9. Serves(t, x)
    BY <2>2, <2>4, <2>5, <2>8 DEF Serves
  <2>10. CASE s.entry[e].dirty
    <3>1. Clean(t, p, x, e)
      BY <2>1, <2>10
    <3>2. t.cache # << >>
      BY <2>5, <2>8, ListNodes DEF StateType
    <3>3. Fresh(t, x)
      BY <2>2, <2>4, <2>5, <3>2 DEF Fresh
    <3>4. NoRace(t)
      BY <2>7 DEF Calm
    <3> QED BY <2>2, <2>5, <2>6, <2>8, <3>1, <3>3, <3>4, SoleClean
  <2>11. CASE ~s.entry[e].dirty
    <3>1. Proceed(bcache_entry_delete(t, e), p, x)
      BY <2>1, <2>11
    <3> QED BY <2>6, <2>7, <2>9, <3>1, SoleDelete, SoleProceed
  <2> QED BY <2>10, <2>11
<1> QED BY <1>1, <1>2

\* The loop of the flush functions.
LEMMA SoleFlush ==
  ASSUME NEW p \in Proc, Alone(p), NEW s, Calm(s), \A e \in Range(s.cache) : s.entry[e].loaded,
         NEW x \in CallType, x.op = "flush", NEW i \in Nat, i > 0, Flush(s, p, x, i)
  PROVE  Ends
<1> DEFINE dirty == {j \in i..Len(s.cache) : /\ s.entry[s.cache[j]].key \in x.keys
                                             /\ s.entry[s.cache[j]].dirty}
<1>1. CASE dirty = {}
  <2>1. Return(s, p, None)
    BY <1>1 DEF Flush
  <2> QED BY <2>1, SoleReturn
<1>2. CASE dirty # {}
  <2>1. Clean(s, p, x, s.cache[Min(dirty)])
    BY <1>2 DEF Flush
  <2>2. dirty \in SUBSET Nat
    OBVIOUS
  <2>3. Min(dirty) \in dirty
    <3> HIDE DEF dirty
    <3> QED BY <1>2, <2>2, MinIn
  <2> DEFINE e == s.cache[Min(dirty)]
  <2>4. s.cache \in Seq(Id) /\ Min(dirty) \in 1..Len(s.cache)
    <3>1. s.cache \in Seq(Id) /\ Len(s.cache) \in Nat
      BY DEF Calm, StateType
    <3>2. \A j \in dirty : j \in 1..Len(s.cache)
      BY <3>1
    <3> HIDE DEF dirty
    <3> QED BY <2>3, <3>1, <3>2
  <2>5. e \in Id /\ e \in Range(s.cache)
    <3> HIDE DEF dirty
    <3> QED BY <2>4 DEF Range
  <2> HIDE DEF e, dirty
  <2>6. e \in Made(s) /\ s.entry[e].loaded /\ s \in StateType /\ NoRace(s) /\ s.size = Len(s.cache)
    BY <2>5 DEF Calm
  <2>7. Clean(s, p, x, e)
    BY <2>1 DEF e
  <2> QED BY <2>5, <2>6, <2>7, SoleClean
<1> QED BY <1>1, <1>2
\* bcache_entry_create and list_push_head: the new entry is at the head.
LEMMA SoleCreated ==
  ASSUME CacheAssumption, CacheInv, SoleInv, NEW p \in Proc, Alone(p), call[p].at = "user",
         NEW k \in Key, NEW garbage \in BOOLEAN, bcache_find(Now, k) = {}, Len(entry) < MaxEntries
  PROVE  LET s == Created(Now, k, garbage)
             n == Len(entry) + 1
         IN  /\ Calm(s) /\ s.size = size + 1 /\ n \in Range(s.cache) /\ Head(s.cache) = n
             /\ \A e \in Range(s.cache) : s.entry[e].loaded \/ e = n
<1> DEFINE n == Len(entry) + 1
           new == [key |-> k, data |-> Junk, dirty |-> garbage, loaded |-> FALSE, live |-> TRUE]
           l == <<n>> \o cache
           es == Append(entry, new)
           s == Created(Now, k, garbage)
<1>1. /\ Now.cache = cache /\ Now.size = size /\ Now.entry = entry /\ Now.raced = raced
      /\ Now \in StateType /\ ListInv(Now) /\ size \in Nat
  BY NowFacts
<1>2. size = Len(cache) /\ NoRace(Now) /\ \A e \in Range(cache) : entry[e].loaded
  <2>1. Sole(Now, call[p]) /\ NoRace(Now)
    BY DEF SoleInv
  <2> QED BY <1>1, <2>1 DEF Sole
<1>3. s = [Now EXCEPT !.cache = l, !.size = size + 1, !.entry = es]
  <2> DEFINE late == \E q \in Proc : call[q].at = "write" /\ entry[call[q].w].key = k
             t == [Now EXCEPT !.cache = <<n>> \o @, !.size = @ + 1, !.entry = Append(@, new)]
  <2>1. ~late
    BY DEF Alone
  <2>2. s = Note(t, "reordered", late)
    BY <1>1 DEF Created
  <2>3. t = [Now EXCEPT !.cache = l, !.size = size + 1, !.entry = es]
    BY <1>1
  <2> HIDE DEF t, late, s, l, es
  <2> QED BY <2>1, <2>2, <2>3, NoteKept
<1>4. /\ cache \in Seq(Id) /\ entry \in Seq(EntryType) /\ Len(entry) \in Nat
      /\ n \in Id /\ new \in EntryType
  BY <1>1 DEF StateType, Id, EntryType, CacheAssumption
<1>5. Range(cache) \subseteq 1..Len(entry) /\ n \notin Range(cache) /\ IsInjective(cache)
  BY <1>1, <1>4 DEF ListInv, Made
<1>6. /\ l \in Seq(Id) /\ Len(l) = Len(cache) + 1 /\ Head(l) = n
      /\ Range(l) = Range(cache) \cup {n} /\ IsInjective(l)
  <2> HIDE DEF n
  <2> QED BY <1>4, <1>5, PushNodes
<1>7. new.live = TRUE
  OBVIOUS
<1> HIDE DEF new
<1>8. /\ es \in Seq(EntryType) /\ Len(es) = n /\ es[n] = new
      /\ \A i \in 1..Len(entry) : es[i] = entry[i]
  BY <1>4
<1> HIDE DEF l, es, s
<1>9. /\ s \in StateType /\ s.cache = l /\ s.size = size + 1 /\ s.entry = es /\ s.raced = raced
  <2>1. size + 1 \in Nat
    BY <1>1
  <2> QED BY <1>1, <1>3, <1>6, <1>8, <2>1 DEF StateType
<1>10. \A e \in Range(cache) : e \in 1..n /\ es[e].live /\ es[e].loaded
  BY <1>1, <1>2, <1>4, <1>5, <1>8 DEF ListInv
<1>11. n \in 1..n
  BY <1>4
<1> HIDE DEF n
<1>12. Calm(s)
  <2>1. s.size = Len(s.cache) /\ IsInjective(s.cache) /\ NoRace(s)
    BY <1>1, <1>2, <1>6, <1>9 DEF NoRace
  <2>2. \A e \in Range(s.cache) : e \in Made(s) /\ s.entry[e].live
    BY <1>6, <1>7, <1>8, <1>9, <1>10, <1>11 DEF Made
  <2> QED BY <1>9, <2>1, <2>2 DEF Calm
<1>13. \A e \in Range(s.cache) : s.entry[e].loaded \/ e = n
  BY <1>6, <1>9, <1>10
<1> QED BY <1>6, <1>9, <1>12, <1>13 DEF n, s

\* With one process, the cache is at rest or in the middle of its one call.
LEMMA SoleNow ==
  ASSUME CacheAssumption, CacheInv, SoleInv, NEW p \in Proc, Proc = {p}
  PROVE  Alone(p) /\ Context /\ Calm(Now) /\ Sole(Now, call[p])
<1>1. /\ Context /\ Now \in StateType /\ ListInv(Now)
  BY NowFacts
<1>2. fault = "none" /\ NoRace(Now) /\ Sole(Now, call[p])
  BY DEF SoleInv
<1>3. Calm(Now)
  BY <1>1, <1>2 DEF Calm, ListInv, Sole
<1> QED BY <1>1, <1>2, <1>3 DEF Alone, Context
\* bcache_read_block and bcache_write_block, up to the first transfer.
LEMMA SoleBegin ==
  ASSUME CacheAssumption, CacheInv, SoleInv, NEW p \in Proc, Proc = {p},
         NEW k \in Key, NEW garbage \in BOOLEAN,
         NEW x \in CallType, x.op \in {"read", "write"}, ~x.hit, Begin(p, x, k, garbage)
  PROVE  Ends
<1>1. /\ Now.cache = cache /\ Now.size = size /\ Now.entry = entry /\ Now.raced = raced
      /\ size <= CacheSize /\ size \in Nat /\ CacheSize \in Nat /\ ListInv(Now)
  BY NowFacts
<1>2. Alone(p) /\ Context /\ Calm(Now) /\ Sole(Now, call[p])
  BY SoleNow
<1>3. call[p].at = "user"
  BY Zenon DEF Begin
<1>4. \A i \in Range(cache) : entry[i].loaded
  BY <1>1, <1>2, <1>3 DEF Sole
<1>5. ASSUME NEW e \in bcache_find(Now, k), Trim(Now, p, [x EXCEPT !.e = e, !.hit = TRUE])
      PROVE  Ends
  <2> DEFINE y == [x EXCEPT !.e = e, !.hit = TRUE]
  <2>1. e \in Range(cache)
    BY <1>1 DEF bcache_find
  <2>2. e \in Id
    BY <1>1, <2>1 DEF ListInv, Made, Id, CacheAssumption
  <2>3. y \in CallType /\ y.op \in {"read", "write"} /\ y.e = e /\ y.hit = TRUE
    BY <2>2 DEF CallType
  <2>4. Trim(Now, p, y)
    BY <1>5
  <2> HIDE DEF y
  <2>5. Serves(Now, y)
    BY <1>1, <1>4, <2>1, <2>3 DEF Serves, OthersLoaded
  <2> QED BY <1>1, <1>2, <2>4, <2>5, SoleTrim
<1>6. ASSUME bcache_find(Now, k) = {}, Len(entry) < MaxEntries,
             Trim(Created(Now, k, garbage), p, [x EXCEPT !.e = Len(entry) + 1])
      PROVE  Ends
  <2> DEFINE n == Len(entry) + 1
             s == Created(Now, k, garbage)
             y == [x EXCEPT !.e = n]
  <2>1. /\ Calm(s) /\ s.size = size + 1 /\ n \in Range(s.cache) /\ Head(s.cache) = n
        /\ \A e \in Range(s.cache) : s.entry[e].loaded \/ e = n
    BY <1>2, <1>3, <1>6, SoleCreated
  <2>2. Trim(s, p, y)
    BY <1>6
  <2> HIDE DEF s, n
  <2>3. n \in Id
    BY <2>1, ListNodes DEF Calm, StateType
  <2>4. y \in CallType /\ y.op \in {"read", "write"} /\ y.e = n /\ ~y.hit
    BY <2>3 DEF CallType
  <2> HIDE DEF y
  <2>5. Serves(s, y)
    BY <2>1, <2>4 DEF Serves, OthersLoaded
  <2>6. s.size <= CacheSize + 1
    BY <1>1, <2>1
  <2> QED BY <1>2, <2>1, <2>2, <2>4, <2>5, <2>6, SoleTrim
<1> QED BY <1>5, <1>6, Zenon DEF Begin

\* device_read comes back; an entry it could not read is removed.
LEMMA SoleReadDone ==
  ASSUME CacheAssumption, CacheInv, SoleInv, NEW p \in Proc, Proc = {p},
         NEW ok \in BOOLEAN, ReadDone(p, ok)
  PROVE  Ends
<1> DEFINE x == call[p]
           e == x.e
           k == entry[e].key
<1>1. /\ Now.cache = cache /\ Now.size = size /\ Now.entry = entry /\ Now.raced = raced
      /\ Now \in StateType /\ ListInv(Now) /\ CallInv(Now, call)
  BY NowFacts
<1>2. Alone(p) /\ Context /\ Calm(Now) /\ Sole(Now, x)
  BY SoleNow
<1>3. /\ x.at = "read"
      /\ IF ~entry[e].live THEN Crash(Now)
         ELSE IF ok
         THEN Use([Now EXCEPT !.entry[e].data = disk[k], !.entry[e].loaded = TRUE], p, x)
         ELSE Return(bcache_entry_delete(Removed(Now, e), e), p, None)
  BY DEF ReadDone
<1>4. x.op = "read" /\ ~x.hit /\ x \in CallType /\ e \in Made(Now)
  BY <1>1, <1>2, <1>3 DEF CallInv, Works, Fetches, Context
<1>5. /\ cache # << >> /\ Head(cache) = e /\ size = Len(cache)
      /\ \A i \in Range(cache) : entry[i].loaded \/ i = e
  BY <1>1, <1>2, <1>3 DEF Sole, Fresh
<1>6. cache \in Seq(Id) /\ e \in Range(cache) /\ IsInjective(cache) /\ Len(cache) \in Nat
  <2>1. cache \in Seq(Id) /\ IsInjective(cache)
    BY <1>1 DEF StateType, ListInv
  <2>2. cache[1] = e /\ 1 \in DOMAIN cache
    BY <1>5, <2>1
  <2> QED BY <2>1, <2>2 DEF Range
<1>7. /\ e \in Made(Now) /\ entry[e].live
      /\ \A i \in Range(cache) : i \in Made(Now) /\ entry[i].live
  BY <1>1, <1>6 DEF ListInv
<1>8. CASE ok
  <2> DEFINE d == disk[k]
             s == Loads(Now, e, d)
  <2>1. d \in Data \cup {Junk}
    BY <1>1, <1>7, EntryFacts, NowFacts
  <2>2. Use(s, p, x)
    BY <1>3, <1>7, <1>8 DEF Loads
  <2> HIDE DEF d
  <2>3. Updates(Now, s, e, Loaded(entry[e], d)) /\ entry[e] \in EntryType
    BY <1>1, <1>7, <2>1, LoadFacts, EntryFacts
  <2>4. Loaded(entry[e], d).live = entry[e].live /\ Loaded(entry[e], d).loaded = TRUE
    BY <2>3 DEF Loaded, EntryType
  <2> HIDE DEF s
  <2>5. /\ s \in StateType /\ s.cache = cache /\ s.size = size /\ s.raced = raced
        /\ Made(s) = Made(Now)
        /\ \A i \in Range(cache) : i \in Made(s) /\ s.entry[i].live /\ s.entry[i].loaded
    BY <1>1, <1>5, <1>7, <2>3, <2>4 DEF Updates
  <2>6. Calm(s)
    BY <1>1, <1>2, <1>5, <1>6, <2>5 DEF Calm, NoRace
  <2>7. Serves(s, x)
    BY <1>4, <1>5, <1>6, <2>5 DEF Serves, OthersLoaded
  <2> QED BY <1>2, <1>6, <2>2, <2>5, <2>6, <2>7, SoleUse
<1>9. CASE ~ok
  <2> DEFINE t == Removed(Now, e)
             s == bcache_entry_delete(t, e)
  <2>1. Return(s, p, None)
    BY <1>3, <1>7, <1>9
  <2>2. /\ RemoveFirst(cache, e) \in Seq(Id) /\ Range(RemoveFirst(cache, e)) = Range(cache) \ {e}
        /\ IsInjective(RemoveFirst(cache, e)) /\ Len(RemoveFirst(cache, e)) = Len(cache) - 1
    BY <1>6, CutNodes
  <2> DEFINE r == RemoveFirst(cache, e)
             m == size - 1
  <2>3. t = [Now EXCEPT !.cache = r, !.size = m]
    BY <1>1, <1>5 DEF Removed
  <2>4. r \in Seq(Id) /\ m \in Nat /\ m = Len(r) /\ Range(r) = Range(cache) \ {e} /\ IsInjective(r)
    BY <1>5, <1>6, <2>2
  <2> HIDE DEF r, m, t, s
  <2>5. /\ t \in StateType /\ t.cache = r /\ t.size = m /\ t.entry = entry /\ t.raced = raced
    BY <1>1, <2>3, <2>4 DEF StateType
  <2>6. Made(t) = Made(Now)
    BY <1>1, <2>5 DEF Made
  <2>7. Calm(t) /\ e \in Made(t) /\ e \notin Range(t.cache)
    BY <1>1, <1>2, <1>7, <2>4, <2>5, <2>6 DEF Calm, NoRace
  <2>8. \A i \in Range(t.cache) : t.entry[i].loaded
    BY <1>5, <2>4, <2>5
  <2>9. Calm(s) /\ \A i \in Range(s.cache) : s.entry[i].loaded
    BY <2>7, <2>8, SoleDelete DEF s
  <2> QED BY <1>2, <2>1, <2>9, SoleReturn
<1> QED BY <1>8, <1>9
\* device_write comes back; the entry it was for is still there.
LEMMA SoleWriteDone ==
  ASSUME CacheAssumption, CacheInv, SoleInv, NEW p \in Proc, Proc = {p},
         NEW ok \in Ok("write"), NEW v, WriteDone(p, ok, v)
  PROVE  Ends
<1> DEFINE x == call[p]
           w == x.w
           s == Note(Cleaned(Now, w), "failed", ~ok)
<1>1. /\ Now.cache = cache /\ Now.size = size /\ Now.entry = entry /\ Now.raced = raced
      /\ Now \in StateType /\ ListInv(Now) /\ CallInv(Now, call)
  BY NowFacts
<1>2. Alone(p) /\ Context /\ Calm(Now) /\ Sole(Now, x)
  BY SoleNow
<1>3. /\ x.at = "write"
      /\ IF ~entry[w].live THEN Crash(Now) ELSE AfterClean(s, p, x)
  BY DEF WriteDone, Cleaned
<1>4. /\ w \in Made(Now) /\ x \in CallType /\ Works(Now, x) /\ x.op \in {"read", "write", "flush"}
      /\ x.op # "flush" => w \notin Range(cache) /\ Fresh(Now, x)
      /\ \A i \in Range(cache) : entry[i].loaded \/ (x.op # "flush" /\ i = x.e)
      /\ cache \in Seq(Id)
  BY <1>1, <1>2, <1>3 DEF CallInv, Works, Context, CallType, Sole, StateType
<1>5. entry[w].live
  BY <1>1, <1>2, <1>3 DEF Sole, ListInv
<1>6. AfterClean(s, p, x)
  BY <1>3, <1>5
<1>7. ok \in BOOLEAN /\ ("write" \notin Failing => ok)
  BY DEF Ok
<1>8. Settled(Now, s, w)
  BY <1>1, <1>4, <1>7, SettledFacts
<1>9. "write" \notin Failing => s.raced = raced
  <2>1. "write" \notin Failing => s = Cleaned(Now, w)
    BY <1>7, NoteKept
  <2>2. Cleaned(Now, w).raced = raced
    BY <1>1, <1>4, CleanFacts DEF Updates
  <2> QED BY <2>1, <2>2
<1> HIDE DEF s
<1>10. /\ s \in StateType /\ s.cache = cache /\ s.size = size /\ Made(s) = Made(Now)
       /\ \A i \in Made(Now) : s.entry[i].loaded = entry[i].loaded /\ s.entry[i].live = entry[i].live
  BY <1>1, <1>8 DEF Settled
<1>11. Calm(s)
  BY <1>1, <1>2, <1>9, <1>10 DEF Calm, NoRace
<1>12. \A i \in Range(cache) : s.entry[i].loaded \/ (x.op # "flush" /\ i = x.e)
  BY <1>1, <1>4, <1>10 DEF ListInv
<1>13. CASE x.op # "flush"
  <2>1. Proceed(bcache_entry_delete(s, w), p, x)
    BY <1>6, <1>13 DEF AfterClean
  <2>2. x.e \in Range(cache)
    <3>1. cache # << >> /\ Head(cache) = x.e
      BY <1>1, <1>4, <1>13 DEF Fresh
    <3>2. cache[1] = x.e /\ 1 \in DOMAIN cache
      BY <1>4, <3>1
    <3> QED BY <3>2 DEF Range
  <2>3. Serves(s, x)
    BY <1>1, <1>4, <1>10, <1>12, <1>13, <2>2 DEF Serves, OthersLoaded, Fresh
  <2>4. w \in Made(s) /\ w \notin Range(s.cache)
    BY <1>4, <1>10, <1>13
  <2> QED BY <1>2, <1>11, <2>1, <2>3, <2>4, SoleDelete, SoleProceed
<1>14. CASE x.op = "flush"
  <2> DEFINE i == IF Contains(s.cache, w) THEN 1 + SelectInSeq(s.cache, LAMBDA e : e = w)
                  ELSE Len(s.cache) + 1
  <2>1. Flush(s, p, x, i)
    BY <1>6, <1>14 DEF AfterClean
  <2>2. i \in Nat /\ i > 0
    BY <1>4, <1>10, PositionFacts
  <2>3. \A j \in Range(s.cache) : s.entry[j].loaded
    BY <1>10, <1>12, <1>14
  <2> HIDE DEF i
  <2> QED BY <1>2, <1>4, <1>11, <1>14, <2>1, <2>2, <2>3, SoleFlush
<1> QED BY <1>13, <1>14

\* A flush by the only process does not change what is stored.
LEMMA SoleFlushKeys ==
  ASSUME CacheAssumption, CacheInv, SoleInv, NEW p \in Proc, Proc = {p},
         NEW K \in FlushSets, FlushKeys(p, K)
  PROVE  Ends
<1> DEFINE x == [Idle EXCEPT !.op = "flush", !.keys = K]
<1>1. call[p].at = "user" /\ Flush(Now, p, x, 1)
  BY Zenon DEF FlushKeys
<1>2. K \in SUBSET Key
  BY DEF FlushSets, Key
<1>3. x \in CallType /\ x.op = "flush"
  BY <1>2, IdleFacts DEF CallType
<1>4. Alone(p) /\ Calm(Now) /\ Sole(Now, call[p])
  BY SoleNow
<1>5. \A e \in Range(Now.cache) : Now.entry[e].loaded
  BY <1>1, <1>4 DEF Sole
<1> HIDE DEF x
<1> QED BY <1>1, <1>3, <1>4, <1>5, SoleFlush

\* Every step of the only client.
LEMMA SoleNext ==
  ASSUME CacheAssumption, CacheInv, SoleInv, NEW p \in Proc, Proc = {p}, Next
  PROVE  Ends
<1>1. \/ \E k \in Key : Read(p, k) \/ Write(p, k)
      \/ \E K \in FlushSets : FlushKeys(p, K)
      \/ \E ok \in Ok("read") : ReadDone(p, ok)
      \/ \E ok \in Ok("write"), v \in Data \cup {Junk} : WriteDone(p, ok, v)
  BY Zenon DEF Next
<1>2. ASSUME NEW k \in Key, Read(p, k)
      PROVE  Ends
  <2> DEFINE x == [Idle EXCEPT !.op = "read", !.keys = {k}]
  <2>1. PICK garbage \in BOOLEAN : Begin(p, x, k, garbage)
    BY <1>2, Zenon DEF Read
  <2>2. x \in CallType /\ x.op \in {"read", "write"} /\ ~x.hit
    BY IdleFacts DEF CallType, Idle
  <2> HIDE DEF x
  <2> QED BY <2>1, <2>2, SoleBegin
<1>3. ASSUME NEW k \in Key, Write(p, k)
      PROVE  Ends
  <2> DEFINE x == [Idle EXCEPT !.op = "write", !.keys = {k}, !.v = writes + 1]
  <2>1. writes < MaxWrites /\ Begin(p, x, k, TRUE)
    BY <1>3, Zenon DEF Write
  <2>2. writes + 1 \in Data
    BY <2>1 DEF CacheInv, TypeOK, Data, CacheAssumption
  <2>3. x \in CallType /\ x.op \in {"read", "write"} /\ ~x.hit
    BY <2>2, IdleFacts DEF CallType, Idle
  <2> HIDE DEF x
  <2> QED BY <2>1, <2>3, SoleBegin
<1>4. ASSUME NEW K \in FlushSets, FlushKeys(p, K)
      PROVE  Ends
  BY <1>4, SoleFlushKeys
<1>5. ASSUME NEW ok \in Ok("read"), ReadDone(p, ok)
      PROVE  Ends
  <2>1. ok \in BOOLEAN
    BY DEF Ok
  <2> QED BY <1>5, <2>1, SoleReadDone
<1>6. ASSUME NEW ok \in Ok("write"), NEW v \in Data \cup {Junk}, WriteDone(p, ok, v)
      PROVE  Ends
  BY <1>6, SoleWriteDone
<1> QED BY <1>1, <1>2, <1>3, <1>4, <1>5, <1>6

\* The invariant of the sole client holds of the empty cache.
LEMMA SoleStart ==
  ASSUME CacheAssumption, Init
  PROVE  SoleInv
<1>1. /\ cache = << >> /\ size = 0 /\ raced = {} /\ fault = "none"
      /\ call = [p \in Proc |-> Idle]
  BY DEF Init
<1>2. Now.cache = << >> /\ Now.size = 0 /\ Now.raced = {} /\ Range(<< >>) = {} /\ Len(<< >>) = 0
  BY <1>1 DEF Now, Range
<1>3. \A p \in Proc : Sole(Now, call[p])
  BY <1>1, <1>2, IdleFacts DEF Sole
<1> QED BY <1>1, <1>2, <1>3 DEF SoleInv, NoRace

\* The invariant of the sole client is inductive.
LEMMA SoleKept ==
  ASSUME CacheAssumption, CacheInv, SoleInv, NEW p \in Proc, Proc = {p}, [Next]_vars
  PROVE  SoleInv'
<1>1. CASE Next
  BY <1>1, SoleNext DEF Ends
<1>2. CASE UNCHANGED vars
  <2>1. Now' = Now /\ fault' = fault /\ call' = call
    BY <1>2 DEF Now, vars
  <2> QED BY <2>1 DEF SoleInv, NoRace, Sole, Fresh
<1> QED BY <1>1, <1>2
SoleClient == \E p : Proc = {p}

\* With one client, throughout: no freed entry has been used, the size field is right, what the
\* call works on is where it left it, and, unless a write back can fail, no race is recorded.
THEOREM SoleClientInv ==
  ASSUME CacheAssumption, SoleClient
  PROVE  Spec => []SoleInv
<1>1. Init => SoleInv
  BY SoleStart
<1>2. ASSUME CacheInv, SoleInv, [Next]_vars
      PROVE  SoleInv'
  <2>1. PICK p : Proc = {p}
    BY DEF SoleClient
  <2> QED BY <1>2, <2>1, SoleKept
<1> QED BY <1>1, <1>2, BufferCacheInv, PTL DEF Spec

\* Calls that do not overlap never use a freed entry, not the one a trim has thrown out and not
\* the one a failed read has removed (kernel/bcache.c:62-71, 106-130).
THEOREM NeverFaultsHolds ==
  ASSUME CacheAssumption, SoleClient
  PROVE  Spec => []NeverFaults
<1>1. SoleInv => NeverFaults
  BY DEF SoleInv, NeverFaults
<1> QED BY <1>1, SoleClientInv, PTL

\* For clients whose calls do not overlap, and a device whose writes succeed, the cache is a
\* store of blocks: the detailed specification implements the abstract one (BlockStore).
THEOREM SoleStoreHolds ==
  ASSUME CacheAssumption, SoleClient, "write" \notin Failing
  PROVE  Spec => Store!Spec
<1>1. ASSUME Init
      PROVE  Store!Init
  <2>1. CacheInv /\ raced = {} /\ fault = "none" /\ answer = None /\ truth = [k \in Key |-> 0]
    BY <1>1, CacheStart DEF Init
  <2>2. Kept(Now, disk, truth)
    BY <2>1, NowFacts DEF CalmInv
  <2>3. \A k \in Key : Current(k) = 0
    BY <2>1, <2>2, ReadingFacts, CurrentFacts
  <2> QED BY <2>1, <2>3 DEF Store!Init
<1>2. ASSUME CacheInv, SoleInv', [Next]_vars
      PROVE  StoreStep
  <2>1. raced' = {} /\ fault' = "none"
    BY <1>2 DEF SoleInv, NoRace, Now
  <2> QED BY <1>2, <2>1, StoreStepFacts
<1> QED BY <1>1, <1>2, BufferCacheInv, SoleClientInv, PTL DEF Spec, Store!Spec, StoreStep
=============================================================================
