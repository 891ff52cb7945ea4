---------------------------- MODULE BufferCache ----------------------------
(***************************************************************************)
(* The buffer cache, kernel/bcache.c, over kernel/device.c.  A process     *)
(* loses the processor where a device is read or written, so a call is cut *)
(* there and nowhere else.  Transfers of different processes are done in   *)
(* any order, since the mutex of the driver is not fair (see Ata).         *)
(*                                                                         *)
(* Nothing keeps two calls from working on one entry.  What this leads to  *)
(* is recorded in "raced"; a use of freed memory is a "fault" and ends the *)
(* behaviour.                                                              *)
(***************************************************************************)
EXTENDS Integers, Sequences, SequencesExt

CONSTANTS
  Proc, Device, Block,
  CacheSize,    \* max_cache_size
  Failing,      \* which transfers can fail: "read", "write"
  MaxEntries,   \* bound: entries that are ever created
  MaxWrites     \* bound: calls of bcache_write_block; the n-th writes n

CacheAssumption ==
  /\ CacheSize \in Nat \ {0} /\ MaxEntries \in Nat /\ MaxWrites \in Nat
  /\ Failing \subseteq {"read", "write"}

Key == Device \X Block
Data == 0..MaxWrites
Junk == -1                  \* what is in a new buffer before it is filled
None == << >>               \* the answer of a flush or of a failed read
Id == 1..MaxEntries

VARIABLES
  cache, size,  \* the list, from the head, and its size field
  entry,        \* the entries created so far, in the order of creation
  disk,
  call,         \* what each process is doing
  answer,       \* what the last call to return has read or written
  writes,       \* number of writes so far
  truth,        \* history: what was written last to each block
  raced,        \* history: see above
  fault

vars == <<cache, size, entry, disk, call, answer, writes, truth, raced, fault>>

\* A call: the operation, the block or blocks it is for, the data to write, its entry
\* and whether that was found; the entry it writes to the device and what that held
\* when the transfer began.
Idle == [at |-> "user", op |-> "none", keys |-> {}, v |-> 0, e |-> 0, hit |-> FALSE,
         w |-> 0, d |-> 0]
Race == {"unread", "overwritten", "rewritten", "reordered", "failed"}

TypeOK ==
  /\ cache \in Seq(Id) /\ size \in Nat
  /\ entry \in Seq([key : Key, data : Data \cup {Junk}, dirty : BOOLEAN,
                    loaded : BOOLEAN, live : BOOLEAN])
  /\ disk \in [Key -> Data \cup {Junk}]
  /\ call \in [Proc -> [at : {"user", "read", "write"},
                        op : {"none", "read", "write", "flush"},
                        keys : SUBSET Key, v : Data, e : {0} \cup Id, hit : BOOLEAN,
                        w : {0} \cup Id, d : Data \cup {Junk}]]
  /\ answer \in {None} \cup (Key \X (Data \cup {Junk})) /\ writes \in 0..MaxWrites
  /\ truth \in [Key -> Data]
  /\ raced \subseteq Race /\ fault \in {"none", "freed"}

Init ==
  /\ cache = << >> /\ size = 0 /\ entry = << >>
  /\ disk = [k \in Key |-> 0]
  /\ call = [p \in Proc |-> Idle]
  /\ answer = None /\ writes = 0
  /\ truth = [k \in Key |-> 0] /\ raced = {} /\ fault = "none"

-----------------------------------------------------------------------------
(* The list of entries.  A step works on a record s of the variables it may change. *)

Now == [cache |-> cache, size |-> size, entry |-> entry, raced |-> raced]
Commit(s) ==
  cache' = s.cache /\ size' = s.size /\ entry' = s.entry /\ raced' = s.raced
Note(s, what, cond) == IF cond THEN [s EXCEPT !.raced = @ \cup {what}] ELSE s

\* Mutant: an entry that is still being read is not found.
bcache_find_Loaded(s, k) == {e \in Range(s.cache) : s.entry[e].key = k /\ s.entry[e].loaded}
bcache_find(s, k) == {e \in Range(s.cache) : s.entry[e].key = k}

\* bcache_entry_create and list_push_head.  Nothing sets the dirty flag.  An old
\* entry of the block may still be on its way to the disk.
Created(s, k, garbage) ==
  Note([s EXCEPT !.cache = <<Len(s.entry) + 1>> \o @, !.size = @ + 1,
                 !.entry = Append(@, [key |-> k, data |-> Junk, dirty |-> garbage,
                                      loaded |-> FALSE, live |-> TRUE])],
       "reordered", \E q \in Proc : call[q].at = "write" /\ entry[call[q].w].key = k)

bcache_entry_delete(s, e) == [s EXCEPT !.entry[e].live = FALSE]

\* list_remove: for an inner node the size is not brought up to date.
Removed(s, e) ==
  [s EXCEPT !.cache = RemoveFirst(@, e),
            !.size = IF s.cache # << >> /\ e \in {Head(s.cache), Last(s.cache)}
                     THEN @ - 1 ELSE @]

-----------------------------------------------------------------------------
(* What a call does from one transfer to the next, but for "disk" and "writes" *)

Crash(s) == Commit(s) /\ fault' = "freed" /\ UNCHANGED <<call, answer, truth>>

\* device_read or device_write is called and switches.
Transfer(s, p, c) ==
  Commit(s) /\ call' = [call EXCEPT ![p] = c] /\ UNCHANGED <<answer, truth, fault>>

\* bcache_entry_clean of a dirty entry.  The dirty flag of an entry that is still
\* being read is garbage, and junk goes to the disk.
Clean(s, p, c, e) ==
  Transfer(Note(s, "unread", ~s.entry[e].loaded), p,
           [c EXCEPT !.at = "write", !.w = e, !.d = s.entry[e].data])

Return(s, p, a) ==
  Commit(s) /\ call' = [call EXCEPT ![p] = Idle] /\ answer' = a /\ UNCHANGED fault

\* The memcpy into the entry.  Mutant: the dirty flag is left alone.
Filled_NotDirty(s, p, c) ==
  [s EXCEPT !.entry[c.e].data = c.v, !.entry[c.e].loaded = TRUE]
Filled(s, p, c) ==
  LET others == {call[q] : q \in Proc \ {p}}
      t == [s EXCEPT !.entry[c.e].data = c.v, !.entry[c.e].loaded = TRUE,
                     !.entry[c.e].dirty = TRUE]
  IN  Note(Note(t, "overwritten", \E d \in others : d.op = "read" /\ ~d.hit /\ d.e = c.e),
           "rewritten", \E d \in others : d.at = "write" /\ d.w = c.e)

\* The end of bcache_read_block and of bcache_write_block.
Use(s, p, c) ==
  IF ~s.entry[c.e].live THEN Crash(s)
  ELSE \E k \in c.keys :
         \/ /\ c.op = "read"
            /\ Return(Note(s, "unread", ~s.entry[c.e].loaded), p, <<k, s.entry[c.e].data>>)
            /\ UNCHANGED truth
         \/ /\ c.op = "write"
            /\ Return(Filled(s, p, c), p, <<k, c.v>>)
            /\ truth' = [truth EXCEPT ![k] = c.v]

\* After bcache_find_or_create: a read miss goes on with the device.
Proceed(s, p, c) ==
  IF c.op = "read" /\ ~c.hit THEN Transfer(s, p, [c EXCEPT !.at = "read"])
  ELSE Use(s, p, c)

\* bcache_trim: the list is at most one too long, so that one entry goes (Bounded).
\* Mutant: the entry is not cleaned.
Trim_Unclean(s, p, c) ==
  IF s.size <= CacheSize THEN Proceed(s, p, c)
  ELSE Proceed(bcache_entry_delete([s EXCEPT !.cache = Front(@), !.size = @ - 1],
                                   Last(s.cache)), p, c)
Trim(s, p, c) ==
  IF s.size <= CacheSize THEN Proceed(s, p, c)
  ELSE LET e == Last(s.cache)
           t == [s EXCEPT !.cache = Front(@), !.size = @ - 1]
       IN  IF s.entry[e].dirty THEN Clean(t, p, c, e)
           ELSE Proceed(bcache_entry_delete(t, e), p, c)

\* The loop of the flush functions, from position i of the list on.
Flush(s, p, c, i) ==
  LET dirty == {j \in i..Len(s.cache) : /\ s.entry[s.cache[j]].key \in c.keys
                                        /\ s.entry[s.cache[j]].dirty}
  IN  IF dirty = {} THEN Return(s, p, None) /\ UNCHANGED truth
      ELSE Clean(s, p, c, s.cache[Min(dirty)])

-----------------------------------------------------------------------------
(* The steps *)

\* bcache_read_block and bcache_write_block, up to the first transfer.
Begin(p, c, k, garbage) ==
  /\ call[p].at = "user" /\ fault = "none"
  /\ \/ \E e \in bcache_find(Now, k) : Trim(Now, p, [c EXCEPT !.e = e, !.hit = TRUE])
     \/ /\ bcache_find(Now, k) = {} /\ Len(entry) < MaxEntries
        /\ Trim(Created(Now, k, garbage), p, [c EXCEPT !.e = Len(entry) + 1])
  /\ UNCHANGED disk

Read(p, k) ==
  /\ \E garbage \in BOOLEAN : Begin(p, [Idle EXCEPT !.op = "read", !.keys = {k}], k, garbage)
  /\ UNCHANGED writes

Write(p, k) ==
  /\ writes < MaxWrites /\ writes' = writes + 1
  /\ Begin(p, [Idle EXCEPT !.op = "write", !.keys = {k}, !.v = writes + 1], k, TRUE)

\* bcache_flush_block, bcache_flush_device and bcache_flush_all.
FlushKeys(p, K) ==
  /\ call[p].at = "user" /\ fault = "none"
  /\ Flush(Now, p, [Idle EXCEPT !.op = "flush", !.keys = K], 1)
  /\ UNCHANGED <<disk, writes>>

\* device_read comes back.  On failure the entry goes.
ReadDone(p, ok) ==
  LET c == call[p]
      k == entry[c.e].key
  IN  /\ c.at = "read" /\ fault = "none"
      /\ IF ~entry[c.e].live THEN Crash(Now)
         ELSE IF ok
         THEN Use([Now EXCEPT !.entry[c.e].data = disk[k], !.entry[c.e].loaded = TRUE], p, c)
         ELSE /\ Return(bcache_entry_delete(Removed(Now, c.e), c.e), p, None)
              /\ UNCHANGED truth
      /\ UNCHANGED <<disk, writes>>

\* device_write comes back, and nobody looks at its result: the entry is clean, and is
\* deleted if it was trimmed.  The transfer may have taken what was written meanwhile.
\* Mutant: the entry of the call is deleted in place of the trimmed one.
AfterClean_Own(s, p, c) ==
  IF c.op # "flush" THEN Proceed(bcache_entry_delete(s, c.e), p, c)
  ELSE Return(s, p, None) /\ UNCHANGED truth
AfterClean(s, p, c) ==
  IF c.op # "flush" THEN Proceed(bcache_entry_delete(s, c.w), p, c)
  ELSE Flush(s, p, c, IF Contains(s.cache, c.w) THEN 1 + SelectInSeq(s.cache, LAMBDA e : e = c.w)
                      ELSE Len(s.cache) + 1)
WriteDone(p, ok, v) ==
  LET c == call[p]
  IN  /\ c.at = "write" /\ fault = "none"
      /\ v \in {c.d, entry[c.w].data}
      /\ disk' = IF ok THEN [disk EXCEPT ![entry[c.w].key] = v] ELSE disk
      /\ IF ~entry[c.w].live THEN Crash(Now)
         ELSE AfterClean(Note([Now EXCEPT !.entry[c.w].dirty = FALSE], "failed", ~ok), p, c)
      /\ UNCHANGED writes

Ok(op) == IF op \in Failing THEN BOOLEAN ELSE {TRUE}
FlushSets == {{k} : k \in Key} \cup {{d} \X Block : d \in Device} \cup {Key}

Next ==
  \E p \in Proc :
    \/ \E k \in Key : Read(p, k) \/ Write(p, k)
    \/ \E K \in FlushSets : FlushKeys(p, K)
    \/ \E ok \in Ok("read") : ReadDone(p, ok)
    \/ \E ok \in Ok("write"), v \in Data \cup {Junk} : WriteDone(p, ok, v)

Spec == Init /\ [][Next]_vars

-----------------------------------------------------------------------------
(* Properties *)

\* The cache never has two entries for one block, however calls overlap.
OneEntry ==
  \A i, j \in 1..Len(cache) : entry[cache[i]].key = entry[cache[j]].key => i = j

\* The list keeps to its limit, which is why bcache_trim never has more than one
\* entry to remove, however many calls are in the middle of a trim.
Bounded == Len(cache) <= size /\ size <= CacheSize

\* What the next read of block k must give: the entry in the list, or one that is on
\* its way to the disk, or the disk.
Holder(k) == {e \in 1..Len(entry) : /\ entry[e].key = k /\ entry[e].live /\ entry[e].loaded}
Current(k) == IF Holder(k) = {} THEN disk[k] ELSE entry[CHOOSE e \in Holder(k) : TRUE].data

\* Nothing written is lost or undone, unless one of the recorded races, or a failed
\* write back, came before: trims, flushes and garbage in dirty flags alone do no harm.
NothingLost == raced = {} /\ fault = "none" => \A k \in Key : Current(k) = truth[k]

\* Without overlapping calls no freed entry is used, whatever transfers fail: not the
\* entry a trim has thrown out, and not the one a failed read has removed.
NeverFaults == fault = "none"

\* The cache is a block store, for clients whose calls do not overlap.
Store == INSTANCE BlockStore WITH
  Start <- 0, block <- [k \in Key |-> Current(k)]
StoreStep == [Store!Next]_<<[k \in Key |-> Current(k)], answer>>
=============================================================================
