------------------------------- MODULE FileIO -------------------------------
(***************************************************************************)
(* Reading and writing a file by parts of blocks: fs_dirent_read and       *)
(* fs_dirent_write of kernel/fs.c, called by kobject_read and kobject_write*)
(* with the offset of the descriptor.  The block operations of the file    *)
(* system may fail.  A block that was never written reads as bytes that    *)
(* are Unknown.  The size is 32 bits wide, here modulo Word.               *)
(*                                                                         *)
(* Several descriptors share one directory entry, and one call runs to its *)
(* end before the next begins; what happens when calls overlap is in       *)
(* BufferCache and DiskFS.                                                 *)
(***************************************************************************)
EXTENDS Integers, Sequences, FiniteSetsExt, SequencesExt

CONSTANTS
  Fd, Byte, Unknown,
  BlockSize, MaxBlocks,   \* bytes in a block; blocks a file may have
  Word,                   \* 2^32
  Lengths,                \* the lengths that are asked for
  MaxCalls                \* bound: calls made

IOAssumption ==
  /\ BlockSize \in Nat \ {0} /\ MaxBlocks \in Nat \ {0} /\ Word \in Nat \ {0}
  /\ Lengths \subseteq 0..(Word - 1) /\ MaxCalls \in Nat /\ Unknown \notin Byte

VARIABLES
  block,    \* the blocks of the file
  size,     \* its size
  offset,   \* the offset of every descriptor
  got,      \* what the last read returned
  calls,
  wrapped   \* history: offset + length did not fit

vars == <<block, size, offset, got, calls, wrapped>>

Index == 0..(MaxBlocks - 1)
NoBlock == [i \in 1..BlockSize |-> Unknown]
TypeOK ==
  /\ block \in [Index -> [1..BlockSize -> Byte \cup {Unknown}]]
  /\ size \in 0..(Word - 1) /\ offset \in [Fd -> 0..(BlockSize * MaxBlocks)]
  /\ calls \in 0..MaxCalls /\ wrapped \in BOOLEAN

Init ==
  /\ block = [k \in Index |-> NoBlock] /\ size = 0
  /\ offset = [f \in Fd |-> 0] /\ got = <<>> /\ calls = 0 /\ wrapped = FALSE

-----------------------------------------------------------------------------
BlockNo(off) == off \div BlockSize
Within(off) == off % BlockSize

\* How much of a block the loop takes at one go: to the end of the block when it is in
\* the middle of one, a whole block, or what is left.
Actual(off, len) == IF Within(off) # 0 THEN Min({BlockSize - Within(off), len})
                    ELSE IF len >= BlockSize THEN BlockSize ELSE len

\* The pieces of a transfer, up to the first block the file cannot have.
Pieces(off, len) ==
  LET C[n \in Nat] ==
        LET o == off + len - n
        IN  IF n = 0 \/ BlockNo(o) \notin Index THEN <<>>
            ELSE <<[off |-> o, n |-> Actual(o, n)]>> \o C[n - Actual(o, n)]
  IN  C[len]

\* The pieces before a block fails; MaxBlocks stands for none.
Done(pieces, bad) ==
  SelectSeq(pieces, LAMBDA c : \A i \in DOMAIN pieces :
                      BlockNo(pieces[i].off) = bad => c.off < pieces[i].off)
Total(pieces) == FoldLeft(LAMBDA t, c : t + c.n, 0, pieces)

\* One piece of a read and of a write.  A write reads the block first unless it is whole.
Bytes(c) == SubSeq(block[BlockNo(c.off)], Within(c.off) + 1, Within(c.off) + c.n)
\* Mutant: the rest of the block is not read first.
Put_Blind(blocks, c, b) ==
  [blocks EXCEPT ![BlockNo(c.off)] =
     [i \in 1..BlockSize |-> IF i - 1 \in (Within(c.off))..(Within(c.off) + c.n - 1)
                             THEN b ELSE Unknown]]
Put(blocks, c, b) ==
  [blocks EXCEPT ![BlockNo(c.off)] =
     [i \in 1..BlockSize |-> IF i - 1 \in (Within(c.off))..(Within(c.off) + c.n - 1)
                             THEN b ELSE @[i]]]

\* The length of a read is cut to the size of the file.
Cut(off, len) ==
  CASE off > size -> 0
    [] off <= size /\ (off + len) % Word > size -> size - off
    [] OTHER -> len
\* The size after a write.
Resized(off, len) == IF (off + len) % Word > size THEN (off + len) % Word ELSE size

Call(f, len) ==
  /\ calls < MaxCalls /\ ~wrapped /\ calls' = calls + 1
  /\ wrapped' = (offset[f] + len >= Word)

Read(f, len, bad) ==
  LET done == Done(Pieces(offset[f], Cut(offset[f], len)), bad)
  IN  /\ Call(f, len)
      /\ got' = FlattenSeq([i \in DOMAIN done |-> Bytes(done[i])])
      /\ offset' = [offset EXCEPT ![f] = @ + Total(done)]
      /\ UNCHANGED <<block, size>>

Write(f, len, b, bad) ==
  LET done == Done(Pieces(offset[f], len), bad)
  IN  /\ Call(f, len)
      /\ size' = Resized(offset[f], len)
      /\ block' = FoldLeft(LAMBDA blocks, c : Put(blocks, c, b), block, done)
      /\ offset' = [offset EXCEPT ![f] = @ + Total(done)]
      /\ UNCHANGED got

Next ==
  \E f \in Fd, len \in Lengths, bad \in 0..MaxBlocks :
    \/ Read(f, len, bad)
    \/ \E b \in Byte : Write(f, len, b, bad)

Spec == Init /\ [][Next]_vars

-----------------------------------------------------------------------------
\* The bytes of the file, the ones beyond the last possible block included.
Content ==
  [i \in 1..size |-> IF BlockNo(i - 1) \in Index
                     THEN block[BlockNo(i - 1)][Within(i - 1) + 1] ELSE Unknown]

\* What an open file promises, of its bytes and the positions of its descriptors: a read
\* gives the bytes at the position and a write puts bytes there; either may stop early, and
\* after a write that did the file may be longer than what was written, by bytes Unknown.
FileRead(f) ==
  LET n == offset'[f] - offset[f]
  IN  /\ n \in 0..(Len(Content) - offset[f])
      /\ got' = SubSeq(Content, offset[f] + 1, offset[f] + n)
      /\ UNCHANGED Content
FileWrite(f) ==
  LET n == offset'[f] - offset[f]
  IN  /\ n >= 0 /\ Len(Content') >= Max({Len(Content), offset[f] + n})
      /\ \E b \in Byte : \A i \in 1..Len(Content') :
           Content'[i] = IF i \in (offset[f] + 1)..(offset[f] + n) THEN b
                         ELSE IF i <= Len(Content) THEN Content[i] ELSE Unknown
      /\ UNCHANGED got

FileNext == \E f \in Fd : /\ \A g \in Fd \ {f} : offset'[g] = offset[g]
                          /\ FileRead(f) \/ FileWrite(f)

\* The file is a sequence of bytes: whatever the parts of blocks a call covers and wherever
\* it fails, a read returns what was written last at its position, and a write changes
\* nothing else, if no length makes offset + length overflow.
FileStep == [FileNext \/ wrapped']_<<Content, offset, got>>

\* A descriptor never passes the end of the file, so that a write leaves no gap.
InFile == ~wrapped => \A f \in Fd : offset[f] <= size
=============================================================================
