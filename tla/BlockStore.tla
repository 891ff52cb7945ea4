----------------------------- MODULE BlockStore -----------------------------
(***************************************************************************)
(* What the buffer cache promises its clients: an array of blocks with     *)
(* atomic reads and writes.  Whether and when a block is on the disk does  *)
(* not show.                                                               *)
(***************************************************************************)
CONSTANTS Key, Data, Start, None

VARIABLES
  block,    \* what the clients should see in each block
  answer    \* what the last call was about: a block and its data, or None

Init == block = [k \in Key |-> Start] /\ answer = None

Read(k) == answer' = <<k, block[k]>> /\ UNCHANGED block
Write(k, v) == block' = [block EXCEPT ![k] = v] /\ answer' = <<k, v>>
Refuse == answer' = None /\ UNCHANGED block      \* the disk could not be read

Next == Refuse \/ \E k \in Key : Read(k) \/ \E v \in Data : Write(k, v)
Spec == Init /\ [][Next]_<<block, answer>>
=============================================================================
