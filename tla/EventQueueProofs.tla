-------------------------- MODULE EventQueueProofs --------------------------
(***************************************************************************)
(* Theorems about EventQueue, for rings of any size, any finite number of  *)
(* readers and any number of events.                                       *)
(***************************************************************************)
EXTENDS EventQueue, BasicLemmas

-----------------------------------------------------------------------------
(* The invariant *)

\* The events in the ring, the oldest first.
Events == Ring(Size, buffer, tail, head)

\* Where the readers are: in one list at most, and nobody but the current process is in the
\* middle of a step.  Who waits is in process_wait, and who is on its way into it is in a
\* list already; interrupts are blocked in calls only.
PlaceInv ==
  /\ IsInjective(waiting) /\ IsInjective(ready)
  /\ Range(waiting) \cap Range(ready) = {}
  /\ \A r \in Reader : r # current => pc[r] \in {"user", "test"}
  /\ \A r \in Range(waiting) : pc[r] = IF r = current THEN "switch" ELSE "test"
  /\ current # Idle =>
       (pc[current] = "switch" <=> current \in Range(waiting) \cup Range(ready))
  /\ masked => current # Idle /\ pc[current] # "user"

\* The locals of the readers: a call asks for an event at least, reads no more than it asks
\* for, and waits when it is blocking and has read nothing.
CallInv ==
  \A r \in Reader :
    /\ left[r] + total[r] <= MaxRequest
    /\ pc[r] # "user" => left[r] + total[r] > 0
    /\ pc[r] \in {"push", "switch", "copy", "advance"} => left[r] > 0
    /\ pc[r] \in {"push", "switch"} \/ r \in Range(waiting) => blocking[r] /\ total[r] = 0

\* The slots between tail and head hold events; the one being read stays at the tail.
RingInv ==
  /\ Events \in Seq(Event)
  /\ At("copy") \/ At("advance") => head # tail
  /\ At("advance") => copied[current] = buffer[tail]

\* The readers under way that will take an event before they wait or return: as long as some
\* reader waits there is one for each event, since every post has woken one, and each event
\* that is read was read by one of them or by somebody who takes more than one.
Hungry == {q \in Reader : /\ pc[q] # "user" /\ total[q] = 0
                          /\ q \in Range(ready) \/ (q = current /\ q \notin Range(waiting))}
WakeInv ==
  /\ At("push") => head = tail \/ missed
  /\ waiting # << >> /\ ~missed => Len(Events) <= Cardinality(Hungry)

QInv == TypeOK /\ PlaceInv /\ CallInv /\ RingInv /\ WakeInv

\* With one reader: when it is about to wait interrupts are still blocked, and if it has been
\* waiting an event has woken it.
SoleInv ==
  SoleReader => \A r \in Reader :
    /\ pc[r] \in {"push", "switch"} => masked /\ head = tail
    /\ pc[r] = "switch" => waiting # << >>
    /\ waiting # << >> => head = tail
    /\ pc[r] = "test" /\ waiting = << >> /\ blocking[r] /\ total[r] = 0 => masked \/ head # tail

-----------------------------------------------------------------------------
(* Lists and rings *)

\* The values of the constants.
LEMMA SizeFacts ==
  /\ Size \in Nat \ {0, 1} /\ MaxRequest \in Nat /\ MaxPosts \in Nat
  /\ Event \subseteq Nat /\ Idle \notin Reader /\ IsFiniteSet(Reader) /\ Reader # {}
BY QueueAssumption DEF Event, Idle

\* The end of process_switch takes the next process off the list it is given.
LEMMA DispatchFacts ==
  ASSUME NEW L \in Seq(Reader), IsInjective(L), Dispatch(L)
  PROVE  /\ current' \in Reader \cup {Idle} /\ ready' \in Seq(Reader) /\ masked' = FALSE
         /\ IsInjective(ready') /\ current' \notin Range(ready')
         /\ Range(L) = Range(ready') \cup ({current'} \ {Idle})
<1>1. CASE L = << >>
  <2>1. Range(L) = {}
    BY <1>1 DEF Range
  <2> QED BY <1>1, <2>1, SizeFacts DEF Dispatch
<1>2. CASE L # << >>
  <2>1. /\ Tail(L) \in Seq(Reader) /\ Head(L) \in Range(L) /\ IsInjective(Tail(L))
        /\ Range(Tail(L)) = Range(L) \ {Head(L)}
    BY <1>2, TailNodes
  <2>2. Range(L) \subseteq Reader
    BY DEF Range
  <2> QED BY <1>2, <2>1, <2>2, SizeFacts DEF Dispatch
<1> QED BY <1>1, <1>2

\* The events in the ring, as a sequence.
LEMMA EventsFacts ==
  ASSUME TypeOK
  PROVE  /\ Events \in Seq(Event \cup {0}) /\ Len(Events) \in Nat
         /\ Len(Events) = (head - tail) % Size
         /\ Events = << >> <=> head = tail
<1>1. RingFacts(Size, Event \cup {0}, buffer, tail, head)
  BY SizeFacts, RingSeq DEF TypeOK, Slot
<1> QED BY <1>1 DEF RingFacts, Events

\* A post that does not find the ring full appends its event, a read takes the oldest.
LEMMA EventsPut ==
  ASSUME TypeOK, ~Full, posted < MaxPosts, buffer' = [buffer EXCEPT ![head] = posted + 1],
         head' = Succ(head), tail' = tail
  PROVE  /\ Events' = Append(Events, posted + 1) /\ head' \in Slot
         /\ Len(Events) < Size - 1
<1> DEFINE n == (head + 1) % Size
           v == posted + 1
           D == Event \cup {0}
<1>1. v \in D
  BY SizeFacts DEF TypeOK, Event
<1>2. /\ buffer \in [0..(Size - 1) -> D] /\ Size \in Nat \ {0, 1}
      /\ head \in 0..(Size - 1) /\ tail \in 0..(Size - 1) /\ (head + 1) % Size # tail
  BY SizeFacts DEF TypeOK, Slot, Full, Succ
<1>3. Ring(Size, [buffer EXCEPT ![head] = v], tail, (head + 1) % Size)
        = Append(Ring(Size, buffer, tail, head), v)
  <2> HIDE DEF v, D
  <2>1. PutFacts(Size, buffer, tail, head, v)
    BY <1>1, <1>2, RingPut
  <2> QED BY <2>1, Zenon DEF PutFacts
<1>4. n \in Slot
  BY <1>2, RingSucc DEF Slot
<1>5. head' = n /\ n = (head + 1) % Size
  BY DEF Succ
<1>6. n = IF head + 1 = Size THEN 0 ELSE head + 1
  BY <1>2, RingSucc
<1> DEFINE k == (head - tail) % Size
<1>7. k = IF head >= tail THEN head - tail ELSE head - tail + Size
  BY <1>2, RingLength
<1>8. Len(Events) = k
  BY EventsFacts
<1> HIDE DEF n, k
<1>9. k < Size - 1
  BY <1>2, <1>5, <1>6, <1>7
<1> QED BY <1>3, <1>4, <1>5, <1>8, <1>9 DEF Events

\* Taking an event from the ring takes the first of the sequence.
LEMMA EventsGet ==
  ASSUME TypeOK, head # tail, tail' = Succ(tail), head' = head, buffer' = buffer
  PROVE  /\ Events # << >> /\ Head(Events) = buffer[tail]
         /\ Events' = Tail(Events) /\ tail' \in Slot
<1> DEFINE n == (tail + 1) % Size
<1>1. /\ buffer \in [0..(Size - 1) -> Event \cup {0}] /\ Size \in Nat \ {0, 1}
      /\ head \in 0..(Size - 1) /\ tail \in 0..(Size - 1)
  BY SizeFacts DEF TypeOK, Slot
<1>2. /\ Ring(Size, buffer, tail, head) # << >>
      /\ Head(Ring(Size, buffer, tail, head)) = buffer[tail]
      /\ Ring(Size, buffer, (tail + 1) % Size, head) = Tail(Ring(Size, buffer, tail, head))
  BY <1>1, RingGet, ZenonT(40)
<1>3. n \in Slot
  BY <1>1, RingSucc DEF Slot
<1>4. tail' = n /\ n = (tail + 1) % Size
  BY DEF Succ
<1> HIDE DEF n
<1> QED BY <1>2, <1>3, <1>4 DEF Events

\* What does not touch the ring leaves its events.
LEMMA EventsSame ==
  ASSUME UNCHANGED <<buffer, head, tail>>
  PROVE  Events' = Events
BY DEF Events

\* Sets of readers are finite: one reader more or less counts for one at most.
LEMMA HungryCounts ==
  ASSUME NEW S \in SUBSET Reader, NEW T \in SUBSET Reader
  PROVE  /\ Cardinality(S) \in Nat
         /\ S \subseteq T => Cardinality(S) <= Cardinality(T)
         /\ \A q : S \subseteq T \cup {q} => Cardinality(S) - 1 <= Cardinality(T)
         /\ \A q : q \notin S /\ S \cup {q} \subseteq T => Cardinality(S) + 1 <= Cardinality(T)
         /\ Cardinality(S) > 0 => S # {}
<1>1. IsFiniteSet(S) /\ IsFiniteSet(T)
  BY SizeFacts, FS_Subset
<1>2. Cardinality(S) \in Nat /\ Cardinality(T) \in Nat
  BY <1>1, FS_CardinalityType
<1>3. S \subseteq T => Cardinality(S) <= Cardinality(T)
  BY <1>1, FS_Subset
<1>4. ASSUME NEW q, S \subseteq T \cup {q} PROVE Cardinality(S) - 1 <= Cardinality(T)
  <2>1. IsFiniteSet(T \cup {q}) /\ Cardinality(T \cup {q}) <= Cardinality(T) + 1
    <3>1. /\ IsFiniteSet(T \cup {q})
          /\ Cardinality(T \cup {q}) = IF q \in T THEN Cardinality(T) ELSE Cardinality(T) + 1
      BY <1>1, FS_AddElement
    <3> QED BY <1>2, <3>1
  <2>2. Cardinality(S) <= Cardinality(T \cup {q})
    BY <1>4, <2>1, FS_Subset
  <2>3. Cardinality(T \cup {q}) \in Nat
    BY <2>1, FS_CardinalityType
  <2> QED BY <1>2, <2>1, <2>2, <2>3
<1>5. ASSUME NEW q, q \notin S, S \cup {q} \subseteq T PROVE Cardinality(S) + 1 <= Cardinality(T)
  <2>1. Cardinality(S \cup {q}) = Cardinality(S) + 1
    BY <1>1, <1>5, FS_AddElement
  <2>2. Cardinality(S \cup {q}) <= Cardinality(T)
    BY <1>1, <1>5, FS_Subset
  <2> QED BY <2>1, <2>2
<1>6. Cardinality(S) > 0 => S # {}
  BY FS_EmptySet
<1> QED BY <1>2, <1>3, <1>4, <1>5, <1>6

-----------------------------------------------------------------------------
(* What the actions do to the lists *)

\* A switch: the processes that were ready, and the one that gives way, are ready or run.
Switch == IdleLoop \/ Yield \/ ReadSwitch
SwitchFacts ==
  /\ current # Idle => pc[current] \in {"user", "switch"}
  /\ current' \in Reader \cup {Idle} /\ ready' \in Seq(Reader) /\ masked' = FALSE
  /\ IsInjective(ready') /\ current' \notin Range(ready')
  /\ Range(ready') \cup ({current'} \ {Idle})
       = Range(ready) \cup {r \in {current} : At("user")}
  /\ pc' = [r \in Reader |-> IF r = current /\ pc[r] = "switch" THEN "test" ELSE pc[r]]
  /\ UNCHANGED <<buffer, head, tail, waiting, lvars, posted, read, missed>>

\* A switch takes the running reader out and the first ready one in.
LEMMA SwitchLists ==
  ASSUME TypeOK, PlaceInv, Switch
  PROVE  SwitchFacts
<1>1. ready \in Seq(Reader) /\ IsInjective(ready)
  BY DEF TypeOK, PlaceInv
<1>2. CASE IdleLoop
  <2>1. Dispatch(ready) /\ ~At("user") /\ pc' = pc /\ current = Idle
    BY <1>2 DEF IdleLoop, At
  <2>2. pc' = [r \in Reader |-> IF r = current /\ pc[r] = "switch" THEN "test" ELSE pc[r]]
    BY <2>1, SizeFacts DEF TypeOK
  <2> QED BY <1>1, <1>2, <2>1, <2>2, DispatchFacts DEF SwitchFacts, IdleLoop
<1>3. CASE Yield
  <2> DEFINE L == Append(ready, current)
  <2>1. Dispatch(L) /\ At("user") /\ pc[current] = "user" /\ pc' = pc /\ current \in Reader
    BY <1>3 DEF Yield, At, TypeOK
  <2>2. current \notin Range(ready)
    BY <2>1 DEF PlaceInv, At
  <2>3. L \in Seq(Reader) /\ IsInjective(L) /\ Range(L) = Range(ready) \cup {current}
    BY <1>1, <2>1, <2>2, AppendNodes
  <2>4. pc' = [r \in Reader |-> IF r = current /\ pc[r] = "switch" THEN "test" ELSE pc[r]]
    BY <2>1 DEF TypeOK, At
  <2> HIDE DEF L
  <2> QED BY <1>3, <2>1, <2>3, <2>4, DispatchFacts DEF SwitchFacts, Yield
<1>4. CASE ReadSwitch
  <2>1. /\ Dispatch(ready) /\ At("switch") /\ ~At("user") /\ current \in Reader
        /\ pc[current] = "switch"
    BY <1>4 DEF ReadSwitch, At, TypeOK
  <2>2. pc' = [r \in Reader |-> IF r = current /\ pc[r] = "switch" THEN "test" ELSE pc[r]]
    BY <1>4, <2>1 DEF TypeOK, At, ReadSwitch, Goto
  <2> QED BY <1>1, <1>4, <2>1, <2>2, DispatchFacts DEF SwitchFacts, ReadSwitch
<1> QED BY <1>2, <1>3, <1>4 DEF Switch

\* An event that is stored wakes the first reader that waits.
Stored == event_queue_post /\ ~Full
StoreFacts ==
  /\ Range(waiting) \cap Range(ready) = {}
  /\ waiting' \in Seq(Reader) /\ ready' \in Seq(Reader)
  /\ IsInjective(waiting') /\ IsInjective(ready')
  /\ waiting = << >> => waiting' = << >> /\ ready' = ready
  /\ waiting # << >> => /\ Head(waiting) \in Range(waiting)
                        /\ Range(waiting') = Range(waiting) \ {Head(waiting)}
                        /\ Range(ready') = Range(ready) \cup {Head(waiting)}
  /\ Events' = Append(Events, posted + 1) /\ head' \in Slot /\ posted + 1 \in Event
  /\ Len(Events) < Size - 1 /\ head' # tail
  /\ buffer' = [buffer EXCEPT ![head] = posted + 1] /\ posted' = posted + 1
  /\ missed' = (missed \/ At("push")) /\ ~masked
  /\ UNCHANGED <<tail, current, masked, pc, lvars, read>>

\* A post stores its event or drops it, and wakes the readers.
LEMMA StoreLists ==
  ASSUME TypeOK, PlaceInv, Stored
  PROVE  StoreFacts
<1>1. /\ waiting' = StillWaiting /\ ready' = MadeReady /\ ~Full /\ posted < MaxPosts
      /\ buffer' = [buffer EXCEPT ![head] = posted + 1] /\ posted' = posted + 1
      /\ missed' = (missed \/ At("push")) /\ head' = Succ(head) /\ tail' = tail /\ ~masked
      /\ UNCHANGED <<tail, current, masked, pc, lvars, read>>
  BY DEF Stored, event_queue_post
<1>2. /\ waiting \in Seq(Reader) /\ ready \in Seq(Reader)
      /\ IsInjective(waiting) /\ IsInjective(ready) /\ Range(waiting) \cap Range(ready) = {}
  BY DEF TypeOK, PlaceInv
<1>3. /\ Events' = Append(Events, posted + 1) /\ head' \in Slot /\ posted + 1 \in Event
      /\ Len(Events) < Size - 1 /\ head' # tail
  BY <1>1, EventsPut, SizeFacts DEF TypeOK, Event, Full
<1>4. CASE waiting = << >>
  <2>1. waiting' = waiting /\ ready' = ready
    BY <1>1, <1>4 DEF StillWaiting, MadeReady, Wakes
  <2> QED BY <1>1, <1>2, <1>3, <1>4, <2>1 DEF StoreFacts
<1>5. CASE waiting # << >>
  <2> DEFINE h == Head(waiting)
  <2>1. waiting' = Tail(waiting) /\ ready' = Append(ready, h)
    BY <1>1, <1>5 DEF StillWaiting, MadeReady, Wakes
  <2>2. /\ waiting' \in Seq(Reader) /\ IsInjective(waiting') /\ h \in Range(waiting)
        /\ Range(waiting') = Range(waiting) \ {h}
    BY <1>2, <1>5, <2>1, TailNodes
  <2>3. h \in Reader
    BY <1>2, <1>5
  <2>4. h \notin Range(ready)
    BY <1>2, <2>2
  <2> HIDE DEF h
  <2>5. /\ ready' \in Seq(Reader) /\ IsInjective(ready')
        /\ Range(ready') = Range(ready) \cup {h}
    BY <1>2, <2>1, <2>3, <2>4, AppendNodes
  <2> QED BY <1>1, <1>2, <1>3, <1>5, <2>2, <2>5 DEF StoreFacts, h
<1> QED BY <1>4, <1>5

\* A reader appends itself to the readers that wait.
LEMMA PushList ==
  ASSUME TypeOK, PlaceInv, ReadPush
  PROVE  /\ waiting' \in Seq(Reader) /\ IsInjective(waiting')
         /\ Range(waiting') = Range(waiting) \cup {current}
         /\ current \in Reader /\ current \notin Range(waiting) \cup Range(ready)
         /\ waiting' # << >>
<1>1. /\ current \in Reader /\ pc[current] = "push" /\ waiting' = Append(waiting, current)
      /\ waiting \in Seq(Reader) /\ IsInjective(waiting)
  BY DEF ReadPush, At, TypeOK, PlaceInv
<1>2. current \notin Range(waiting) \cup Range(ready)
  BY <1>1, SizeFacts DEF PlaceInv
<1> QED BY <1>1, <1>2, AppendNodes

\* Every step is a switch, a post, a step of a read that leaves the lists alone but for
\* ReadPush, or changes nothing.
LEMMA Steps ==
  ASSUME [Next]_vars
  PROVE  \/ Switch \/ Stored \/ (event_queue_post /\ Full)
         \/ (\E n \in 1..MaxRequest, b \in BOOLEAN : ReadBegin(n, b))
         \/ ReadTest \/ ReadPush \/ ReadCopy \/ ReadAdvance \/ UNCHANGED vars
<1>1. CASE event_queue_post
  BY <1>1 DEF Stored, Full
<1>2. CASE IdleLoop \/ Yield \/ ReadSwitch
  BY <1>2 DEF Switch
<1>3. CASE ~event_queue_post /\ ~(IdleLoop \/ Yield \/ ReadSwitch)
  BY <1>3, Zenon DEF Next
<1> QED BY <1>1, <1>2, <1>3

\* The steps of the current reader in a call, but for the two of process_wait.
LocalStep ==
  \/ (\E n \in 1..MaxRequest, b \in BOOLEAN : ReadBegin(n, b))
  \/ ReadTest \/ ReadCopy \/ ReadAdvance
LocalFacts ==
  /\ current \in Reader /\ pc[current] \in {"user", "test", "copy", "advance"}
  /\ \E l \in {"user", "test", "push", "copy", "advance"} :
       /\ pc' = [pc EXCEPT ![current] = l]
       /\ l = "user" => ~masked'
  /\ current \notin Range(waiting) \cup Range(ready)
  /\ UNCHANGED <<buffer, head, waiting, ready, current, posted, missed>>

\* The steps of a reader that neither switch nor touch the lists.
LEMMA LocalSteps ==
  ASSUME TypeOK, PlaceInv, LocalStep
  PROVE  LocalFacts
<1>1. CASE \E n \in 1..MaxRequest, b \in BOOLEAN : ReadBegin(n, b)
  <2>1. PICK n \in 1..MaxRequest, b \in BOOLEAN : ReadBegin(n, b)
    BY <1>1
  <2>2. /\ At("user") /\ Goto("test")
        /\ UNCHANGED <<buffer, head, waiting, ready, current, posted, missed>>
    BY <2>1 DEF ReadBegin
  <2> QED BY <2>2 DEF LocalFacts, At, Goto, TypeOK, PlaceInv
<1>2. CASE ReadTest
  BY <1>2 DEF ReadTest, LocalFacts, At, Goto, TypeOK, PlaceInv
<1>3. CASE ReadCopy
  BY <1>3 DEF ReadCopy, LocalFacts, At, Goto, TypeOK, PlaceInv
<1>4. CASE ReadAdvance
  BY <1>4 DEF ReadAdvance, LocalFacts, At, Goto, TypeOK, PlaceInv
<1> QED BY <1>1, <1>2, <1>3, <1>4 DEF LocalStep

-----------------------------------------------------------------------------
(* Each part of the invariant is kept *)

\* Every step keeps the types.
LEMMA TypeStep ==
  ASSUME QInv, [Next]_vars
  PROVE  TypeOK'
<1> USE SizeFacts DEF QInv
<1>1. CASE Switch
  <2>1. SwitchFacts
    BY <1>1, SwitchLists
  <2> QED BY <2>1 DEF SwitchFacts, TypeOK, lvars
<1>2. CASE Stored
  <2>1. StoreFacts
    BY <1>2, StoreLists
  <2>2. posted < MaxPosts
    BY <1>2 DEF Stored, event_queue_post
  <2> QED BY <2>1, <2>2, SMTT(20) DEF StoreFacts, TypeOK, lvars
<1>3. CASE event_queue_post /\ Full
  BY <1>3 DEF event_queue_post, TypeOK, lvars
<1>4. CASE \E n \in 1..MaxRequest, b \in BOOLEAN : ReadBegin(n, b)
  <2>1. PICK n \in 1..MaxRequest, b \in BOOLEAN : ReadBegin(n, b)
    BY <1>4
  <2>2. n \in 0..MaxRequest /\ 0 \in 0..MaxRequest
    OBVIOUS
  <2> QED BY <2>1, <2>2 DEF ReadBegin, TypeOK, Goto
<1>5. CASE ReadTest
  BY <1>5 DEF ReadTest, TypeOK, lvars, Goto
<1>6. CASE ReadPush
  BY <1>6, PushList DEF ReadPush, TypeOK, lvars, Goto
<1>7. CASE ReadCopy
  BY <1>7 DEF ReadCopy, TypeOK, Goto, At
<1>8. CASE ReadAdvance
  <2>1. /\ current \in Reader /\ pc[current] = "advance" /\ head # tail
        /\ copied[current] = buffer[tail] /\ left[current] > 0
        /\ left[current] + total[current] <= MaxRequest
    BY <1>8 DEF ReadAdvance, At, TypeOK, RingInv, CallInv
  <2>2. Events # << >> /\ Head(Events) = buffer[tail] /\ tail' \in Slot
    BY <1>8, <2>1, EventsGet DEF ReadAdvance
  <2>3. copied[current] \in Event
    BY <2>1, <2>2 DEF RingInv
  <2>4. left[current] - 1 \in 0..MaxRequest /\ total[current] + 1 \in 0..MaxRequest
    BY <2>1 DEF TypeOK
  <2> QED BY <1>8, <2>1, <2>2, <2>3, <2>4, SMTT(20) DEF ReadAdvance, TypeOK, Goto
<1>9. CASE UNCHANGED vars
  BY <1>9 DEF vars, lvars, TypeOK
<1> QED BY <1>1, <1>2, <1>3, <1>4, <1>5, <1>6, <1>7, <1>8, <1>9, Steps

\* Every step keeps a reader in one place.
LEMMA PlaceStep ==
  ASSUME QInv, [Next]_vars
  PROVE  PlaceInv'
<1> USE SizeFacts DEF QInv
<1>1. CASE Switch
  <2>1. SwitchFacts
    BY <1>1, SwitchLists
  <2>2. Range(waiting) \subseteq Reader /\ Range(ready) \subseteq Reader
    BY DEF TypeOK, Range
  <2>3. /\ Range(ready') \cap Range(waiting) = {} /\ current' \notin Range(waiting)
        /\ current' \in Reader \cup {Idle}
    BY <2>1, <2>2 DEF SwitchFacts, PlaceInv, At
  <2>4. \A r \in Reader : /\ pc'[r] \in {"user", "test"}
                          /\ r \in Range(waiting) => pc'[r] = "test"
    BY <2>1 DEF SwitchFacts, PlaceInv
  <2> QED BY <2>1, <2>2, <2>3, <2>4 DEF SwitchFacts, PlaceInv
<1>2. CASE Stored
  <2>1. StoreFacts
    BY <1>2, StoreLists
  <2>2. Range(<< >>) = {}
    BY DEF Range
  <2>3. Range(waiting') \subseteq Range(waiting)
        /\ Range(waiting') \cap Range(ready') = {}
        /\ Range(waiting') \cup Range(ready') = Range(waiting) \cup Range(ready)
    BY <2>1, <2>2 DEF StoreFacts
  <2> QED BY <2>1, <2>3 DEF StoreFacts, PlaceInv
<1>3. CASE (event_queue_post /\ Full) \/ UNCHANGED vars
  BY <1>3 DEF event_queue_post, vars, PlaceInv
<1>4. CASE LocalStep
  <2>1. LocalFacts
    BY <1>4, LocalSteps
  <2> QED BY <2>1 DEF LocalFacts, PlaceInv, TypeOK
<1>5. CASE ReadPush
  BY <1>5, PushList DEF ReadPush, TypeOK, PlaceInv, Goto
<1> QED BY <1>1, <1>2, <1>3, <1>4, <1>5, Steps DEF LocalStep

\* Every step keeps the state of a call in agreement with where its reader is.
LEMMA CallStep ==
  ASSUME QInv, [Next]_vars
  PROVE  CallInv'
<1> USE SizeFacts DEF QInv
<1>1. CASE Switch
  <2>1. SwitchFacts
    BY <1>1, SwitchLists
  <2> QED BY <2>1 DEF SwitchFacts, CallInv, lvars
<1>2. CASE Stored
  <2>1. StoreFacts
    BY <1>2, StoreLists
  <2>2. Range(waiting') \subseteq Range(waiting)
    BY <2>1 DEF StoreFacts, Range
  <2> QED BY <2>1, <2>2 DEF StoreFacts, CallInv, lvars
<1>3. CASE (event_queue_post /\ Full) \/ UNCHANGED vars
  BY <1>3 DEF event_queue_post, vars, lvars, CallInv
<1>4. CASE \E n \in 1..MaxRequest, b \in BOOLEAN : ReadBegin(n, b)
  <2>1. PICK n \in 1..MaxRequest, b \in BOOLEAN : ReadBegin(n, b)
    BY <1>4
  <2>2. LocalFacts
    BY <1>4, LocalSteps DEF LocalStep
  <2> QED BY <2>1, <2>2 DEF ReadBegin, TypeOK, Goto, CallInv, LocalFacts
<1>5. CASE ReadTest
  BY <1>5 DEF ReadTest, TypeOK, CallInv, lvars, Goto, At, Waits
<1>6. CASE ReadPush
  BY <1>6, PushList DEF ReadPush, TypeOK, CallInv, lvars, Goto, At
<1>7. CASE ReadCopy
  BY <1>7 DEF ReadCopy, TypeOK, CallInv, Goto, At
<1>8. CASE ReadAdvance
  <2>1. LocalFacts
    BY <1>8, LocalSteps DEF LocalStep
  <2>2. /\ left[current] \in Nat /\ total[current] \in Nat
        /\ left' = [left EXCEPT ![current] = @ - 1]
        /\ total' = [total EXCEPT ![current] = @ + 1]
        /\ pc' = [pc EXCEPT ![current] = "test"] /\ blocking' = blocking
    BY <1>8, <2>1 DEF ReadAdvance, TypeOK, Goto, LocalFacts
  <2>3. /\ left'[current] + total'[current] = left[current] + total[current]
        /\ left'[current] + total'[current] <= MaxRequest
        /\ left'[current] + total'[current] > 0 /\ pc'[current] = "test"
        /\ current \notin Range(waiting')
    BY <1>8, <2>1, <2>2 DEF TypeOK, CallInv, LocalFacts, ReadAdvance, At
  <2>4. \A r \in Reader \ {current} : /\ left'[r] = left[r] /\ total'[r] = total[r]
                                      /\ pc'[r] = pc[r] /\ blocking'[r] = blocking[r]
                                      /\ (r \in Range(waiting') <=> r \in Range(waiting))
    BY <2>1, <2>2 DEF TypeOK, LocalFacts
  <2> QED BY <2>3, <2>4 DEF CallInv
<1> QED BY <1>1, <1>2, <1>3, <1>4, <1>5, <1>6, <1>7, <1>8, Steps

\* Every step keeps the readers asleep only beside an empty ring, or somebody awake.
LEMMA RingStep ==
  ASSUME QInv, [Next]_vars
  PROVE  RingInv'
<1> USE SizeFacts DEF QInv
<1>1. CASE Switch
  <2>1. SwitchFacts
    BY <1>1, SwitchLists
  <2>2. Events' = Events
    BY <2>1, EventsSame DEF SwitchFacts
  <2>3. current' \in Reader => pc'[current'] \in {"user", "test"}
    BY <2>1 DEF SwitchFacts, PlaceInv
  <2> QED BY <2>1, <2>2, <2>3 DEF SwitchFacts, RingInv, At
<1>2. CASE Stored
  <2>1. StoreFacts
    BY <1>2, StoreLists
  <2>2. Events' \in Seq(Event)
    BY <2>1 DEF StoreFacts, RingInv
  <2>3. head' # tail'
    BY <1>2 DEF Stored, event_queue_post, Full
  <2>4. head # tail => buffer'[tail] = buffer[tail]
    BY <2>1 DEF StoreFacts, TypeOK
  <2> QED BY <2>1, <2>2, <2>3, <2>4 DEF StoreFacts, RingInv, At, lvars
<1>3. CASE (event_queue_post /\ Full) \/ UNCHANGED vars
  BY <1>3, EventsSame DEF event_queue_post, vars, lvars, RingInv, At
<1>4. CASE \E n \in 1..MaxRequest, b \in BOOLEAN : ReadBegin(n, b)
  <2>1. PICK n \in 1..MaxRequest, b \in BOOLEAN : ReadBegin(n, b)
    BY <1>4
  <2> QED BY <2>1, EventsSame DEF ReadBegin, TypeOK, Goto, RingInv, At
<1>5. CASE ReadTest
  BY <1>5, EventsSame DEF ReadTest, TypeOK, RingInv, Goto, At
<1>6. CASE ReadPush
  BY <1>6, EventsSame DEF ReadPush, TypeOK, RingInv, Goto, At
<1>7. CASE ReadCopy
  BY <1>7, EventsSame DEF ReadCopy, TypeOK, RingInv, Goto, At
<1>8. CASE ReadAdvance
  <2>1. Events # << >> /\ Events' = Tail(Events)
    BY <1>8, EventsGet DEF ReadAdvance, RingInv
  <2>2. Events' \in Seq(Event)
    BY <2>1 DEF RingInv
  <2> QED BY <1>8, <2>2 DEF ReadAdvance, TypeOK, RingInv, Goto, At
<1> QED BY <1>1, <1>2, <1>3, <1>4, <1>5, <1>6, <1>7, <1>8, Steps

\* A step keeps WakeInv if it changes the events and the hungry readers alike.
LEMMA WakeStep ==
  ASSUME QInv, [Next]_vars
  PROVE  WakeInv'
<1> USE SizeFacts DEF QInv
<1> DEFINE n == Len(Events)
           c == Cardinality(Hungry)
<1>0. /\ Events \in Seq(Event) /\ n \in Nat /\ (n = 0 <=> head = tail)
      /\ Hungry \in SUBSET Reader /\ Hungry' \in SUBSET Reader
      /\ c \in Nat /\ Cardinality(Hungry') \in Nat
  <2>1. Hungry \in SUBSET Reader /\ Hungry' \in SUBSET Reader
    BY DEF Hungry
  <2> QED BY <2>1, EventsFacts, HungryCounts DEF RingInv
<1>1. ASSUME UNCHANGED <<waiting, missed>>, Events' = Events, Hungry \subseteq Hungry',
             At("push")' => head' = tail' \/ missed'
      PROVE  WakeInv'
  <2>1. c <= Cardinality(Hungry')
    BY <1>0, <1>1, HungryCounts
  <2> HIDE DEF c
  <2>2. waiting' # << >> /\ ~missed' => n <= c
    BY <1>1 DEF WakeInv, n, c
  <2> QED BY <1>0, <1>1, <2>1, <2>2 DEF WakeInv
<1>2. CASE Switch
  <2>1. SwitchFacts
    BY <1>2, SwitchLists
  <2>2. Events' = Events
    BY <2>1, EventsSame DEF SwitchFacts
  <2>3. current' \in Reader => pc'[current'] \in {"user", "test"}
    BY <2>1 DEF SwitchFacts, PlaceInv
  <2>4. Hungry \subseteq Hungry'
    <3> SUFFICES ASSUME NEW q \in Hungry PROVE q \in Hungry'
      OBVIOUS
    <3>1. q \in Reader /\ pc[q] # "user" /\ total[q] = 0
          /\ (q \in Range(ready) \/ (q = current /\ q \notin Range(waiting)))
      BY DEF Hungry
    <3>2. q \in Range(ready)
      BY <2>1, <3>1 DEF SwitchFacts, PlaceInv
    <3>3. q \notin Range(waiting)
      BY <3>2 DEF PlaceInv
    <3>4. pc'[q] # "user" /\ total'[q] = 0
      BY <2>1, <3>1 DEF SwitchFacts, lvars
    <3> QED BY <2>1, <3>1, <3>2, <3>3, <3>4 DEF SwitchFacts, Hungry
  <2>5. ~At("push")'
    BY <2>1, <2>3 DEF SwitchFacts, At
  <2> QED BY <1>1, <2>1, <2>2, <2>4, <2>5 DEF SwitchFacts
<1>3. CASE Stored
  <2>1. StoreFacts
    BY <1>3, StoreLists
  <2>2. At("push")' => missed'
    BY <2>1 DEF StoreFacts, At
  <2>3. ASSUME waiting' # << >>, ~missed' PROVE Len(Events') <= Cardinality(Hungry')
    <3> DEFINE h == Head(waiting)
    <3>1. waiting # << >> /\ ~missed
      BY <2>1, <2>3 DEF StoreFacts
    <3>2. h \in Range(waiting) /\ h \in Reader /\ h \notin Range(ready)
      <4>1. h \in Range(waiting) /\ Range(waiting) \cap Range(ready) = {}
        BY <2>1, <3>1 DEF StoreFacts
      <4>2. h \in Reader
        BY <3>1 DEF TypeOK
      <4> HIDE DEF h
      <4> QED BY <4>1, <4>2
    <3>3. h \notin Hungry
      BY <3>2 DEF Hungry
    <3>4. pc[h] # "user" /\ total[h] = 0
      BY <3>2 DEF PlaceInv, CallInv
    <3>5. Hungry \cup {h} \subseteq Hungry'
      BY <2>1, <3>1, <3>2, <3>4 DEF StoreFacts, Hungry, lvars
    <3>6. c + 1 <= Cardinality(Hungry')
      BY <1>0, <3>3, <3>5, HungryCounts
    <3>7. Len(Events') = n + 1
      BY <1>0, <2>1 DEF StoreFacts
    <3>8. n <= c
      BY <3>1 DEF WakeInv
    <3> HIDE DEF n, c
    <3> QED BY <1>0, <3>6, <3>7, <3>8
  <2> QED BY <2>2, <2>3 DEF WakeInv
<1>4. CASE event_queue_post /\ Full
  <2>1. Events' = Events /\ Hungry' = Hungry /\ At("push")' = At("push")
    BY <1>4, EventsSame DEF event_queue_post, Hungry, lvars, At
  <2> QED BY <1>1, <1>4, <2>1 DEF event_queue_post, WakeInv
<1>5. CASE \E k \in 1..MaxRequest, b \in BOOLEAN : ReadBegin(k, b)
  <2>1. PICK k \in 1..MaxRequest, b \in BOOLEAN : ReadBegin(k, b)
    BY <1>5
  <2>2. Events' = Events
    BY <2>1, EventsSame DEF ReadBegin
  <2>3. Hungry \subseteq Hungry' /\ ~At("push")'
    BY <2>1 DEF ReadBegin, TypeOK, Hungry, Goto, At
  <2> QED BY <1>1, <2>1, <2>2, <2>3 DEF ReadBegin
<1>6. CASE ReadTest
  <2>1. Events' = Events
    BY <1>6, EventsSame DEF ReadTest
  <2>2. At("push")' => head' = tail'
    BY <1>6 DEF ReadTest, TypeOK, Goto, At
  <2>3. CASE pc'[current] = "user"
    <3>1. n = 0 \/ current \notin Hungry
      BY <1>0, <1>6, <2>3 DEF ReadTest, TypeOK, Goto, At, CallInv, Hungry
    <3>2. current \notin Hungry => Hungry \subseteq Hungry'
      BY <1>6 DEF ReadTest, TypeOK, Goto, At, Hungry, lvars
    <3>3. n = 0 => WakeInv'
      BY <1>0, <1>6, <2>1, <2>2 DEF WakeInv, ReadTest
    <3> QED BY <1>1, <1>6, <2>1, <2>2, <3>1, <3>2, <3>3 DEF ReadTest
  <2>4. CASE pc'[current] # "user"
    <3>1. Hungry \subseteq Hungry'
      BY <1>6, <2>4 DEF ReadTest, TypeOK, Goto, At, Hungry, lvars
    <3> QED BY <1>1, <1>6, <2>1, <2>2, <3>1 DEF ReadTest
  <2> QED BY <2>3, <2>4
<1>7. CASE ReadPush
  <2>1. Events' = Events /\ ~At("push")'
    BY <1>7, EventsSame DEF ReadPush, At, Goto, TypeOK
  <2>2. n = 0 \/ missed'
    BY <1>0, <1>7 DEF ReadPush, WakeInv
  <2> QED BY <1>0, <2>1, <2>2 DEF WakeInv
<1>8. CASE ReadCopy
  <2>1. Events' = Events /\ ~At("push")'
    BY <1>8, EventsSame DEF ReadCopy, At, Goto, TypeOK
  <2>2. Hungry \subseteq Hungry'
    BY <1>8 DEF ReadCopy, TypeOK, Goto, At, Hungry
  <2> QED BY <1>1, <1>8, <2>1, <2>2 DEF ReadCopy
<1>9. CASE ReadAdvance
  <2>1. Events # << >> /\ Events' = Tail(Events)
    BY <1>9, EventsGet DEF ReadAdvance, RingInv
  <2>2. Len(Events') = n - 1
    BY <1>0, <2>1
  <2>3. Hungry \subseteq Hungry' \cup {current} /\ ~At("push")'
    BY <1>9 DEF ReadAdvance, TypeOK, Goto, At, Hungry
  <2>4. c - 1 <= Cardinality(Hungry')
    BY <1>0, <2>3, HungryCounts
  <2>5. waiting' # << >> /\ ~missed' => n <= c
    BY <1>9 DEF ReadAdvance, WakeInv
  <2> HIDE DEF n, c
  <2> QED BY <1>0, <2>2, <2>3, <2>4, <2>5 DEF WakeInv
<1>10. CASE UNCHANGED vars
  <2>1. Events' = Events /\ Hungry' = Hungry /\ At("push")' = At("push")
    BY <1>10, EventsSame DEF vars, Hungry, lvars, At
  <2> QED BY <1>1, <1>10, <2>1 DEF vars, WakeInv
<1> QED BY <1>2, <1>3, <1>4, <1>5, <1>6, <1>7, <1>8, <1>9, <1>10, Steps

-----------------------------------------------------------------------------
(* The theorems *)

\* The invariant holds of the empty queue.
LEMMA QInit ==
  ASSUME Init
  PROVE  QInv
<1> USE SizeFacts DEF Init
<1>1. /\ ready \in [1..Cardinality(Reader) -> Reader]
      /\ \A i, j \in 1..Cardinality(Reader) : i # j => ready[i] # ready[j]
      /\ Cardinality(Reader) \in Nat
  BY FS_CardinalityType DEF SetToSeqs
<1>2. ready \in Seq(Reader) /\ IsInjective(ready)
  BY <1>1 DEF IsInjective
<1>3. Range(waiting) = {} /\ IsInjective(waiting) /\ 0 \in Slot
  BY DEF Range, IsInjective, Slot
<1>4. TypeOK
  <2>0. << >> \in Seq(Reader) /\ << >> \in Seq(Event)
    OBVIOUS
  <2>1. /\ buffer \in [Slot -> Event \cup {0}] /\ head \in Slot /\ tail \in Slot
        /\ waiting \in Seq(Reader) /\ ready \in Seq(Reader)
        /\ current \in Reader \cup {Idle} /\ masked \in BOOLEAN
    BY <1>2, <1>3, <2>0
  <2>2. /\ pc \in [Reader -> {"user", "test", "push", "switch", "copy", "advance"}]
        /\ left \in [Reader -> 0..MaxRequest] /\ total \in [Reader -> 0..MaxRequest]
        /\ blocking \in [Reader -> BOOLEAN] /\ copied \in [Reader -> Event \cup {0}]
    OBVIOUS
  <2>3. posted \in 0..MaxPosts /\ read \in Seq(Event) /\ missed \in BOOLEAN
    <3>1. 0 \in 0..MaxPosts
      OBVIOUS
    <3> QED BY <2>0, <3>1, Zenon
  <2> QED BY <2>1, <2>2, <2>3, Zenon DEF TypeOK
<1>5. Events = << >>
  BY <1>4, EventsFacts
<1> QED BY <1>2, <1>3, <1>4, <1>5 DEF QInv, PlaceInv, CallInv, RingInv, WakeInv, At

\* The invariant is inductive.
LEMMA QStep ==
  ASSUME QInv, [Next]_vars
  PROVE  QInv'
BY TypeStep, PlaceStep, CallStep, RingStep, WakeStep DEF QInv

\* The inductive invariant of the event queue: where the readers are, what their calls have
\* yet to do, what the ring holds, and who has been woken for it.
THEOREM EventQueueInv == Spec => []QInv
<1>1. Init => QInv
  BY QInit
<1>2. QInv /\ [Next]_vars => QInv'
  BY QStep
<1> QED BY <1>1, <1>2, PTL DEF Spec

\* A reader is in one list at most, and the running one is in a list only inside process_wait,
\* where event_queue_post may already have moved it from the one to the other.
THEOREM OneQueueHolds == Spec => []OneQueue
<1>1. QInv => OneQueue
  <2> SUFFICES ASSUME QInv PROVE OneQueue
    OBVIOUS
  <2>1. /\ waiting \in Seq(Reader) /\ ready \in Seq(Reader)
        /\ IsInjective(waiting) /\ IsInjective(ready) /\ Range(waiting) \cap Range(ready) = {}
    BY DEF QInv, TypeOK, PlaceInv
  <2>2. IsInjective(waiting \o ready)
        /\ Range(waiting \o ready) = Range(waiting) \cup Range(ready)
    BY <2>1, ConcatNodes
  <2> QED BY <2>2 DEF OneQueue, QInv, PlaceInv
<1> QED BY <1>1, EventQueueInv, PTL

\* Nobody sleeps beside an event that nobody is about to read, unless the event came in the
\* window before process_wait.
THEOREM NoLostWakeupHolds == Spec => []NoLostWakeup
<1>1. QInv => NoLostWakeup
  <2> SUFFICES ASSUME QInv, NEW r \in Reader, Asleep(r), head # tail, ~missed
               PROVE  \E q \in Reader : Awake(q)
    BY DEF NoLostWakeup
  <2>1. waiting # << >>
    BY DEF Asleep, Range
  <2>2. Len(Events) <= Cardinality(Hungry) /\ Len(Events) \in Nat /\ Events # << >>
        /\ Events \in Seq(Event)
    BY <2>1, EventsFacts DEF QInv, WakeInv, RingInv
  <2>3. Hungry \in SUBSET Reader /\ Cardinality(Hungry) \in Nat
    BY HungryCounts DEF Hungry
  <2>4. Cardinality(Hungry) > 0
    BY <2>2, <2>3
  <2>5. Hungry # {}
    BY <2>3, <2>4, HungryCounts
  <2> QED BY <2>5 DEF Hungry, Awake
<1> QED BY <1>1, EventQueueInv, PTL

\* With one reader the window of process_wait is harmless: it is never asleep beside an event.
LEMMA SoleStep ==
  ASSUME QInv, SoleInv, [Next]_vars
  PROVE  SoleInv'
<1> SUFFICES ASSUME SoleReader
             PROVE  SoleInv'
  BY DEF SoleInv, SoleReader
<1> DEFINE s == CHOOSE r \in Reader : TRUE
           Alone == /\ pc[s] \in {"push", "switch"} => masked /\ head = tail
                    /\ pc[s] = "switch" => waiting # << >>
                    /\ waiting # << >> => head = tail
                    /\ pc[s] = "test" /\ waiting = << >> /\ blocking[s] /\ total[s] = 0
                         => masked \/ head # tail
<1>1. Reader = {s} /\ s # Idle
  BY SizeFacts DEF SoleReader
<1>2. (Alone => SoleInv) /\ (SoleInv => Alone) /\ (Alone' => SoleInv')
  BY <1>1 DEF SoleInv
<1> HIDE DEF s
<1>3. SUFFICES Alone'
  BY <1>2
<1>4. Alone /\ TypeOK /\ PlaceInv /\ (current = s \/ current = Idle)
  BY <1>1, <1>2 DEF QInv, TypeOK
<1>5. waiting = << >> <=> s \notin Range(waiting)
  BY <1>1, <1>4 DEF TypeOK, Range
<1>6. CASE Switch
  <2>1. SwitchFacts
    BY <1>4, <1>6, SwitchLists
  <2> QED BY <1>1, <1>4, <1>5, <2>1 DEF SwitchFacts, PlaceInv, lvars
<1>7. CASE Stored
  <2>1. StoreFacts
    BY <1>4, <1>7, StoreLists
  <2>2. waiting' = << >> <=> s \notin Range(waiting')
    BY <1>1, <2>1 DEF StoreFacts, Range
  <2>3. waiting' = << >>
    <3>1. CASE waiting = << >>
      BY <2>1, <3>1 DEF StoreFacts
    <3>2. CASE waiting # << >>
      BY <1>1, <1>4, <2>1, <2>2, <3>2 DEF StoreFacts, TypeOK
    <3> QED BY <3>1, <3>2
  <2> QED BY <1>4, <2>1, <2>3 DEF StoreFacts, lvars
<1>8. CASE (event_queue_post /\ Full) \/ UNCHANGED vars
  BY <1>4, <1>8 DEF event_queue_post, vars, lvars
<1>9. CASE \E n \in 1..MaxRequest, b \in BOOLEAN : ReadBegin(n, b)
  <2>1. PICK n \in 1..MaxRequest, b \in BOOLEAN : ReadBegin(n, b)
    BY <1>9
  <2>2. LocalFacts
    BY <1>4, <1>9, LocalSteps DEF LocalStep
  <2> QED BY <1>1, <1>4, <1>5, <2>1, <2>2 DEF ReadBegin, LocalFacts, TypeOK, Goto
<1>10. CASE ReadTest
  <2>1. LocalFacts
    BY <1>4, <1>10, LocalSteps DEF LocalStep
  <2> QED BY <1>1, <1>4, <1>5, <1>10, <2>1 DEF ReadTest, LocalFacts, TypeOK, Goto, Waits, lvars, At
<1>11. CASE ReadPush
  <2>1. waiting' # << >>
    BY <1>4, <1>11, PushList
  <2> QED BY <1>1, <1>4, <1>11, <2>1 DEF ReadPush, TypeOK, Goto, lvars, At
<1>12. CASE ReadCopy
  <2>1. LocalFacts
    BY <1>4, <1>12, LocalSteps DEF LocalStep
  <2> QED BY <1>1, <1>4, <1>5, <1>12, <2>1 DEF ReadCopy, LocalFacts, TypeOK, Goto, At
<1>13. CASE ReadAdvance
  <2>1. LocalFacts
    BY <1>4, <1>13, LocalSteps DEF LocalStep
  <2>2. pc'[s] = "test" /\ total'[s] # 0
    BY <1>1, <1>4, <1>13, <2>1, SizeFacts DEF ReadAdvance, LocalFacts, TypeOK, Goto
  <2>3. waiting' = << >> /\ pc'[s] # "switch" /\ pc'[s] # "push"
    BY <1>4, <1>5, <1>13, <2>1, <2>2 DEF ReadAdvance, LocalFacts, At
  <2> QED BY <2>2, <2>3
<1> QED BY <1>6, <1>7, <1>8, <1>9, <1>10, <1>11, <1>12, <1>13, Steps

\* event_queue_read tests the ring with interrupts unblocked only after a wakeup, and with one
\* reader a wakeup means an event: it never sleeps while the ring holds one.
THEOREM SoleReaderServedHolds == Spec => []SoleReaderServed
<1>1. Init => QInv /\ SoleInv
  <2>1. Init => SoleInv
    BY DEF Init, SoleInv
  <2> QED BY <2>1, QInit
<1>2. QInv /\ SoleInv /\ [Next]_vars => QInv' /\ SoleInv'
  BY QStep, SoleStep
<1>3. SoleInv => SoleReaderServed
  BY DEF SoleInv, SoleReaderServed, Asleep, Range
<1> QED BY <1>1, <1>2, <1>3, PTL DEF Spec

\* The ring buffer implements the queue of the interface: a post that stores its event is a
\* Post, the step that advances tail is a Take, and every other step stutters.
THEOREM IsStreamHolds == Spec => IsStream
<1> DEFINE C == [i \in 1..((head - tail) % Size) |-> buffer[(tail + i - 1) % Size]]
<1>0. C = Events /\ C' = Events'
  BY DEF Events, Ring
<1>1. Init => Stream!SInit
  <2>1. ASSUME Init PROVE Events = << >> /\ read = << >>
    BY <2>1, QInit, EventsFacts DEF QInv, Init
  <2> QED BY <1>0, <2>1 DEF Stream!SInit
<1>2. QInv /\ [Next]_vars => [Stream!SNext]_(Stream!svars)
  <2> SUFFICES ASSUME QInv, [Next]_vars PROVE [Stream!SNext]_(Stream!svars)
    OBVIOUS
  <2> DEFINE Same == Events' = Events /\ read' = read
  <2>1. Same => [Stream!SNext]_(Stream!svars)
    BY <1>0 DEF Stream!svars
  <2>2. CASE Switch
    BY <2>1, <2>2, SwitchLists, EventsSame DEF QInv, SwitchFacts
  <2>3. CASE Stored
    <3>1. StoreFacts
      BY <2>3, StoreLists DEF QInv
    <3>2. Stream!Post(posted + 1) /\ posted + 1 \in Event
      BY <1>0, <3>1 DEF StoreFacts, Stream!Post
    <3>3. \E e \in Event : Stream!Post(e)
      BY <3>2, Zenon DEF Stream!Post
    <3> QED BY <3>3, Zenon DEF Stream!SNext
  <2>4. CASE (event_queue_post /\ Full) \/ UNCHANGED vars
    BY <2>1, <2>4, EventsSame DEF event_queue_post, vars
  <2>5. CASE \E n \in 1..MaxRequest, b \in BOOLEAN : ReadBegin(n, b)
    BY <2>1, <2>5, EventsSame DEF ReadBegin
  <2>6. CASE ReadTest \/ ReadPush \/ ReadCopy
    BY <2>1, <2>6, EventsSame DEF ReadTest, ReadPush, ReadCopy
  <2>7. CASE ReadAdvance
    <3>1. head # tail /\ copied[current] = buffer[tail]
      BY <2>7 DEF QInv, RingInv, ReadAdvance
    <3>2. Events # << >> /\ Head(Events) = buffer[tail] /\ Events' = Tail(Events)
      BY <2>7, <3>1, EventsGet DEF QInv, ReadAdvance
    <3>3. read' = Append(read, Head(Events))
      BY <2>7, <3>1, <3>2 DEF ReadAdvance
    <3>4. Stream!Take
      BY <1>0, <3>2, <3>3 DEF Stream!Take
    <3> QED BY <3>4 DEF Stream!SNext
  <2> QED BY <2>2, <2>3, <2>4, <2>5, <2>6, <2>7, Steps
<1> QED BY <1>1, <1>2, EventQueueInv, PTL DEF Spec, IsStream, Stream!SSpec
=============================================================================
