------------------------------- MODULE Mouse --------------------------------
(***************************************************************************)
(* The mouse driver, kernel/mouse.c: its start-up dialogue with the PS/2   *)
(* controller, the interrupt handler and mouse_read.                       *)
(*                                                                         *)
(* The controller is external.  It has one data port for the bytes of the  *)
(* keyboard and of the mouse; a byte of the keyboard goes first, and when  *)
(* there is none the port gives the last byte again.  The mouse answers a  *)
(* command with an acknowledgement, and a reset with two bytes more.       *)
(* Devices make bytes at any time, also between two reads of a handler.    *)
(***************************************************************************)
EXTENDS Integers, Sequences, SequencesExt

CONSTANTS
  xres, yres,     \* video_xres, video_yres
  Status, Delta,  \* what the mouse may send: first byte, second and third byte
  MaxPackets,     \* bound: packets
  MaxKeys,        \* bound: bytes of the keyboard
  MaxReads        \* bound: calls of mouse_read

MouseAssumption ==
  /\ {xres, yres} \subseteq 1..65535 /\ Status \cup Delta \subseteq 0..255
  /\ {MaxPackets, MaxKeys, MaxReads} \subseteq Nat

ACK == 250
Packet == {<<s, dx, dy>> : s \in Status, dx \in Delta, dy \in Delta}
Byte(v, from) == [val |-> v, from |-> from]
Sources == {"none", "scan", "config", "answer", "first", "second", "third"}

VARIABLES
  kbd, aux,       \* bytes of the keyboard (and the controller), of the mouse
  lastByte,       \* the byte read last
  todo,           \* what mouse_init has still to do
  enabled,        \* line 44 is enabled
  config,         \* the byte mouse_init took for the configuration
  state,          \* the driver's mouse_state
  got,            \* bytes mouse_interrupt has read so far
  reader,         \* where mouse_read is: "out", "masked", "half"
  copy,           \* what it has copied
  begun,          \* history: the state when it began
  packets, keys, reads

vars == <<kbd, aux, lastByte, todo, enabled, config, state, got, reader, copy, begun, packets, keys,
          reads>>
counts == <<packets, keys, reads>>
readers == <<reader, copy, begun, reads>>

\* mouse_init: command 1 is the reset, 2 and 3 enable the device and its stream.
mouse_init == <<"clear", "get", "read config", "set", "reset", "read", "enable", "read",
                "stream", "read", "register">>

State == [buttons : 0..3, x : 0..(xres - 1), y : 0..(yres - 1)]

TypeOK ==
  /\ \A q \in {kbd, aux, got} : \A i \in DOMAIN q : q[i] \in [val : 0..255, from : Sources]
  /\ Len(got) <= 2 /\ enabled \in BOOLEAN
  /\ state \in State /\ copy \in State
  /\ reader \in {"out", "masked", "half"}

\* Also before the driver a key may have been pressed.
Init ==
  /\ kbd \in {<< >>, <<Byte(30, "scan")>>} /\ aux = << >> /\ lastByte = Byte(0, "none")
  /\ todo = mouse_init /\ enabled = FALSE /\ config = Byte(0, "none")
  /\ state = [buttons |-> 0, x |-> 0, y |-> 0] /\ copy = state /\ begun = state
  /\ got = << >> /\ reader = "out" /\ packets = 0 /\ keys = 0 /\ reads = 0

-----------------------------------------------------------------------------
(* The port *)

Full == kbd # << >> \/ aux # << >>                        \* PS2_STATUS_OBF
Data == IF kbd # << >> THEN Head(kbd) ELSE IF aux # << >> THEN Head(aux) ELSE lastByte
Take ==
  /\ lastByte' = Data
  /\ kbd' = IF kbd # << >> THEN Tail(kbd) ELSE kbd
  /\ aux' = IF kbd = << >> /\ aux # << >> THEN Tail(aux) ELSE aux

Key ==
  /\ keys < MaxKeys /\ keys' = keys + 1 /\ kbd' = Append(kbd, Byte(30, "scan"))
  /\ UNCHANGED <<aux, lastByte, todo, enabled, config, state, got, readers, packets>>

Move(p) ==
  /\ todo = << >> /\ packets < MaxPackets /\ packets' = packets + 1
  /\ aux' = aux \o <<Byte(p[1], "first"), Byte(p[2], "second"), Byte(p[3], "third")>>
  /\ UNCHANGED <<kbd, lastByte, todo, enabled, config, state, got, readers, keys>>

\* The answers of the mouse to ps2_mouse_command.
Answer(cmd) == IF cmd = "reset" THEN <<ACK, 170, 0>> ELSE <<ACK>>

-----------------------------------------------------------------------------
(* mouse_init: ps2_mouse_command reads one answer to each command.  keyboard_init comes after. *)

\* ps2_clear_buffer is done.  Mutant: the status bit is tested the other way round.
Cleared_Full == Full
Cleared == ~Full

InitStep ==
  LET op == Head(todo)
      rest == Tail(todo)
  IN  /\ todo # << >>
      /\ CASE op = "clear" ->
                /\ IF Cleared THEN todo' = rest /\ UNCHANGED <<kbd, aux, lastByte>>
                   ELSE Take /\ todo' = todo
                /\ UNCHANGED <<enabled, config>>
           [] op = "get" ->
                /\ kbd' = Append(kbd, Byte(3, "config")) /\ todo' = rest
                /\ UNCHANGED <<aux, lastByte, enabled, config>>
           [] op \in {"read", "read config"} ->
                /\ Full /\ Take /\ todo' = rest
                /\ config' = IF op = "read" THEN config ELSE Data
                /\ UNCHANGED enabled
           [] op \in {"reset", "enable", "stream"} ->
                /\ aux' = aux \o [i \in DOMAIN Answer(op) |-> Byte(Answer(op)[i], "answer")]
                /\ todo' = rest /\ UNCHANGED <<kbd, lastByte, enabled, config>>
           [] OTHER ->
                /\ todo' = rest /\ enabled' = (op = "register")
                /\ UNCHANGED <<kbd, aux, lastByte, config>>
      /\ UNCHANGED <<state, got, readers, packets, keys>>

\* The keyboard's handler takes its byte; its line is enabled when this driver is ready.
KeyboardInterrupt ==
  /\ todo = << >> /\ kbd # << >> /\ got = << >> /\ Take
  /\ UNCHANGED <<todo, enabled, config, state, got, readers, packets, keys>>

-----------------------------------------------------------------------------
(* mouse_interrupt *)

\* A movement in two's complement, with the sign bit from the status byte.
Movement(m, sign) == IF sign THEN m - 256 ELSE m

\* A coordinate is a uint16_t: it is never negative, and one that wraps is far to the right.
Clamped(v, res) == LET w == v % 65536 IN IF w >= res THEN res - 1 ELSE w

Bit(v, b) == (v \div b) % 2 = 1

Moved(m) ==
  [buttons |-> m[1].val % 4,
   x |-> Clamped(state.x + Movement(m[2].val, Bit(m[1].val, 16)), xres),
   y |-> Clamped(state.y - Movement(m[3].val, Bit(m[1].val, 32)), yres)]

\* One of its three reads; after the last one the state is updated.  No event is posted.
mouse_interrupt ==
  /\ todo = << >> /\ enabled /\ (aux # << >> \/ got # << >>)
  /\ Take
  /\ IF Len(got) = 2 THEN got' = << >> /\ state' = Moved(Append(got, Data))
     ELSE got' = Append(got, Data) /\ state' = state
  /\ UNCHANGED <<todo, enabled, config, readers, packets, keys>>

-----------------------------------------------------------------------------
(* mouse_read: a field at a time, between masking the line and enabling it.  A handler that *)
(* runs finishes first.                                                                     *)

\* Mutant: the line is not masked.
Masked_Not == TRUE
Masked == FALSE
Unmasked == TRUE

ReadBegin ==
  /\ todo = << >> /\ got = << >> /\ reader = "out" /\ reads < MaxReads /\ reads' = reads + 1
  /\ reader' = "masked" /\ enabled' = Masked /\ begun' = state
  /\ UNCHANGED <<kbd, aux, lastByte, todo, config, state, got, copy, packets, keys>>
ReadX ==
  /\ reader = "masked" /\ got = << >> /\ reader' = "half"
  /\ copy' = [copy EXCEPT !.buttons = state.buttons, !.x = state.x]
  /\ UNCHANGED <<kbd, aux, lastByte, todo, enabled, config, state, got, begun, counts>>
ReadY ==
  /\ reader = "half" /\ got = << >> /\ reader' = "out" /\ enabled' = Unmasked
  /\ copy' = [copy EXCEPT !.y = state.y]
  /\ UNCHANGED <<kbd, aux, lastByte, todo, config, state, got, begun, counts>>

Rest == todo = << >> /\ UNCHANGED vars

Next == Key \/ (\E p \in Packet : Move(p)) \/ InitStep \/ KeyboardInterrupt \/ mouse_interrupt
        \/ ReadBegin \/ ReadX \/ ReadY \/ Rest
Spec == Init /\ [][Next]_vars /\ WF_vars(InitStep) /\ WF_vars(mouse_interrupt) /\ WF_vars(ReadX)
        /\ WF_vars(ReadY)

-----------------------------------------------------------------------------
\* What mouse_read returns is a state the mouse was in: "Block interrupts while reading, to
\* avoid inconsistent state" (kernel/mouse.c).
ReadWhole == reader = "out" /\ reads > 0 => copy = begun

SetUp == todo = << >>
Unread == SetUp /\ aux # << >>
Empty == aux = << >> /\ got = << >>
=============================================================================
