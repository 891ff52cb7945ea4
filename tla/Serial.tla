------------------------------- MODULE Serial ------------------------------
(***************************************************************************)
(* The driver of the serial ports, kernel/serial.c.  A call polls the line *)
(* status register and lets no other process run meanwhile.  The ports are *)
(* external: registers 0 and 1 are the divisor while bit 7 of the line     *)
(* control register is set and otherwise the data and interrupt registers; *)
(* a byte written while another waits to be sent replaces it.              *)
(***************************************************************************)
EXTENDS Integers, Sequences

CONSTANTS
  NPorts,      \* entries of serial_ports
  Bytes,       \* bytes on the lines, other than the 3 that serial_init_port writes
  MaxLength,   \* bound: bytes of a call
  MaxFifo,     \* size of the receive buffer of a port
  MaxSent      \* bound: bytes put out by a port when a call begins

SerialAssumption ==
  /\ NPorts \in Nat \ {0} /\ Bytes \subseteq (0..255) \ {3}
  /\ MaxLength \in Nat /\ MaxFifo \in Nat \ {0} /\ MaxSent \in Nat

VARIABLES
  lcr, ier, divisor,     \* registers of each port
  fifo,                  \* bytes received and not read
  out,                   \* the byte that waits to be sent, as a sequence
  sent,                  \* bytes sent on each line
  next,                  \* index of the loop of serial_init
  op, unit, data, left,  \* the call under way, its port, its bytes, how many are left to move
  taken,                 \* history: bytes that serial_write put out on each line
  cut                    \* history: lines on which an initialisation dropped a byte

calls == <<op, unit, data, left>>
regs == <<lcr, ier, divisor, next, cut>>
vars == <<calls, regs, fifo, out, sent, taken>>

Port == 0..(NPorts - 1)
TypeOK ==
  /\ lcr \in [Port -> 0..255] /\ ier \in [Port -> 0..255] /\ divisor \in [Port -> 0..65535]
  /\ next \in 0..NPorts /\ cut \subseteq Port
  /\ op \in {"none", "read", "write"} /\ unit \in Port /\ left \in 0..MaxLength /\ data \in Seq(Bytes)
  /\ \A p \in Port :
       /\ fifo[p] \in Seq(Bytes) /\ Len(fifo[p]) <= MaxFifo
       /\ out[p] \in Seq(Bytes) /\ Len(out[p]) <= 1 /\ sent[p] \in Seq(Bytes \cup {3})

Init ==
  /\ lcr = [p \in Port |-> 0] /\ ier = lcr /\ divisor = [p \in Port |-> 12]
  /\ fifo = [p \in Port |-> <<>>] /\ out = fifo /\ sent = fifo /\ taken = fifo
  /\ next = 0 /\ op = "none" /\ unit = 0 /\ data = <<>> /\ left = 0 /\ cut = {}

\* serial_init_port: the constant for the divisor latch is bit 3 and not bit 7, so the bytes of
\* the divisor go to the data and the interrupt register; the buffers are cleared after that,
\* when the first byte may have been sent.
SERIAL_DLAB_ENABLE == 8
CharLength == 3
Latched == (SERIAL_DLAB_ENABLE \div 128) % 2 = 1
serial_init_port(p) ==
  /\ ier' = [ier EXCEPT ![p] = 0]
  /\ divisor' = [divisor EXCEPT ![p] = IF Latched THEN 3 ELSE @]
  /\ lcr' = [lcr EXCEPT ![p] = CharLength]
  /\ fifo' = [fifo EXCEPT ![p] = <<>>] /\ out' = [out EXCEPT ![p] = <<>>]
  /\ cut' = IF out[p] # <<>> THEN cut \cup {p} ELSE cut
  /\ \/ UNCHANGED sent
     \/ ~Latched /\ sent' = [sent EXCEPT ![p] = Append(@, 3)]
  /\ UNCHANGED <<calls, taken>>

Room(p) == Len(sent[p]) < MaxSent /\ Len(taken[p]) < MaxSent
Idle == next = NPorts /\ op = "none"
serial_init == next < NPorts /\ serial_init_port(next) /\ next' = next + 1
\* At each device_open the port is initialised again.
serial_device_probe(p) == Idle /\ Room(p) /\ serial_init_port(p) /\ UNCHANGED next

\* serial_device_read, which is read_nonblock as well, and serial_device_write.
Begin(o, p, d, n) ==
  /\ Idle /\ op' = o /\ unit' = p /\ data' = d /\ left' = n
  /\ UNCHANGED <<regs, fifo, out, sent, taken>>
serial_device_read(p, n) == Begin("read", p, <<>>, n)
serial_device_write(p, d) == Room(p) /\ Begin("write", p, d, Len(d))

\* serial_read: one byte, once one is there.  Mutant: the loop asks for one byte more.
serial_received == fifo[unit] # <<>>
Wanted == left > 0
serial_read ==
  /\ op = "read" /\ Wanted /\ serial_received
  /\ data' = Append(data, Head(fifo[unit])) /\ fifo' = [fifo EXCEPT ![unit] = Tail(@)]
  /\ left' = left - 1
  /\ UNCHANGED <<regs, op, unit, out, sent, taken>>

\* serial_write: one byte, once the one before is sent.  Mutants: nobody polls, or what is
\* polled is both status bits.
is_transmit_empty_Always == TRUE
is_transmit_empty_Both == out[unit] = <<>> /\ fifo[unit] # <<>>
is_transmit_empty == out[unit] = <<>>
serial_write ==
  /\ op = "write" /\ left > 0 /\ is_transmit_empty
  /\ LET b == data[Len(data) - left + 1]
     IN  out' = [out EXCEPT ![unit] = <<b>>] /\ taken' = [taken EXCEPT ![unit] = Append(@, b)]
  /\ left' = left - 1
  /\ UNCHANGED <<regs, op, unit, data, fifo, sent>>

\* The call returns its length.
Return ==
  /\ op # "none" /\ left = 0 /\ op' = "none" /\ unit' = 0 /\ data' = <<>> /\ UNCHANGED left
  /\ UNCHANGED <<regs, fifo, out, sent, taken>>

\* The ports: a byte leaves; a byte comes in, and is lost when the buffer is full.
Transmit(p) ==
  /\ out[p] # <<>> /\ sent' = [sent EXCEPT ![p] = @ \o out[p]] /\ out' = [out EXCEPT ![p] = <<>>]
  /\ UNCHANGED <<calls, regs, fifo, taken>>
Receive(p, b) ==
  /\ next = NPorts /\ Len(fifo[p]) < MaxFifo /\ fifo' = [fifo EXCEPT ![p] = Append(@, b)]
  /\ UNCHANGED <<calls, regs, out, sent, taken>>

Next ==
  \/ serial_init \/ serial_read \/ serial_write \/ Return
  \/ \E p \in Port :
       \/ serial_device_probe(p) \/ Transmit(p) \/ \E b \in Bytes : Receive(p, b)
       \/ \E n \in 0..MaxLength : serial_device_read(p, n) \/ \E d \in [1..n -> Bytes] : serial_device_write(p, d)

\* A port sends what it holds, and the loops of the driver go on.
Spec ==
  /\ Init /\ [][Next]_vars
  /\ WF_vars(serial_write) /\ WF_vars(Return) /\ \A p \in Port : WF_vars(Transmit(p))

----------------------------------------------------------------------------
\* What serial_write put out is on the line in its order and once, or about to be, but for the
\* 3s of serial_init_port, and unless opening the device cut off a byte (is_transmit_empty).
LineRight ==
  \A p \in Port \ cut : SelectSeq(sent[p], LAMBDA b : b # 3) \o out[p] = taken[p]

Writing == op = "write"
Returned == op = "none"
=============================================================================
