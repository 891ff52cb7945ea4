----------------------------- MODULE Interrupts -----------------------------
(***************************************************************************)
(* Interrupts: kernel/interrupt.c over the two interrupt controllers of    *)
(* kernel/pic.c, and the order in which kernel_main sets drivers up.       *)
(*                                                                         *)
(* The controllers are external: a line that is raised is latched; it is   *)
(* delivered when it is not masked and no line of the same or a higher     *)
(* priority is in service, and stays in service until it is acknowledged.  *)
(* Lines 8 to 15 belong to the second controller, which is line 2 of the   *)
(* first.  The processor takes an interrupt before the next instruction    *)
(* when interrupts are not blocked, so the kernel does not go on before.   *)
(***************************************************************************)
EXTENDS Integers, Sequences, FiniteSets

CONSTANTS
  Irq,         \* the lines that devices are on
  MaxRaised    \* bound: how often devices raise a line

InterruptsAssumption == Irq \subseteq (0..15) \ {2} /\ MaxRaised \in Nat

Line == 0..15
Cascade == 2

VARIABLES
  imr,         \* masked lines
  irr,         \* raised lines
  isr,         \* lines in service
  table,       \* interrupt_handler_table of the lines
  count,       \* interrupt_count
  spurious,    \* interrupt_spurious
  unblocked,   \* the processor takes interrupts
  serving,     \* the line whose handler runs, or none: 16
  todo,        \* what kernel_main has still to do
  heard,       \* history: interrupts that reached their driver
  raised

vars == <<imr, irr, isr, table, count, spurious, unblocked, serving, todo, heard, raised>>
None == 16

-----------------------------------------------------------------------------
(* What kernel_main does next, as far as it touches interrupts: mouse_init, keyboard_init,  *)
(* rtc_init, clock_init and ata_init register a handler and enable its line; processes then *)
(* block and unblock interrupts, and mouse_read masks its line for a moment.                *)

\* Mutant: a line is enabled before its handler is there.
Setup_Enabled(i) == << <<"enable", i>>, <<"register", i>> >>
Setup(i) == << <<"register", i>>, <<"enable", i>> >>

mouse_read == << <<"disable", 12>>, <<"enable", 12>> >>
Startup ==
  Setup(12) \o Setup(1) \o Setup(8) \o Setup(0) \o Setup(14) \o Setup(15)
  \o << <<"block", 0>> >> \o << <<"unblock", 0>> >> \o mouse_read

TypeOK ==
  /\ imr \subseteq Line /\ irr \subseteq Irq /\ isr \subseteq Line
  /\ table \in [Line -> {"unknown", "driver"}]
  /\ count \in [Line -> 0..(MaxRaised + 1)] /\ spurious \in [Line -> 0..255]
  /\ unblocked \in BOOLEAN /\ serving \in Irq \cup {None}
  /\ heard \in [Line -> 0..(MaxRaised + 1)] /\ raised \in 0..MaxRaised
  /\ serving # None => ~unblocked

\* After interrupt_init: the controllers are set up, every line is masked and acknowledged,
\* and interrupts are unblocked.  A device may have raised its line before.
Init ==
  /\ imr = Line /\ isr = {} /\ irr \in SUBSET Irq
  /\ table = [i \in Line |-> "unknown"]
  /\ count = [i \in Line |-> 0] /\ spurious = [i \in Line |-> 0]
  /\ unblocked = TRUE /\ serving = None
  /\ todo = Startup
  /\ heard = [i \in Line |-> 0] /\ raised = 0

-----------------------------------------------------------------------------
(* kernel/pic.c *)

\* Mutant: the line to the second controller stays masked.
pic_enable_Alone(m, i) == m \ {i}
pic_enable(m, i) == m \ (IF i < 8 THEN {i} ELSE {i, Cascade})

pic_disable(m, i) == m \cup {i}

\* Mutant: the second controller is acknowledged, the first is not.
pic_acknowledge_One(s, i) == s \ {i}
pic_acknowledge(s, i) == s \ (IF i >= 8 THEN {i, Cascade} ELSE {i})

(* The controllers *)

\* An interrupt gate (idt in kernelcore.S) blocks interrupts.
Gate == FALSE

\* A line of lower number goes first; those of the second controller go as line 2.
Rank(i) == IF i >= 8 THEN Cascade * 16 + i ELSE i * 16

Deliverable(i) ==
  /\ i \in irr /\ i \notin imr /\ (i >= 8 => Cascade \notin imr)
  /\ \A j \in isr : IF i >= 8 THEN (IF j < 8 THEN j > Cascade ELSE i < j) ELSE i < j

Pending == \E i \in Irq : Deliverable(i)

-----------------------------------------------------------------------------
Raise(i) ==
  /\ raised < MaxRaised /\ raised' = raised + 1
  /\ i \notin irr /\ irr' = irr \cup {i}
  /\ UNCHANGED <<imr, isr, table, count, spurious, unblocked, serving, todo, heard>>

\* The processor takes an interrupt: interrupt_handler calls the handler of the line, which
\* is the driver's or unknown_hardware.
interrupt_handler(i) ==
  /\ unblocked /\ Deliverable(i) /\ \A j \in Irq : Deliverable(j) => Rank(i) <= Rank(j)
  /\ irr' = irr \ {i} /\ isr' = isr \cup (IF i >= 8 THEN {i, Cascade} ELSE {i})
  /\ serving' = i /\ unblocked' = Gate
  /\ IF table[i] = "driver"
       THEN heard' = [heard EXCEPT ![i] = @ + 1] /\ spurious' = spurious
       ELSE spurious' = [spurious EXCEPT ![i] = (@ + 1) % 256] /\ heard' = heard
  /\ UNCHANGED <<imr, table, count, todo, raised>>

\* The rest of interrupt_handler, and the return.
interrupt_acknowledge ==
  /\ serving # None
  /\ isr' = pic_acknowledge(isr, serving) /\ count' = [count EXCEPT ![serving] = @ + 1]
  /\ serving' = None /\ unblocked' = TRUE
  /\ UNCHANGED <<imr, irr, table, spurious, todo, heard, raised>>

\* The next call of the kernel.
Step ==
  LET op == todo[1][1]
      i == todo[1][2]
  IN  /\ todo # << >> /\ serving = None /\ ~(unblocked /\ Pending)
      /\ todo' = Tail(todo)
      /\ imr' = CASE op = "enable" -> pic_enable(imr, i)
                  [] op = "disable" -> pic_disable(imr, i) [] OTHER -> imr
      /\ table' = IF op = "register" THEN [table EXCEPT ![i] = "driver"] ELSE table
      /\ unblocked' = CASE op = "block" -> FALSE [] op = "unblock" -> TRUE [] OTHER -> unblocked
      /\ UNCHANGED <<irr, isr, count, spurious, serving, heard, raised>>

Wait == todo = << >> /\ UNCHANGED vars

Next == (\E i \in Irq : Raise(i) \/ interrupt_handler(i)) \/ interrupt_acknowledge \/ Step \/ Wait

\* The processor takes interrupts, handlers return and the kernel goes on.
Fairness == WF_vars(\E i \in Irq : interrupt_handler(i)) /\ WF_vars(interrupt_acknowledge)
            /\ WF_vars(Step)
Spec == Init /\ [][Next]_vars /\ Fairness

-----------------------------------------------------------------------------
\* Nothing is in service when no handler runs: a line that was not acknowledged would keep
\* those behind it from being delivered (interrupt_handler, pic_acknowledge).
AllAcknowledged == serving = None => isr = {}

\* No interrupt of a driver's line is taken for a spurious one: a line is not enabled before
\* its handler is registered, and interrupts come at any time while drivers are set up.
NoSpurious == \A i \in Line : spurious[i] = 0

\* A line is raised and enabled: it should be served, or masked again.
Due(i) == i \in irr /\ i \notin imr
=============================================================================
