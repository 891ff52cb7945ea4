------------------------------ MODULE Progress ------------------------------
(***************************************************************************)
(* What must happen in the end, in the parts where code waits: for a drive *)
(* (Ata), for interrupts (Interrupts, Mouse), for a line to be ready       *)
(* (Serial), for the clock (Clock), for a child (Shell), and from power on *)
(* to the kernel (Boot).  As in the other suites a behaviour is one of a   *)
(* single part; the instances are small, since this is about fair          *)
(* behaviours, and no values are interchanged.                             *)
(***************************************************************************)
EXTENDS Integers, Sequences

VARIABLES
  part,   \* the part that runs, chosen at the beginning
  v1, v2, v3, v4, v5, v6, v7, v8, v9, v10, v11, v12, v13, v14   \* its variables; a part with fewer leaves the rest 0

Ata == INSTANCE Ata WITH
  Proc <- {1, 2}, MaxCount <- 2, MaxBlocks <- 2,
  Kinds <- {"read", "write", "packet", "identify"}, MaxJobs <- 2,
  locked <- v1, waitqueue <- v2, at <- v3, job <- v4, got <- v5, result <- v6, drive <- v7,
  disk <- v8, jobs <- v9, mixed <- v10, lost <- v11
Interrupts == INSTANCE Interrupts WITH
  Irq <- {0, 1, 8, 12}, MaxRaised <- 3,
  imr <- v1, irr <- v2, isr <- v3, table <- v4, count <- v5, spurious <- v6, unblocked <- v7,
  serving <- v8, todo <- v9, heard <- v10, raised <- v11
Boot == INSTANCE Boot WITH
  MaxSector <- {9, 18}, MaxHead <- {0, 1}, MaxCylinder <- {79}, KernelSize <- {512, 66000},
  Megabytes <- {17}, Modes <- {{}, {1}, {2, 4}},
  disk <- v1, ch <- v2, dh <- v3, cl <- v4, es <- v5, bx <- v6, sectors_left <- v7,
  memory <- v8, machine <- v9, total_memory <- v10, mode <- v11, stage <- v12, device <- part
Clock == INSTANCE Clock WITH
  ClicksPerSecond <- 4, Thousand <- 4, Word <- 20, Millis <- {3}, MaxLag <- 2,
  clicks <- v1, seconds <- v2, pc <- v3, loaded <- v4, start <- v5, elapsed <- v6, millis <- v7,
  passed <- v8, rolled <- v9, torn <- v10, lag <- v11
Mouse == INSTANCE Mouse WITH
  xres <- 5, yres <- 4, Status <- {9}, Delta <- {1, 254}, MaxPackets <- 2, MaxKeys <- 1,
  MaxReads <- 1,
  kbd <- v1, aux <- v2, lastByte <- v3, todo <- v4, enabled <- v5, config <- v6, state <- v7,
  got <- v8, reader <- v9, copy <- v10, begun <- v11, packets <- v12, keys <- v13, reads <- v14
Serial == INSTANCE Serial WITH
  NPorts <- 1, Bytes <- {1, 2}, MaxLength <- 2, MaxFifo <- 1, MaxSent <- 3,
  lcr <- v1, ier <- v2, divisor <- v3, fifo <- v4, out <- v5, sent <- v6, next <- v7, op <- v8,
  unit <- v9, data <- v10, left <- v11, taken <- v12, cut <- v13
Shell == INSTANCE Shell WITH
  Kinds <- {"kshell", "shell"}, Char <- {"r", "s", " "}, MaxLine <- 4, KernelArgs <- 3,
  UserArgs <- 2, Pid <- {1, 2}, MaxFd <- 2,
  kind <- v1, line <- v2, i <- v3, screen <- v4, pending <- v5, pc <- v6, argv <- v7,
  kids <- v8, fds <- v9, kept <- v10, starts <- v11, shown <- v12, fault <- v13

vars == <<part, v1, v2, v3, v4, v5, v6, v7, v8, v9, v10, v11, v12, v13, v14>>

-----------------------------------------------------------------------------
Init ==
  \/ part = "ata" /\ Ata!Init /\ v12 = 0 /\ v13 = 0 /\ v14 = 0
  \/ part = "irq" /\ Interrupts!Init /\ v12 = 0 /\ v13 = 0 /\ v14 = 0
  \/ part = "boot" /\ Boot!BootInit /\ v13 = 0 /\ v14 = 0
  \/ part = "clock" /\ Clock!Init /\ v12 = 0 /\ v13 = 0 /\ v14 = 0
  \/ part = "mouse" /\ Mouse!Init
  \/ part = "serial" /\ Serial!Init /\ v14 = 0
  \/ part = "shell" /\ Shell!Init /\ v14 = 0

InAta == part = "ata" /\ UNCHANGED <<part, v12, v13, v14>>
InInterrupts == part = "irq" /\ UNCHANGED <<part, v12, v13, v14>>
InBoot == part = "boot" /\ UNCHANGED <<part, v13, v14>>
InClock == part = "clock" /\ UNCHANGED <<part, v12, v13, v14>>
InMouse == part = "mouse" /\ UNCHANGED part
InSerial == part = "serial" /\ UNCHANGED <<part, v14>>
InShell == part = "shell" /\ UNCHANGED <<part, v14>>

Next ==
  \/ InAta /\ Ata!Next
  \/ InInterrupts /\ Interrupts!Next
  \/ InBoot /\ Boot!BootNext
  \/ InClock /\ Clock!Next
  \/ InMouse /\ Mouse!Next
  \/ InSerial /\ Serial!Next
  \/ InShell /\ Shell!Next
  \/ part \in {"ata", "serial"} /\ UNCHANGED vars

ASSUME /\ Ata!AtaAssumption /\ Interrupts!InterruptsAssumption /\ Boot!BootAssumption
       /\ Clock!ClockAssumption /\ Mouse!MouseAssumption /\ Serial!SerialAssumption
       /\ Shell!ShellAssumption

\* Processes are scheduled again and again, the processor takes interrupts that are on, the
\* clock ticks, a line sends what its port holds, and programs end.  Nobody has to type, to move
\* the mouse or to kill a process, and a drive need not answer.
Fairness ==
  /\ \A p \in {1, 2} : WF_vars(InAta /\ Ata!Step(p))
  /\ WF_vars(InInterrupts /\ \E i \in {0, 1, 8, 12} : Interrupts!interrupt_handler(i))
  /\ WF_vars(InInterrupts /\ Interrupts!interrupt_acknowledge)
  /\ WF_vars(InInterrupts /\ Interrupts!Step)
  /\ WF_vars(InBoot /\ Boot!BootNext)
  /\ WF_vars(InClock /\ Clock!clock_interrupt) /\ WF_vars(InClock /\ Clock!Acts)
  /\ WF_vars(InMouse /\ Mouse!InitStep) /\ WF_vars(InMouse /\ Mouse!mouse_interrupt)
  /\ WF_vars(InMouse /\ Mouse!ReadX) /\ WF_vars(InMouse /\ Mouse!ReadY)
  /\ WF_vars(InSerial /\ Serial!serial_write) /\ WF_vars(InSerial /\ Serial!Return)
  /\ WF_vars(InSerial /\ \E p \in Serial!Port : Serial!Transmit(p))
  /\ WF_vars(InShell /\ Shell!Acts)
  /\ \A p \in {1, 2} : WF_vars(InShell /\ Shell!ChildDies(p))

Spec == Init /\ [][Next]_vars /\ Fairness

-----------------------------------------------------------------------------
\* The machine answers in the end.  A command to a drive ends even when the drive never answers
\* (ata_wait gives up); an interrupt that is raised and enabled is served (pic.c); the mouse is
\* set up whatever keys are pressed meanwhile, and its bytes do not pile up (mouse.c); bytes
\* written to a line go out (serial.c); and the kernel is entered (bootblock.S).
DevicesServe ==
  /\ \A p \in {1, 2} : (part = "ata" /\ Ata!Using(p)) ~> (part = "ata" /\ ~Ata!Using(p))
  /\ \A i \in {0, 1, 8, 12} :
       (part = "irq" /\ Interrupts!Due(i)) ~> (part = "irq" /\ ~Interrupts!Due(i))
  /\ (part = "mouse") ~> (part = "mouse" /\ Mouse!SetUp)
  /\ (part = "mouse" /\ Mouse!Unread) ~> (part = "mouse" /\ Mouse!Empty)
  /\ (part = "serial" /\ Serial!Writing) ~> (part = "serial" /\ Serial!Returned)
  /\ (part = "boot") ~> (part = "boot" /\ Boot!Booted)

\* Whoever waits goes on: a process in clock_wait is woken when its time is over, at whatever
\* tick it fell asleep and across the wrap of the seconds (clock.c); and run of either shell
\* comes back to the prompt when programs end, whichever child it has reaped (kshell.c, shell.c).
WaitsEnd ==
  /\ (part = "clock" /\ Clock!Asleep) ~> (part = "clock" /\ Clock!Over)
  /\ (part = "shell" /\ Shell!InRun) ~> (part = "shell" /\ Shell!AtPrompt)
=============================================================================
