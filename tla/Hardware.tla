------------------------------ MODULE Hardware ------------------------------
(***************************************************************************)
(* The instances of the code next to the machine that TLC checks: Trap,    *)
(* Interrupts, Boot, Clock, Rtc, Keyboard, Mouse, Serial, Console and      *)
(* Graphics twice.  A behaviour is one of a single part, which is chosen   *)
(* at the beginning.  Boot has its own variables, the others share v1, v2, *)
(* ...; a step is one of Boot (BootStep) or leaves those alone.            *)
(***************************************************************************)
EXTENDS Boot

VARIABLES
  v1, v2, v3, v4, v5, v6, v7, v8, v9, v10, v11, v12, v13, v14, v15   \* of the other parts; a part with fewer leaves the rest 0

Trap == INSTANCE Trap WITH
  Proc <- {"b", "p", "q"}, Boot <- "b", Vector <- {14, 48}, Depth <- {80}, ExecDepth <- 30,
  ExecReach <- 40, Reach <- 4, MaxSteps <- 2,
  cpu <- v1, running <- v2, state <- v3, mode <- v4, kstack <- v5, esp <- v6, kstack_ptr <- v7,
  esp0 <- v8, unblocked <- v9, cause <- v10, call <- v11, want <- v12, last <- v13,
  fault <- v14, steps <- v15
Interrupts == INSTANCE Interrupts WITH
  Irq <- {0, 1, 8, 12}, MaxRaised <- 4,
  imr <- v1, irr <- v2, isr <- v3, table <- v4, count <- v5, spurious <- v6, unblocked <- v7,
  serving <- v8, todo <- v9, heard <- v10, raised <- v11
Clock == INSTANCE Clock WITH
  ClicksPerSecond <- 4, Thousand <- 4, Word <- 32, Millis <- {1, 6}, MaxLag <- 2,
  clicks <- v1, seconds <- v2, pc <- v3, loaded <- v4, start <- v5, elapsed <- v6, millis <- v7,
  passed <- v8, rolled <- v9, torn <- v10, lag <- v11
Rtc == INSTANCE Rtc WITH
  Start <- {1972, 1999, 2000, 2001, 2024}, MaxTicks <- 3,
  now <- v1, update <- v2, irq <- v3, address <- v4, pc <- v5, k <- v6, t <- v7, tout <- v8,
  cached_time <- v9, boottime <- v10, fresh <- v11, turned <- v12, ticks <- v13
Keyboard == INSTANCE Keyboard WITH
  Key <- {30, 42, 29, 58, 56, 59, 83}, Extended <- {29, 83}, MaxTyped <- 4,
  held <- v1, codes <- v2, shift_mode <- v3, alt_mode <- v4, ctrl_mode <- v5,
  capslock_mode <- v6, numlock_mode <- v7, expect_extra <- v8, posted <- v9, rebooted <- v10,
  meant <- v11, typed <- v12
Mouse == INSTANCE Mouse WITH
  xres <- 5, yres <- 4, Status <- {9, 24}, Delta <- {1, 254}, MaxPackets <- 2, MaxKeys <- 2,
  MaxReads <- 1,
  kbd <- v1, aux <- v2, lastByte <- v3, todo <- v4, enabled <- v5, config <- v6, state <- v7,
  got <- v8, reader <- v9, copy <- v10, begun <- v11, packets <- v12, keys <- v13, reads <- v14
Serial == INSTANCE Serial WITH
  NPorts <- 1, Bytes <- {1, 2}, MaxLength <- 2, MaxFifo <- 1, MaxSent <- 3,
  lcr <- v1, ier <- v2, divisor <- v3, fifo <- v4, out <- v5, sent <- v6, next <- v7, op <- v8,
  unit <- v9, data <- v10, left <- v11, taken <- v12, cut <- v13
Console == INSTANCE Console WITH
  Con <- {"c", "d"}, XSize <- 3, YSize <- 2, MaxBack <- 1, MaxData <- 2,
  pos <- v1, cell <- v2, outside <- v3, above <- v4, mixed <- v5, undone <- v6
Windows == INSTANCE Graphics WITH
  Width <- 3, Height <- 2, Font <- 2, MaxWin <- 4, Place <- {0, 1}, Reach <- 0, Factor <- 256,
  win <- v1, owned <- v2, drawn <- v3
Drawing == INSTANCE Graphics WITH
  Width <- 6, Height <- 5, Font <- 2, MaxWin <- 2, Place <- {1, 3}, Reach <- 4, Factor <- 256,
  win <- v1, owned <- v2, drawn <- v3

shared == <<v1, v2, v3, v4, v5, v6, v7, v8, v9, v10, v11, v12, v13, v14, v15>>
hardwareVars == <<device, bootVars, shared>>

-----------------------------------------------------------------------------
NothingShared ==
  /\ v1 = 0 /\ v2 = 0 /\ v3 = 0 /\ v4 = 0 /\ v5 = 0 /\ v6 = 0 /\ v7 = 0 /\ v8 = 0
  /\ v9 = 0 /\ v10 = 0 /\ v11 = 0 /\ v12 = 0 /\ v13 = 0 /\ v14 = 0 /\ v15 = 0
HardwareInit ==
  \/ device = "trap" /\ Trap!Init /\ DevicesStart
  \/ device = "irq" /\ Interrupts!Init /\ DevicesStart /\ v12 = 0 /\ v13 = 0 /\ v14 = 0 /\ v15 = 0
  \/ device = "clock" /\ Clock!Init /\ DevicesStart /\ v12 = 0 /\ v13 = 0 /\ v14 = 0 /\ v15 = 0
  \/ device = "rtc" /\ Rtc!Init /\ DevicesStart /\ v14 = 0 /\ v15 = 0
  \/ device = "keyboard" /\ Keyboard!Init /\ DevicesStart /\ v13 = 0 /\ v14 = 0 /\ v15 = 0
  \/ device = "mouse" /\ Mouse!Init /\ DevicesStart /\ v15 = 0
  \/ device = "serial" /\ Serial!Init /\ DevicesStart /\ v14 = 0 /\ v15 = 0
  \/ device = "console" /\ Console!Init /\ DevicesStart
      /\ v7 = 0 /\ v8 = 0 /\ v9 = 0 /\ v10 = 0 /\ v11 = 0 /\ v12 = 0 /\ v13 = 0 /\ v14 = 0 /\ v15 = 0
  \/ device = "windows" /\ Windows!Init /\ DevicesStart
      /\ v4 = 0 /\ v5 = 0 /\ v6 = 0 /\ v7 = 0 /\ v8 = 0 /\ v9 = 0 /\ v10 = 0 /\ v11 = 0 /\ v12 = 0
      /\ v13 = 0 /\ v14 = 0 /\ v15 = 0
  \/ device = "drawing" /\ Drawing!Init /\ DevicesStart
      /\ v4 = 0 /\ v5 = 0 /\ v6 = 0 /\ v7 = 0 /\ v8 = 0 /\ v9 = 0 /\ v10 = 0 /\ v11 = 0 /\ v12 = 0
      /\ v13 = 0 /\ v14 = 0 /\ v15 = 0
  \/ BootStart /\ NothingShared

InTrap == device = "trap" /\ DevicesStep
InInterrupts == device = "irq" /\ DevicesStep /\ UNCHANGED <<v12, v13, v14, v15>>
InClock == device = "clock" /\ DevicesStep /\ UNCHANGED <<v12, v13, v14, v15>>
InRtc == device = "rtc" /\ DevicesStep /\ UNCHANGED <<v14, v15>>
InKeyboard == device = "keyboard" /\ DevicesStep /\ UNCHANGED <<v13, v14, v15>>
InMouse == device = "mouse" /\ DevicesStep /\ UNCHANGED <<v15>>
InSerial == device = "serial" /\ DevicesStep /\ UNCHANGED <<v14, v15>>
InConsole == device = "console" /\ DevicesStep /\ UNCHANGED <<v7, v8, v9, v10, v11, v12, v13, v14, v15>>
InWindows == device = "windows" /\ DevicesStep /\ UNCHANGED <<v4, v5, v6, v7, v8, v9, v10, v11, v12, v13, v14, v15>>
InDrawing == device = "drawing" /\ DevicesStep /\ UNCHANGED <<v4, v5, v6, v7, v8, v9, v10, v11, v12, v13, v14, v15>>

HardwareNext ==
  \/ InTrap /\ Trap!Next
  \/ InInterrupts /\ Interrupts!Next
  \/ BootStep /\ UNCHANGED shared
  \/ InClock /\ Clock!Next
  \/ InRtc /\ Rtc!Next
  \/ InKeyboard /\ Keyboard!Next
  \/ InMouse /\ Mouse!Next
  \/ InSerial /\ Serial!Next
  \/ InConsole /\ Console!Next
  \/ InWindows /\ Windows!Next
  \/ InDrawing /\ Drawing!Next
  \/ device = "serial" /\ UNCHANGED hardwareVars

ASSUME /\ Trap!TrapAssumption /\ Interrupts!InterruptsAssumption /\ SmallDisks
       /\ Clock!ClockAssumption /\ Rtc!RtcAssumption /\ Keyboard!KeyboardAssumption
       /\ Mouse!MouseAssumption /\ Serial!SerialAssumption /\ Console!ConsoleAssumption
       /\ Windows!GraphicsAssumption /\ Drawing!GraphicsAssumption

HardwareSpec == HardwareInit /\ [][HardwareNext]_hardwareVars

-----------------------------------------------------------------------------
\* A program finds its registers as it left them, handlers get the right arguments, and no
\* switch returns through a frame that is not there (kernelcore.S, process.c); no line is left
\* in service and no interrupt comes before its handler (interrupt.c, pic.c).
TrapsRight ==
  /\ device = "trap" => Trap!TypeOK /\ Trap!UserRestored /\ Trap!ArgsRight /\ Trap!NeverFaults
  /\ device = "irq" => Interrupts!TypeOK /\ Interrupts!AllAcknowledged /\ Interrupts!NoSpurious

\* Measured time is the time that has passed unless a reading was torn (clock.c); the time
\* fetched from the chip is one that it showed, the copy in memory follows it, and timestamps
\* count its seconds (rtc.c).
TimeRight ==
  /\ device = "clock" => Clock!TypeOK /\ Clock!ElapsedRight
  /\ device = "rtc" => Rtc!TypeOK /\ Rtc!FetchRight /\ Rtc!CachedNow /\ Rtc!TimestampSteps

\* For every order in which keys go down and up the modes follow the keys and letters come out
\* as typed (keyboard.c); the state of the mouse is never read half way through a packet
\* (mouse.c).
InputRight ==
  /\ device = "keyboard" => Keyboard!TypeOK /\ Keyboard!ModesFollow /\ Keyboard!LettersRight
  /\ device = "mouse" => Mouse!TypeOK /\ Mouse!ReadWhole

\* Bytes go out on a line in order and once (serial.c); a console has its cursor inside, one
\* mark of it and blanks behind it (console.c); windows are counted and on the screen, and
\* drawing stays inside of them, up to the cases named in Graphics (window.c, graphics.c).
OutputRight ==
  /\ device = "serial" => Serial!TypeOK /\ Serial!LineRight
  /\ device = "console" => /\ Console!TypeOK /\ Console!CursorInside
                         /\ Console!OneCursor /\ Console!TailBlank
  /\ device = "windows" => Windows!TypeOK /\ Windows!RefsExact /\ Windows!OnScreen
  /\ device = "drawing" => Drawing!StaysInside /\ Drawing!RectRight /\ Drawing!LineRight
=============================================================================
