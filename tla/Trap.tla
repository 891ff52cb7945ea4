-------------------------------- MODULE Trap --------------------------------
(***************************************************************************)
(* How a process enters and leaves the kernel: the entry and return code   *)
(* of kernel/kernelcore.S, the stack switch in process_switch, and the     *)
(* stacks that are built by hand for a new process, for the child of fork  *)
(* and for exec (kernel/process.c, layout in kernel/x86.h).                *)
(*                                                                         *)
(* A kernel stack is an array of words numbered from the top, so a push    *)
(* writes the next word.  What C functions keep on it is one kind of word, *)
(* "local"; how deep their calls go is the compiler's business and a       *)
(* parameter.  An interrupt gate turns interrupts off; process_switch      *)
(* turns them on again, after which an interrupt may come between any two  *)
(* steps of the kernel and uses the same stack below what is there.        *)
(***************************************************************************)
EXTENDS Integers, Sequences, FiniteSets, SequencesExt

CONSTANTS
  Proc,          \* processes
  Boot,          \* the one the kernel starts with
  Vector,        \* interrupts, exceptions and the system call 48 that may occur
  Depth,         \* where process_switch has saved its registers, in words
  ExecDepth,     \* words in use while sys_process_exec runs
  ExecReach,     \* the words its calls after process_kstack_reset may use
  Reach,         \* words the C code of an interrupt handler may use
  MaxSteps       \* bound: traps taken in user mode

TrapAssumption ==
  /\ Boot \in Proc /\ IsFiniteSet(Proc) /\ Vector \subseteq 0..48
  /\ Depth \subseteq Nat /\ \A d \in Depth : d >= 29
  /\ {ExecDepth, ExecReach, Reach, MaxSteps} \subseteq Nat
  /\ 20 < ExecDepth /\ ExecDepth < ExecReach

General == {"eax", "ebx", "ecx", "edx", "esi", "edi", "ebp"}
Segment == {"ds", "es", "fs", "gs"}
Machine == {"eip", "cs", "eflags", "esp", "ss"}       \* what the processor saves
Name == General \cup Segment \cup Machine
Word(n, v) == [name |-> n, val |-> v]
Deepest == 110                                       \* words of a stack
Syscall == 48
WithCode == {8, 10, 11, 12, 13, 14, 17}               \* the processor pushes a code

VARIABLES
  cpu,        \* the registers, while a process runs in user mode
  running,    \* current, or Boot's idle loop: "none"
  state,      \* "unborn", "cradle", "ready", "running", "blocked", "grave"
  mode,       \* "user", "kernel" (entered), "exec" (its stack was reset)
  kstack,     \* kernel stacks
  esp,        \* words in use of the stack of a process in the kernel
  kstack_ptr, \* field of struct process: where its registers are saved
  esp0,       \* interrupt_stack_pointer: the stack an entry from user mode uses
  unblocked,  \* interrupts are on in the kernel
  cause,      \* of each process in the kernel: the vector and code that occurred
  call,       \* the vector and code its handler was called with
  want,       \* history: what a process should find in its registers in user mode
  last,       \* the process whose stack the idle loop uses
  fault,      \* the processor jumped to a word that is no return address
  steps

vars == <<cpu, running, state, mode, kstack, esp, kstack_ptr, esp0, unblocked, cause, call,
          want, last, fault, steps>>
history == <<cause, call>>

\* The names of the words of struct x86_stack, from kstack_ptr upwards.
x86_stack == <<"eax", "ebx", "ecx", "edx", "esi", "edi", "ebp", "old_ebp", "old_eip",
               "eax", "ebx", "ecx", "edx", "esi", "edi", "ebp", "gs", "fs", "es", "ds",
               "num", "code", "eip", "cs", "eflags", "esp", "ss">>

TypeOK ==
  /\ DOMAIN cpu = Name /\ running \in Proc \cup {"none"}
  /\ state \in [Proc -> {"unborn", "cradle", "ready", "running", "blocked", "grave"}]
  /\ mode \in [Proc -> {"user", "kernel", "exec"}]
  /\ \A p \in Proc : DOMAIN kstack[p] = 1..Deepest /\ DOMAIN want[p] \subseteq Name
  /\ esp \in [Proc -> 0..Deepest] /\ kstack_ptr \in [Proc -> 0..Deepest]
  /\ esp0 \in Proc \cup {"top"} /\ unblocked \in BOOLEAN /\ last \in Proc
  /\ fault \in BOOLEAN /\ steps \in 0..MaxSteps
  /\ running # "none" => state[running] \in {"running", "cradle"}

-----------------------------------------------------------------------------
(* Pushing and popping *)

\* The words ws pushed on stack s that has n words in use.
Pushed(s, n, ws) == [i \in DOMAIN s |-> IF i \in (n + 1)..(n + Len(ws)) THEN ws[i - n] ELSE s[i]]

\* Words of C functions.
Locals(n) == [i \in 1..n |-> Word("local", 0)]
Regs(ctx, names) == [i \in DOMAIN names |-> ctx[names[i]]]

\* intr00 to intr48: the number, and a zero where the processor pushes no code.
intr(v, code) == <<IF v \in WithCode THEN code ELSE Word("code", 0), Word("num", v)>>

\* The pushes of intr_handler and of intr_syscall.  Mutant: ebx and ecx swapped.
SaveOrder_Swapped == <<"ds", "es", "fs", "gs", "ebp", "edi", "esi", "edx", "ebx", "ecx", "eax">>
SaveOrder == <<"ds", "es", "fs", "gs", "ebp", "edi", "esi", "edx", "ecx", "ebx", "eax">>

\* intr_return, from stack s with n words in use: the general registers, the segments, the
\* number and the code dropped, then iret.
PopOrder == <<"eax", "ebx", "ecx", "edx", "esi", "edi", "ebp", "gs", "fs", "es", "ds",
              "num", "code", "eip", "cs", "eflags", "esp", "ss">>
intr_return(s, n) ==
  [r \in Name |-> s[n + 1 - (CHOOSE i \in DOMAIN PopOrder : PopOrder[i] = r)]]

\* The code the processor reports for vector v.
Code(v) == IF v \in WithCode THEN Word("code", v) ELSE Word("code", 0)

\* Where intr_handler finds the arguments of interrupt_handler: pushl 48(%esp), twice, the
\* second after the first has moved the stack.  A word is four bytes.
Arguments(s, n) == <<s[n - 12], s[n + 1 - 12]>>

-----------------------------------------------------------------------------
(* The stacks that are built *)

\* The index of the k-th word of the struct x86_stack at ptr.
At(ptr, k) == ptr + 1 - k
Field(f) == CHOOSE k \in DOMAIN x86_stack : x86_stack[k] = f /\ k > 7

\* What both of them set so that process_switch returns to intr_return: ebp, old_ebp and
\* old_eip.  Mutant: old_eip is not set.
Linked_NoReturn(s, ptr) ==
  [s EXCEPT ![At(ptr, 7)] = Word("at", At(ptr, 8)), ![At(ptr, 8)] = Word("at", At(ptr, 9))]
Linked(s, ptr) ==
  [s EXCEPT ![At(ptr, 7)] = Word("at", At(ptr, 8)), ![At(ptr, 8)] = Word("at", At(ptr, 9)),
            ![At(ptr, 9)] = Word("intr_return", 0)]

\* process_kstack_reset: the other fields, for a program that starts at entry.
process_kstack_reset(s, ptr, entry) ==
  LET set == {At(ptr, Field(f)) : f \in Segment \cup Machine}
  IN  Linked([i \in DOMAIN s |-> IF i \in set THEN Word(x86_stack[ptr + 1 - i], entry) ELSE s[i]],
             ptr)

\* process_kstack_copy, from the words under the parent's kstack_top, with a zero in eax.
process_kstack_copy(s, page) ==
  [Linked([i \in DOMAIN s |-> IF i <= 27 THEN s[i] ELSE page[i]], 27)
     EXCEPT ![At(27, 10)] = Word("eax", 0)]

\* A stack whose first n words are in use; nobody relies on the others.
Used(s, n) == [i \in DOMAIN s |-> IF i <= n THEN s[i] ELSE Word("local", 0)]
Fresh == [i \in 1..Deepest |-> Word("local", 0)]

\* The registers a fresh program finds: only these are set.
Started(entry) == [f \in Segment \cup Machine |-> Word(f, entry)]

\* process_init: the first process runs in the kernel, with nothing to return to.
Init ==
  /\ cpu = [n \in Name |-> Word(n, 0)]
  /\ running = Boot /\ state = [p \in Proc |-> IF p = Boot THEN "running" ELSE "unborn"]
  /\ mode = [p \in Proc |-> "kernel"]
  /\ kstack = [p \in Proc |-> process_kstack_reset(Fresh, 27, 0)]
  /\ esp = [p \in Proc |-> 20] /\ kstack_ptr = [p \in Proc |-> 27] /\ esp0 = "top"
  /\ unblocked = TRUE
  /\ cause = [p \in Proc |-> <<Word("code", 0), Word("num", 0)>>] /\ call = cause
  /\ want = [p \in Proc |-> Started(0)]
  /\ last = Boot /\ fault = FALSE /\ steps = 0

-----------------------------------------------------------------------------
InUser(p) == running = p /\ mode[p] = "user" /\ ~fault
InKernel(p) == running = p /\ mode[p] = "kernel" /\ ~fault

\* The user's program changes its registers.
Compute(p) ==
  /\ InUser(p) /\ cpu["eax"].val # 100 + steps
  /\ cpu' = [n \in Name |-> IF n \in General \cup {"eip", "esp"} THEN Word(n, 100 + steps)
                            ELSE cpu[n]]
  /\ want' = [want EXCEPT ![p] = cpu']
  /\ UNCHANGED <<running, state, mode, kstack, esp, kstack_ptr, esp0, unblocked, history, last,
                 fault, steps>>

\* A trap in user mode: the processor's words go to the stack that the TSS names, then
\* intrNN and intr_handler or intr_syscall.
Trap(p, v) ==
  LET s == Pushed(kstack[esp0], 0,
             Regs(cpu, <<"ss", "esp", "eflags", "cs", "eip">>) \o intr(v, Code(v))
             \o Regs(cpu, SaveOrder))
      args == Arguments(s, 18)
  IN  /\ InUser(p) /\ steps < MaxSteps /\ steps' = steps + 1 /\ v \in Vector
      /\ kstack' = [kstack EXCEPT ![esp0] = IF v = Syscall THEN s ELSE Pushed(s, 18, args)]
      /\ esp' = [esp EXCEPT ![p] = IF v = Syscall THEN 18 ELSE 20]
      /\ mode' = [mode EXCEPT ![p] = "kernel"] /\ unblocked' = FALSE
      /\ cause' = [cause EXCEPT ![p] = <<Code(v), Word("num", v)>>]
      /\ call' = [call EXCEPT ![p] = IF v = Syscall THEN cause'[p] ELSE args]
      /\ want' = [want EXCEPT ![p] = IF v = Syscall THEN [cpu EXCEPT !["eax"] = Word("result", steps)]
                                     ELSE cpu]
      /\ UNCHANGED <<cpu, running, state, kstack_ptr, esp0, last, fault>>

\* Words in use when the handler was called.
Base(p) == IF cause[p][2].val = Syscall THEN 18 ELSE 20

\* The handler returns.  A system call leaves its result in eax and drops the saved one.
Return(p) ==
  /\ InKernel(p) /\ p # Boot
  /\ cpu' = IF Base(p) = 18 THEN [intr_return(kstack[p], 18) EXCEPT !["eax"] = want[p]["eax"]]
            ELSE intr_return(kstack[p], 18)
  /\ mode' = [mode EXCEPT ![p] = "user"] /\ unblocked' = TRUE /\ esp' = [esp EXCEPT ![p] = 0]
  /\ kstack' = [kstack EXCEPT ![p] = Fresh]
  /\ UNCHANGED <<running, state, kstack_ptr, esp0, history, want, last, fault, steps>>

\* An interrupt in the kernel, on the stack in use: three words by the processor, then as
\* above, the handler's own, and everything is popped again.
Interrupt ==
  LET p == IF running = "none" THEN last ELSE running
      n == IF running = "none" THEN kstack_ptr[p] ELSE esp[p]
  IN  /\ ~fault /\ unblocked /\ (running = "none" \/ mode[p] # "user")
      /\ kstack' = [kstack EXCEPT ![p] = Pushed(@, n, Locals(18 + Reach))]
      /\ kstack' # kstack
      /\ UNCHANGED <<cpu, running, state, mode, esp, kstack_ptr, esp0, unblocked, history, want,
                     last, fault, steps>>

\* The end of process_switch: q's registers are popped from kstack_ptr, leave takes the stack
\* to where ebp points, and ret takes the word above that.
Resume(q, stacks, ptr) ==
  LET s == stacks[q]
      base == s[At(ptr, 7)]
      ret == IF base.name = "at" /\ base.val > 3 THEN s[base.val - 1] ELSE Word("local", 0)
      n == base.val - 2
  IN  /\ running' = q /\ esp0' = q /\ unblocked' = TRUE
      /\ fault' = (ret.name \notin {"intr_return", "switch"})
      /\ esp' = [esp EXCEPT ![q] = IF ret.name = "switch" THEN n ELSE 0]
      /\ kstack' = [stacks EXCEPT ![q] = Used(@, esp'[q])]
      /\ IF ret.name = "intr_return"
           THEN mode' = [mode EXCEPT ![q] = "user"] /\ cpu' = intr_return(s, n)
           ELSE mode' = (IF fault' THEN mode ELSE [mode EXCEPT ![q] = "kernel"]) /\ cpu' = cpu

\* What process_switch leaves on the stack at depth d: the return address, the frame, and the
\* registers it pushes.
Saved(s, base, d) ==
  Pushed(s, base, Locals(d - 9 - base) \o <<Word("switch", 0), Word("frame", 0),
                                            Word("at", d - 7)>> \o Locals(6))

\* process_switch: a process in the cradle does not save its registers.
Leaves(p, d, s) == IF state[p] = "cradle" THEN [stack |-> s, ptr |-> kstack_ptr[p]]
                   ELSE [stack |-> Saved(s, Base(p), d), ptr |-> d]

process_switch(p, d, s, newstate) ==
  LET l == Leaves(p, d, s)
      st == [state EXCEPT ![p] = newstate]
      ready == {q \in Proc : st[q] = "ready"}
      stacks == [kstack EXCEPT ![p] = l.stack]
      ptrs == [kstack_ptr EXCEPT ![p] = l.ptr]
  IN  /\ kstack_ptr' = ptrs
      /\ \/ /\ ready = {} /\ kstack' = stacks /\ running' = "none" /\ state' = st /\ last' = p /\ esp0' = "top"
            /\ unblocked' = TRUE /\ UNCHANGED <<cpu, mode, esp, fault>>
         \/ \E q \in ready : /\ state' = [st EXCEPT ![q] = "running"] /\ last' = last
                             /\ Resume(q, stacks, ptrs[q])

\* A process yields, waits or exits.
Switch(p, d, newstate) ==
  /\ InKernel(p) /\ (p = Boot => newstate # "grave")
  /\ process_switch(p, d, kstack[p], newstate)
  /\ UNCHANGED <<history, want, steps>>

\* A handler wakes a process up.
Wake(q) ==
  /\ ~fault /\ unblocked /\ state[q] = "blocked" /\ state' = [state EXCEPT ![q] = "ready"]
  /\ UNCHANGED <<cpu, running, mode, kstack, esp, kstack_ptr, esp0, unblocked, history, want, last,
                 fault, steps>>

\* The idle loop of process_switch finds a process.
Idle(q) ==
  /\ running = "none" /\ ~fault /\ state[q] = "ready"
  /\ state' = [state EXCEPT ![q] = "running"]
  /\ Resume(q, kstack, kstack_ptr[q])
  /\ UNCHANGED <<kstack_ptr, history, want, last, steps>>

-----------------------------------------------------------------------------
(* New processes *)

InSyscall(p) == InKernel(p) /\ p # Boot /\ cause[p][2].val = Syscall

\* sys_process_run: process_create and, when the program is loaded, process_kstack_reset.
sys_process_run(p, c) ==
  /\ InKernel(p) /\ state[c] = "unborn"
  /\ kstack' = [kstack EXCEPT ![c] = process_kstack_reset(Fresh, 27, steps)]
  /\ want' = [want EXCEPT ![c] = Started(steps)]
  /\ state' = [state EXCEPT ![c] = "ready"]
  /\ UNCHANGED <<cpu, running, mode, esp, kstack_ptr, esp0, unblocked, history, last, fault, steps>>

sys_process_fork(p, c) ==
  /\ InSyscall(p) /\ state[c] = "unborn"
  /\ kstack' = [kstack EXCEPT ![c] = process_kstack_copy(kstack[p], Fresh)]
  /\ want' = [want EXCEPT ![c] = [want[p] EXCEPT !["eax"] = Word("eax", 0)]]
  /\ state' = [state EXCEPT ![c] = "ready"]
  /\ UNCHANGED <<cpu, running, mode, esp, kstack_ptr, esp0, unblocked, history, last, fault, steps>>

\* sys_process_exec when the program was loaded: the caller's stack is reset at its
\* kstack_ptr, where it was switched out last.
sys_process_exec(p) ==
  LET s == Pushed(kstack[p], 18, Locals(ExecDepth - 18))
  IN  /\ InSyscall(p)
      /\ kstack' = [kstack EXCEPT ![p] = process_kstack_reset(s, kstack_ptr[p], steps)]
      /\ want' = [want EXCEPT ![p] = Started(steps)]
      /\ state' = [state EXCEPT ![p] = "cradle"] /\ mode' = [mode EXCEPT ![p] = "exec"]
      /\ esp' = [esp EXCEPT ![p] = ExecDepth]
      /\ UNCHANGED <<cpu, running, kstack_ptr, esp0, unblocked, history, last, fault, steps>>

\* Its last calls: argv_delete and process_yield.
ExecYield(p) ==
  /\ running = p /\ mode[p] = "exec" /\ ~fault
  /\ process_switch(p, 0, Pushed(kstack[p], ExecDepth, Locals(ExecReach - ExecDepth)), "ready")
  /\ UNCHANGED <<history, want, steps>>

\* All steps are taken, or nothing but a wakeup that never comes is left.
Stop == (steps = MaxSteps \/ fault) /\ UNCHANGED vars

Next ==
  \/ \E p \in Proc : \/ Compute(p) \/ Return(p) \/ sys_process_exec(p) \/ ExecYield(p)
                     \/ Wake(p) \/ Idle(p)
                     \/ \E v \in Vector : Trap(p, v)
                     \/ \E d \in Depth, st \in {"ready", "blocked", "grave"} : Switch(p, d, st)
                     \/ \E c \in Proc : sys_process_run(p, c) \/ sys_process_fork(p, c)
  \/ Interrupt
  \/ Stop

Spec == Init /\ [][Next]_vars

-----------------------------------------------------------------------------
\* A program finds its registers as it left them, with the result of a system call in eax; a
\* child of fork finds the parent's with zero in eax, a new program its start.  Saving,
\* switching and building of stacks (kernelcore.S, process.c) agree on the layout.
UserRestored ==
  running # "none" /\ mode[running] = "user" /\ ~fault =>
    \A n \in DOMAIN want[running] : cpu[n] = want[running][n]

\* interrupt_handler gets the number and the code of what happened (kernelcore.S, intr_handler).
ArgsRight == \A p \in Proc : call[p] = cause[p]

\* A process that is switched to returns to where it left process_switch or to intr_return.
NeverFaults == ~fault
=============================================================================
