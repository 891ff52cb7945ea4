---------------------------- MODULE AddressSpace ----------------------------
(***************************************************************************)
(* The memory of processes: kernel/pagetable.c, the memory part of         *)
(* kernel/process.c, kernel/loader.c, the page fault handler of            *)
(* kernel/interrupt.c, and the system calls that create, replace and grow  *)
(* address spaces.  Pages of physical memory come from kernel/page.c, the  *)
(* lowest free one first.                                                  *)
(*                                                                         *)
(* Virtual pages are numbered from PROCESS_ENTRY_POINT up (data, from 0)   *)
(* and from the top of memory down (stack, from -1).  A page table is its  *)
(* top page and one second-level page per region.  A program is a segment  *)
(* of one page read from the file and one of one page that is not in the   *)
(* file (BSS).  The contents of a page are "zero", the program it was read *)
(* from, or "used" once the running program wrote to it.                   *)
(***************************************************************************)
EXTENDS Integers, Sequences, FiniteSets, FiniteSetsExt, SequencesExt

CONSTANTS
  Proc, Init1,       \* the processes; the first of them
  NPages,            \* pages of physical memory
  HeapMax,           \* bound: pages of data
  Ops, MaxOps        \* the operations considered; bound on their number

SpaceAssumption ==
  /\ Init1 \in Proc /\ NPages \in Nat /\ HeapMax \in Nat /\ HeapMax >= 2 /\ MaxOps \in Nat
  /\ Ops \subseteq {"run", "fork", "exec", "heap", "fault", "write", "reap", "kill"}

Page == 1..NPages
StackMax == 3
VPage == (-StackMax)..(2 * HeapMax)
Region(v) == IF v >= 0 THEN "data" ELSE "stack"
Program == {"a", "b"}

VARIABLES
  free,      \* the pages that page_alloc may give
  content,   \* what is in each page
  proc,      \* the processes
  used,      \* the virtual pages each program was given to use
  ops,       \* number of operations
  hurt       \* history: see Race

vars == <<free, content, proc, used, ops, hurt>>

\* "midload": a process was killed while it had the page table of its child;
\* "exec": a failed exec returned into memory that it had overwritten.
Race == {"midload", "exec"}

NoSpace == [st |-> "none", struct |-> 0, kstack |-> 0, top |-> 0,
            tab |-> [r \in {"kernel", "data", "stack"} |-> 0],
            map |-> [v \in VPage |-> 0], data |-> 0, stack |-> 0, child |-> Init1]

TypeOK ==
  /\ free \subseteq Page /\ content \in [Page -> {"zero", "used"} \cup Program]
  /\ \A p \in Proc : /\ proc[p].st \in {"none", "runs", "loads", "stuck"}
                     /\ proc[p].map \in [VPage -> Page \cup {0}]
                     /\ {proc[p].data, proc[p].stack} \subseteq 0..(2 * HeapMax)
  /\ ops \in 0..MaxOps /\ hurt \subseteq Race

-----------------------------------------------------------------------------
(* Page tables.  x is [free, content, r], r the record of a process.        *)

\* page_alloc: the first free page.
Take(x, clear) ==
  LET g == Min(x.free)
  IN  [x EXCEPT !.free = @ \ {g}, !.content[g] = IF clear THEN "zero" ELSE @]

\* pagetable_map with PAGE_FLAG_ALLOC | PAGE_FLAG_CLEAR: the page, then the table for it.
\* Mutant: the page is not cleared.
Cleared_Not == FALSE
Cleared == TRUE
NeedTable(x, region) ==
  IF x.r.tab[region] # 0 THEN x
  ELSE [Take(x, TRUE) EXCEPT !.r.tab[region] = Min(x.free)]
Map(x, v) == NeedTable([Take(x, Cleared) EXCEPT !.r.map[v] = Min(x.free)], Region(v))

From(v, n) == [i \in 1..n |-> v + i - 1]

\* pagetable_alloc and pagetable_free of n pages from v on.
pagetable_alloc(x, v, n) ==
  FoldLeft(LAMBDA y, i : IF y.r.map[i] # 0 THEN y ELSE Map(y, i), x, From(v, n))
Unmap(x, v) == [x EXCEPT !.free = @ \cup {x.r.map[v]}, !.r.map[v] = 0]
pagetable_free(x, v, n) ==
  FoldLeft(LAMBDA y, i : IF y.r.map[i] = 0 THEN y ELSE Unmap(y, i), x, From(v, n))

\* The pages of a page table, and all pages of a process.
TablePages(r) ==
  ({r.top} \cup {r.tab[t] : t \in DOMAIN r.tab} \cup {r.map[v] : v \in VPage}) \ {0}
PagesOf(r) == (TablePages(r) \cup {r.struct, r.kstack}) \ {0}

\* pagetable_duplicate: new tables, and a copy of every page that was allocated.
\* Mutant: the pages are shared.
CopyPage_Shared(x, old, v) == [x EXCEPT !.r.map[v] = old.map[v]]
CopyPage(x, old, v) ==
  IF old.map[v] = 0 THEN x
  ELSE [Take(x, FALSE) EXCEPT !.content[Min(x.free)] = x.content[old.map[v]],
                              !.r.map[v] = Min(x.free)]
pagetable_duplicate(x, old) ==
  LET top == [Take(x, TRUE) EXCEPT !.r.top = Min(x.free), !.r.tab = NoSpace.tab, !.r.map = NoSpace.map]
      tab(y, t) == IF old.tab[t] = 0 THEN y ELSE NeedTable(y, t)
      pages == From(0, 2 * HeapMax + 1) \o From(-StackMax, StackMax)
  IN  FoldLeft(LAMBDA y, v : CopyPage(y, old, v),
               tab(tab(tab(top, "kernel"), "data"), "stack"), pages)

-----------------------------------------------------------------------------
(* Processes *)

\* process_data_size_set: to grow, it maps as many pages as the new size, from the old
\* size on; to shrink, it frees as many as the old size, from the new size on.
process_data_size_set(x, n) ==
  LET y == IF n > x.r.data THEN pagetable_alloc(x, x.r.data, Min({n, 2 * HeapMax + 1 - x.r.data}))
           ELSE IF n < x.r.data THEN pagetable_free(x, n, x.r.data) ELSE x
  IN  [y EXCEPT !.r.data = n]

\* process_stack_size_set.
process_stack_size_set(x, n) ==
  LET y == IF n > x.r.stack THEN pagetable_alloc(x, -n, n - x.r.stack)
           ELSE pagetable_free(x, -x.r.stack, x.r.stack - n)
  IN  [y EXCEPT !.r.stack = n]

\* process_create.
process_create(x) ==
  LET a == [Take(x, TRUE) EXCEPT !.r = [NoSpace EXCEPT !.struct = Min(x.free)]]
      b == NeedTable([Take(a, TRUE) EXCEPT !.r.top = Min(a.free)], "kernel")
      c == process_stack_size_set(process_data_size_set(b, 2), 2)
  IN  [Take(c, TRUE) EXCEPT !.r.kstack = Min(c.free)]

\* loader_load_process of a program that needs two pages: the space is extended, the
\* first segment read; the memset of the BSS has its arguments swapped and clears
\* nothing.  A program of bad header stops before, one of bad second segment in between.
Loaded(x, prog, result) ==
  LET y == IF x.r.data < 2 THEN process_data_size_set(x, 2) ELSE x
  IN  IF result = "header" THEN x ELSE [y EXCEPT !.content[y.r.map[0]] = prog]
Result == {"ok", "header", "segment"}

Space(r) == [free |-> free, content |-> content, r |-> r]
Become(p, x, st) == proc' = [proc EXCEPT ![p] = [x.r EXCEPT !.st = st]]
Memory(x) == free' = x.free /\ content' = x.content
Op(p, what) ==
  /\ what \in Ops /\ ops < MaxOps /\ ops' = ops + 1 /\ hurt = {} /\ proc[p].st = "runs"
  /\ Cardinality(free) >= 3 * HeapMax + 12   \* page_alloc halts the machine when none is left

Init ==
  LET x == Loaded(process_create([free |-> Page, content |-> [g \in Page |-> "used"], r |-> NoSpace]),
                  "a", "ok")
  IN  /\ free = x.free /\ content = x.content
      /\ proc = [p \in Proc |-> IF p = Init1 THEN [x.r EXCEPT !.st = "runs"] ELSE NoSpace]
      /\ used = [p \in Proc |-> IF p = Init1 THEN 0..1 ELSE {}]
      /\ ops = 0 /\ hurt = {}

\* sys_process_run and sys_process_wrun: the parent takes the page table of the child
\* while it loads the program, and may lose the processor while it does.
RunBegin(p, c) ==
  LET x == process_create(Space(NoSpace))
  IN  /\ Op(p, "run") /\ proc[c].st = "none"
      /\ Memory(x)
      /\ proc' = [proc EXCEPT ![c] = [x.r EXCEPT !.st = "stuck"],
                              ![p] = [@ EXCEPT !.st = "loads", !.child = c]]
      /\ UNCHANGED <<used, hurt>>
\* A child whose program cannot be loaded is left behind: only KERROR_EXECUTION_FAILED,
\* which the loader never returns, would delete it.
RunEnd(p, prog, result) ==
  LET c == proc[p].child
      x == Loaded(Space(proc[c]), prog, result)
      y == IF result = "ok" THEN process_stack_size_set(x, 1) ELSE x
  IN  /\ proc[p].st = "loads" /\ hurt = {}
      /\ Memory(y)
      /\ proc' = [proc EXCEPT ![c] = [y.r EXCEPT !.st = IF result = "ok" THEN "runs" ELSE "stuck"],
                              ![p].st = "runs"]
      /\ used' = [used EXCEPT ![c] = IF result = "ok" THEN 0..1 ELSE {}]
      /\ UNCHANGED <<ops, hurt>>

\* sys_process_fork: a process is created, and its page table replaced by a copy.  The
\* sizes of the child stay those of a new process.
Fork(p, c) ==
  LET x == process_create(Space(NoSpace))
      y == [x EXCEPT !.free = @ \cup TablePages(x.r)]
      z == pagetable_duplicate(y, proc[p])
  IN  /\ Op(p, "fork") /\ proc[c].st = "none"
      /\ Memory(z) /\ Become(c, z, "runs")
      /\ used' = [used EXCEPT ![c] = used[p]]
      /\ UNCHANGED <<hurt>>

\* sys_process_exec.
Exec(p, prog, result) ==
  LET x == Loaded(Space(proc[p]), prog, result)
      y == IF result = "ok" THEN process_stack_size_set(x, 1) ELSE x
  IN  /\ Op(p, "exec")
      /\ Memory(y) /\ Become(p, y, "runs")
      /\ used' = [used EXCEPT ![p] = IF result = "ok" THEN 0..1 ELSE @]
      /\ hurt' = IF result = "segment" THEN hurt \cup {"exec"} ELSE hurt
\* sys_process_heap: the answer is the end of the data after the call.
Heap(p, n) ==
  LET want == proc[p].data + n
      x == process_data_size_set(Space(proc[p]), want)
  IN  /\ Op(p, "heap") /\ n # 0 /\ want \in 2..HeapMax    \* no program gives up its image
      /\ Memory(x) /\ Become(p, x, "runs")
      /\ used' = [used EXCEPT ![p] = {v \in @ : v < want} \cup proc[p].data..(want - 1)]
      /\ UNCHANGED hurt

\* unknown_exception, page fault: an access above the stack pointer that is not mapped
\* gets a page; vm_stack_size is not changed.
Fault(p, v) ==
  LET x == pagetable_alloc(Space(proc[p]), v, 1)
  IN  /\ Op(p, "fault") /\ v < 0 /\ proc[p].map[v] = 0
      /\ Memory(x) /\ Become(p, x, "runs")
      /\ UNCHANGED <<used, hurt>>

\* The program writes to memory it was given.
Store(p, v) ==
  /\ Op(p, "write") /\ v \in used[p] /\ proc[p].map[v] # 0 /\ content[proc[p].map[v]] # "used"
  /\ content' = [content EXCEPT ![proc[p].map[v]] = "used"]
  /\ UNCHANGED <<free, proc, used, hurt>>

\* process_delete, after the process has died.  One that was killed in RunBegin has the
\* page table of its child.
Reap(p, q) ==
  /\ Op(p, "reap") /\ q # p /\ proc[q].st = "runs"
  /\ free' = free \cup PagesOf(proc[q])
  /\ proc' = [proc EXCEPT ![q] = NoSpace] /\ used' = [used EXCEPT ![q] = {}]
  /\ UNCHANGED <<content, hurt>>
ReapLoading(p, q) ==
  /\ Op(p, "kill") /\ q # p /\ proc[q].st = "loads"
  /\ free' = free \cup TablePages(proc[proc[q].child]) \cup {proc[q].struct, proc[q].kstack}
  /\ proc' = [proc EXCEPT ![q] = NoSpace] /\ used' = [used EXCEPT ![q] = {}]
  /\ hurt' = hurt \cup {"midload"}
  /\ UNCHANGED <<content>>

Next ==
  \E p \in Proc :
    \/ \E c \in Proc : RunBegin(p, c) \/ Fork(p, c) \/ Reap(p, c) \/ ReapLoading(p, c)
    \/ \E prog \in Program, result \in Result : RunEnd(p, prog, result) \/ Exec(p, prog, result)
    \/ \E n \in (-2)..3 : Heap(p, n)
    \/ \E v \in VPage : Fault(p, v) \/ Store(p, v)

Spec == Init /\ [][Next]_vars

-----------------------------------------------------------------------------
(* Properties *)

Living == {p \in Proc : proc[p].st # "none"}

\* Every page has one use: it is free, or it is one page of one process - its record, its
\* kernel stack, a table or memory.  Nothing is lost and nothing shared, whatever was run,
\* forked, grown, shrunk and reaped, unless a process was killed while it was loading.
Uses(p, g) ==
  LET r == proc[p]
  IN  Cardinality({v \in VPage : r.map[v] = g}) + Cardinality({t \in DOMAIN r.tab : r.tab[t] = g})
      + Cardinality({f \in {"struct", "kstack", "top"} : r[f] = g})
OneUse ==
  "midload" \notin hurt =>
    \A g \in Page : FoldSet(LAMBDA p, n : n + Uses(p, g), IF g \in free THEN 1 ELSE 0, Living) = 1

\* A program can use the memory it was given: what it was loaded into and what it had left
\* of its heap is mapped, although the sizes in the process say otherwise after fork.
UsedMapped == \A p \in Proc : \A v \in used[p] : proc[p].map[v] # 0

\* A process starts to run in memory that nothing of another program is left in: new
\* memory is clear, or a copy that fork made of the parent's.
StartsClean ==
  \A p \in Proc : proc[p].st = "stuck" /\ proc'[p].st = "runs" =>
    \A v \in VPage \ {0} : proc'[p].map[v] # 0 => content'[proc'[p].map[v]] = "zero"

\* "On failure, return only if our address space is not corrupted" (syscall_handler.c:212).
ExecSafe == "exec" \notin hurt
=============================================================================
