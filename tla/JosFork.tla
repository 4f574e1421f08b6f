------------------------------- MODULE JosFork -------------------------------
(***************************************************************************)
(* JOS user-level copy-on-write fork (lab4 lib/fork.c: fork, duppage,      *)
(* pgfault) over the scheduler of JosSched.  The parent env forks once;    *)
(* afterwards every env writes its memory, yields, exits, and the parent   *)
(* may destroy its child.  Other envs run beside them and compete for the  *)
(* CPUs.  Each env's page table maps its user pages, its exception stack   *)
(* UX and the scratch page PFTEMP to physical pages, each mapping writable *)
(* ("W"), copy-on-write ("COW") or read-only ("RO").  The syscalls         *)
(* (sys_exofork, sys_page_alloc, sys_page_map, sys_page_unmap,             *)
(* sys_env_set_status, sys_env_set_pgfault_upcall), set_pgfault_handler,   *)
(* the kernel's page-fault dispatch and env_free are not in the tree and   *)
(* follow the lab's documented contract.  Each syscall runs under the big  *)
(* kernel lock, so it is one step.                                         *)
(***************************************************************************)
EXTENDS JosSched

CONSTANTS
  NVA,       \* user pages 1..NVA below USTACKTOP, in address order
  NPP,       \* physical pages 1..NPP (0: not present)
  InitPerm,  \* the parent's mapping of each user page before fork ("none": absent)
  InitFree,  \* the env slots on the free list at the start
  Values     \* the values a user write stores

Parent == 0
PFTEMP == 0                    \* below the pages fork copies, never mapped then
UserVAs == 1..NVA
UX == NVA + 1                  \* UXSTACKTOP - PGSIZE, above USTACKTOP
VAs == 0..NVA + 1
Pages == 1..NPP
Unmapped == [pp |-> 0, perm |-> "RO"]
Map(pp, perm) == [pp |-> pp, perm |-> perm]

VARIABLES
  pte,       \* each env's page table: va -> [pp, perm]
  mem,       \* the contents of each physical page
  pc,        \* each env's place in its program
  pf,        \* each env's place in pgfault ("none": not handling a fault)
  fva,       \* utf_fault_va of the fault being handled
  upcall,    \* env_pgfault_upcall is set
  child,     \* fork's local child
  dva        \* fork's loop address, as a page number

forkVars == <<pte, mem, pc, pf, fva, upcall, child, dva>>
vars == <<schedVars, forkVars>>

TypeOK ==
  /\ SchedTypeOK
  /\ pte \in [Envs -> [VAs -> [pp : 0..NPP, perm : {"W", "COW", "RO"}]]]
  /\ mem \in [Pages -> {0} \cup Values]
  /\ pc \in [Envs -> {"start", "dup", "dup_parent", "setstatus", "user"}]
  /\ pf \in [Envs -> {"none", "alloc", "map", "unmap"}]
  /\ fva \in [Envs -> UserVAs]
  /\ upcall \in [Envs -> BOOLEAN]
  /\ child \in Envs \cup {NoEnv}
  /\ dva \in 1..NVA + 1

Init ==
  /\ status = [e \in Envs |-> IF e \in InitFree THEN "FREE" ELSE "RUNNABLE"]
  /\ envcpu = [e \in Envs |-> BootCpu]
  /\ curenv = [c \in CPUs |-> NoEnv]
  /\ monitor = FALSE
  /\ pte = [e \in Envs |-> [va \in VAs |->
              IF e = Parent /\ va \in UserVAs /\ InitPerm[va] # "none"
                THEN Map(va, InitPerm[va]) ELSE Unmapped]]
  /\ mem = [p \in Pages |-> 0]
  /\ pc = [e \in Envs |-> IF e = Parent THEN "start" ELSE "user"]
  /\ pf = [e \in Envs |-> "none"]
  /\ fva = [e \in Envs |-> 1]
  /\ upcall = [e \in Envs |-> FALSE]
  /\ child = NoEnv
  /\ dva = 1

\* page_alloc: a page no page table maps (the free list's order is
\* abstracted to the lowest such page); ALLOC_ZERO clears it.
FreePages == {p \in Pages : \A e \in Envs, va \in VAs : pte[e][va].pp # p}
NewPage == CHOOSE p \in FreePages : \A q \in FreePages : p <= q

\* env_free: an env that a step leaves FREE has its page table emptied.
FreeTables ==
  pte' = [e \in Envs |-> IF status'[e] = "FREE" THEN [va \in VAs |-> Unmapped] ELSE pte[e]]

\* The env on c, running user code.
Cur(c) == curenv[c]

(***************************************************************************)
(* fork()                                                                  *)
(***************************************************************************)
\* set_pgfault_handler(pgfault): on first use it allocates the exception
\* stack and sets the upcall.  sys_exofork: the first free env becomes the
\* NOT_RUNNABLE child, which returns 0 from fork into its program.
ForkBegin(c) ==
  LET e == Cur(c)
      ch == CHOOSE x \in Envs : status[x] = "FREE" /\ \A y \in Envs : status[y] = "FREE" => x <= y
  IN
  /\ Runs(c) /\ pc[e] = "start" /\ pf[e] = "none"
  /\ \E x \in Envs : status[x] = "FREE"
  /\ pte' = IF upcall[e] THEN pte ELSE [pte EXCEPT ![e][UX] = Map(NewPage, "W")]
  /\ mem' = IF upcall[e] THEN mem ELSE [mem EXCEPT ![NewPage] = 0]
  /\ upcall' = [upcall EXCEPT ![e] = TRUE, ![ch] = FALSE]
  /\ status' = [status EXCEPT ![ch] = "NOT_RUNNABLE"]
  /\ pc' = [pc EXCEPT ![e] = "dup", ![ch] = "user"]
  /\ pf' = [pf EXCEPT ![ch] = "none"]
  /\ child' = ch
  /\ dva' = 1
  /\ UNCHANGED <<envcpu, curenv, monitor, fva>>

\* One iteration of the loop over addr < USTACKTOP: a page that is not
\* present is skipped; duppage maps a writable or copy-on-write page into
\* the child copy-on-write (and goes on to remap ours), a read-only page
\* read-only.
DupLoopPastUstacktop(c) ==
  LET e == Cur(c) IN
  /\ Runs(c) /\ pc[e] = "dup" /\ pf[e] = "none" /\ dva <= NVA + 1
  /\ \/ pte[e][dva].pp = 0 /\ dva' = dva + 1 /\ UNCHANGED <<pte, pc>>
     \/ /\ pte[e][dva].pp # 0 /\ pte[e][dva].perm \in {"W", "COW"}
        /\ pte' = [pte EXCEPT ![child][dva] = Map(pte[e][dva].pp, "COW")]
        /\ pc' = [pc EXCEPT ![e] = "dup_parent"]
        /\ UNCHANGED dva
     \/ /\ pte[e][dva].pp # 0 /\ pte[e][dva].perm = "RO"
        /\ pte' = [pte EXCEPT ![child][dva] = Map(pte[e][dva].pp, "RO")]
        /\ dva' = dva + 1 /\ UNCHANGED pc
  /\ UNCHANGED <<schedVars, mem, pf, fva, upcall, child>>

Dup(c) ==
  LET e == Cur(c) IN
  /\ Runs(c) /\ pc[e] = "dup" /\ pf[e] = "none" /\ dva <= NVA
  /\ \/ pte[e][dva].pp = 0 /\ dva' = dva + 1 /\ UNCHANGED <<pte, pc>>
     \/ /\ pte[e][dva].pp # 0 /\ pte[e][dva].perm \in {"W", "COW"}
        /\ pte' = [pte EXCEPT ![child][dva] = Map(pte[e][dva].pp, "COW")]
        /\ pc' = [pc EXCEPT ![e] = "dup_parent"]
        /\ UNCHANGED dva
     \/ /\ pte[e][dva].pp # 0 /\ pte[e][dva].perm = "RO"
        /\ pte' = [pte EXCEPT ![child][dva] = Map(pte[e][dva].pp, "RO")]
        /\ dva' = dva + 1 /\ UNCHANGED pc
  /\ UNCHANGED <<schedVars, mem, pf, fva, upcall, child>>

\* duppage's second sys_page_map: our own mapping, copy-on-write too.
DupParentNoop(c) ==
  LET e == Cur(c) IN
  /\ Runs(c) /\ pc[e] = "dup_parent" /\ pf[e] = "none"
  /\ pc' = [pc EXCEPT ![e] = "dup"]
  /\ dva' = dva + 1
  /\ UNCHANGED <<schedVars, pte, mem, pf, fva, upcall, child>>

DupParent(c) ==
  LET e == Cur(c) IN
  /\ Runs(c) /\ pc[e] = "dup_parent" /\ pf[e] = "none"
  /\ pte' = [pte EXCEPT ![e][dva] = Map(@.pp, "COW")]
  /\ pc' = [pc EXCEPT ![e] = "dup"]
  /\ dva' = dva + 1
  /\ UNCHANGED <<schedVars, mem, pf, fva, upcall, child>>

\* The loop is done: a fresh exception stack for the child and its upcall.
Setup(c) ==
  LET e == Cur(c) IN
  /\ Runs(c) /\ pc[e] = "dup" /\ pf[e] = "none" /\ dva = NVA + 1
  /\ pte' = [pte EXCEPT ![child][UX] = Map(NewPage, "W")]
  /\ mem' = [mem EXCEPT ![NewPage] = 0]
  /\ upcall' = [upcall EXCEPT ![child] = TRUE]
  /\ pc' = [pc EXCEPT ![e] = "setstatus"]
  /\ UNCHANGED <<schedVars, pf, fva, child, dva>>

\* sys_env_set_status(child, ENV_RUNNABLE); fork returns to the parent.
SetStatus(c) ==
  LET e == Cur(c) IN
  /\ Runs(c) /\ pc[e] = "setstatus" /\ pf[e] = "none"
  /\ status' = [status EXCEPT ![child] = "RUNNABLE"]
  /\ pc' = [pc EXCEPT ![e] = "user"]
  /\ UNCHANGED <<envcpu, curenv, monitor, pte, mem, pf, fva, upcall, child, dva>>

ForkStep(c) ==
  ForkBegin(c) \/ Dup(c) \/ DupParent(c) \/ Setup(c) \/ SetStatus(c)

(***************************************************************************)
(* User programs.  Fork's own frames live on the stack page StackVa, so    *)
(* the parent writes it during fork; after fork every env writes any of    *)
(* its pages.  A write through a writable mapping stores the value; any    *)
(* other write to a present page traps, and the kernel runs the env's      *)
(* upcall on its exception stack, into pgfault.  The faulting write is     *)
(* retried after pgfault returns, as a later write.                        *)
(***************************************************************************)
StackVa == NVA

CanWrite(c, va) ==
  LET e == Cur(c) IN
  /\ Runs(c) /\ pf[e] = "none"
  /\ pc[e] = "user" \/ va = StackVa
  /\ pte[e][va].pp # 0

Write(c, va, v) ==
  LET e == Cur(c) IN
  /\ CanWrite(c, va)
  /\ pte[e][va].perm = "W"
  /\ mem' = [mem EXCEPT ![pte[e][va].pp] = v]
  /\ UNCHANGED <<schedVars, pte, pc, pf, fva, upcall, child, dva>>

Fault(c, va) ==
  LET e == Cur(c) IN
  /\ CanWrite(c, va)
  /\ pte[e][va].perm # "W"
  /\ upcall[e] /\ pte[e][UX].pp # 0
  /\ pf' = [pf EXCEPT ![e] = "alloc"]
  /\ fva' = [fva EXCEPT ![e] = va]
  /\ UNCHANGED <<schedVars, pte, mem, pc, upcall, child, dva>>

\* pgfault: the check of line 27 lets every write fault through;
\* sys_page_alloc(0, PFTEMP, PTE_U|PTE_W|PTE_P).
PgfaultAlloc(c) ==
  LET e == Cur(c) IN
  /\ Runs(c) /\ pf[e] = "alloc"
  /\ pte' = [pte EXCEPT ![e][PFTEMP] = Map(NewPage, "W")]
  /\ mem' = [mem EXCEPT ![NewPage] = 0]
  /\ pf' = [pf EXCEPT ![e] = "map"]
  /\ UNCHANGED <<schedVars, pc, fva, upcall, child, dva>>

\* memcpy(PFTEMP, ROUNDDOWN(addr)); sys_page_map(PFTEMP -> addr, writable).
PgfaultMapNoCopy(c) ==
  LET e == Cur(c) IN
  /\ Runs(c) /\ pf[e] = "map"
  /\ pte' = [pte EXCEPT ![e][fva[e]] = Map(pte[e][PFTEMP].pp, "W")]
  /\ pf' = [pf EXCEPT ![e] = "unmap"]
  /\ UNCHANGED <<schedVars, mem, pc, fva, upcall, child, dva>>

PgfaultMap(c) ==
  LET e == Cur(c) IN
  /\ Runs(c) /\ pf[e] = "map"
  /\ mem' = [mem EXCEPT ![pte[e][PFTEMP].pp] = mem[pte[e][fva[e]].pp]]
  /\ pte' = [pte EXCEPT ![e][fva[e]] = Map(pte[e][PFTEMP].pp, "W")]
  /\ pf' = [pf EXCEPT ![e] = "unmap"]
  /\ UNCHANGED <<schedVars, pc, fva, upcall, child, dva>>

\* sys_page_unmap(0, PFTEMP); the upcall returns to the faulting write.
PgfaultUnmap(c) ==
  LET e == Cur(c) IN
  /\ Runs(c) /\ pf[e] = "unmap"
  /\ pte' = [pte EXCEPT ![e][PFTEMP] = Unmapped]
  /\ pf' = [pf EXCEPT ![e] = "none"]
  /\ UNCHANGED <<schedVars, mem, pc, fva, upcall, child, dva>>

Pgfault(c) == PgfaultAlloc(c) \/ PgfaultMap(c) \/ PgfaultUnmap(c)

\* After fork an env may sys_yield, exit (sys_env_destroy(0)), and the
\* parent may sys_env_destroy its child.
InUser(c) == Runs(c) /\ pc[Cur(c)] = "user" /\ pf[Cur(c)] = "none"

Yield(c) ==
  /\ InUser(c) /\ SysYield(c)
  /\ UNCHANGED forkVars

Exit(c) ==
  /\ InUser(c) /\ EnvDestroy(c, Cur(c))
  /\ FreeTables
  /\ UNCHANGED <<mem, pc, pf, fva, upcall, child, dva>>

Kill(c) ==
  /\ InUser(c) /\ Cur(c) = Parent /\ child # NoEnv
  /\ EnvDestroy(c, child)
  /\ FreeTables
  /\ UNCHANGED <<mem, pc, pf, fva, upcall, child, dva>>

\* A timer interrupt; a DYING env is freed at its trap.
Interrupt(c) ==
  /\ Timer(c)
  /\ FreeTables
  /\ UNCHANGED <<mem, pc, pf, fva, upcall, child, dva>>

Next ==
  \/ \E c \in CPUs :
       \/ Interrupt(c) \/ ForkStep(c) \/ Pgfault(c)
       \/ \E va \in UserVAs : Fault(c, va) \/ \E v \in Values : Write(c, va, v)
       \/ Yield(c) \/ Exit(c) \/ Kill(c)
  \/ monitor /\ UNCHANGED vars

\* The LAPIC timer keeps interrupting every CPU.
Fairness == \A c \in CPUs : WF_vars(Interrupt(c))

Spec == Init /\ [][Next]_vars /\ Fairness

-----------------------------------------------------------------------------
(***************************************************************************)
(* Properties                                                              *)
(***************************************************************************)

Alive(st, e) == st[e] \in {"RUNNABLE", "RUNNING", "DYING"}

\* What env e reads at each user page (-1: not present).
View(e) == [va \in UserVAs |-> IF pte[e][va].pp = 0 THEN -1 ELSE mem[pte[e][va].pp]]

\* Copy-on-write is invisible: once fork has made the child runnable, what
\* an env reads at a page changes only through a writable mapping of its
\* own that the step leaves in place, i.e. by its own write.  No other
\* env's write, no pgfault copy and no remapping changes it.
PrivateMemory ==
  [][\A e \in Envs : Alive(status, e) /\ Alive(status', e) =>
       \A va \in UserVAs : View(e)'[va] # View(e)[va] =>
          pte'[e][va] = pte[e][va] /\ pte[e][va].perm = "W"]_vars

\* pgfault's contract (fork.c lines 17-18): a fault that is not a write
\* to a copy-on-write page panics.  So a page mapped read-only in the
\* parent is never made writable in any env.
ReadOnlyStaysReadOnly ==
  \A e \in Envs, va \in UserVAs : InitPerm[va] = "RO" => pte[e][va].perm # "W"
====
