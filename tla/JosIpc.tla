------------------------------- MODULE JosIpc -------------------------------
(***************************************************************************)
(* JOS IPC (lab4 lib/ipc.c: ipc_send, ipc_recv, ipc_find_env) over the     *)
(* scheduler of JosSched.  Senders find the file-server env with           *)
(* ipc_find_env and send it messages with ipc_send, which spins on         *)
(* sys_ipc_try_send while the receiver is not waiting and calls sys_yield  *)
(* after a send succeeds; the receiver loops on ipc_recv.  The kernel      *)
(* calls sys_ipc_try_send and sys_ipc_recv are not in the tree and follow  *)
(* the contract ipc.c's comments rely on: sys_ipc_recv fails with          *)
(* -E_INVAL for a dstva below UTOP that is not page-aligned, else marks    *)
(* the env receiving and NOT_RUNNABLE and yields; sys_ipc_try_send fails   *)
(* with -E_IPC_NOT_RECV unless the target is receiving, else records       *)
(* from and value in the target, clears its receiving flag, makes it       *)
(* RUNNABLE and makes its sys_ipc_recv return 0.  A failed try changes no  *)
(* state, so the spin is stuttering.  Pages are not transferred (perm 0).  *)
(* Each sender's messages carry an alternating bit, so a message lost or   *)
(* delivered twice shows.                                                  *)
(***************************************************************************)
EXTENDS JosSched

CONSTANTS
  EnvType,   \* envs[e].env_type
  RecvPgs    \* the pg arguments the receiver passes to ipc_recv

\* ipc_find_env(type): the first env of that type, or 0 (NoEnv).
IpcFindEnv(t) ==
  IF \E e \in Envs : EnvType[e] = t
    THEN CHOOSE e \in Envs : EnvType[e] = t /\ \A x \in Envs : EnvType[x] = t => e <= x
    ELSE NoEnv

Receiver == IpcFindEnv("ENV_TYPE_FS")
Senders == Envs \ {Receiver}

VARIABLES
  recving,   \* envs[e].env_ipc_recving
  ipcfrom,   \* envs[e].env_ipc_from (0: NoEnv)
  ipcvalue,  \* envs[e].env_ipc_value
  rres,      \* the receiver's sys_ipc_recv result (its eax)
  upc,       \* each env's place in its user program
  seq,       \* each sender's next message bit
  rfrom,     \* the receiver's *from_env_store
  rval,      \* the value ipc_recv returned
  expect,    \* the receiver's next expected bit from each sender
  fresh      \* the env on each CPU has not run since it was scheduled

ipcVars == <<recving, ipcfrom, ipcvalue, rres, upc, seq, rfrom, rval, expect, fresh>>
vars == <<schedVars, ipcVars>>

TypeOK ==
  /\ SchedTypeOK
  /\ recving \in [Envs -> BOOLEAN]
  /\ ipcfrom \in [Envs -> Envs \cup {NoEnv}]
  /\ ipcvalue \in [Envs -> {0, 1}]
  /\ rres \in {0, -1}
  /\ upc \in [Envs -> {"send", "yield", "recv", "read", "handle"}]
  /\ seq \in [Envs -> {0, 1}]
  /\ rfrom \in Envs \cup {NoEnv}
  /\ rval \in {-1, 0, 1}
  /\ expect \in [Envs -> {0, 1}]
  /\ fresh \in [CPUs -> BOOLEAN]

Init ==
  /\ SchedInit
  /\ recving = [e \in Envs |-> FALSE]
  /\ ipcfrom = [e \in Envs |-> NoEnv]
  /\ ipcvalue = [e \in Envs |-> 0]
  /\ rres = 0
  /\ upc = [e \in Envs |-> IF e = Receiver THEN "recv" ELSE "send"]
  /\ seq = [e \in Envs |-> 0]
  /\ rfrom = NoEnv
  /\ rval = 0
  /\ expect = [e \in Envs |-> 0]
  /\ fresh = [c \in CPUs |-> FALSE]

\* The env running user code on c, at pc l.
At(c, l) == Runs(c) /\ upc[curenv[c]] = l

(***************************************************************************)
(* ipc_send: one successful sys_ipc_try_send ends the spin.                *)
(***************************************************************************)
TrySendNoRecvCheck(c) ==
  LET s == curenv[c]
      to == IpcFindEnv("ENV_TYPE_FS")
  IN
  /\ At(c, "send")
  /\ recving' = [recving EXCEPT ![to] = FALSE]
  /\ ipcfrom' = [ipcfrom EXCEPT ![to] = s]
  /\ ipcvalue' = [ipcvalue EXCEPT ![to] = seq[s]]
  /\ rres' = 0
  /\ status' = [status EXCEPT ![to] = "RUNNABLE"]
  /\ upc' = [upc EXCEPT ![s] = "yield"]
  /\ UNCHANGED <<envcpu, curenv, monitor, seq, rfrom, rval, expect>>
  /\ fresh' = [fresh EXCEPT ![c] = FALSE]

TrySendNoWake(c) ==
  LET s == curenv[c]
      to == IpcFindEnv("ENV_TYPE_FS")
  IN
  /\ At(c, "send")
  /\ recving[to]
  /\ recving' = [recving EXCEPT ![to] = FALSE]
  /\ ipcfrom' = [ipcfrom EXCEPT ![to] = s]
  /\ ipcvalue' = [ipcvalue EXCEPT ![to] = seq[s]]
  /\ rres' = 0
  /\ upc' = [upc EXCEPT ![s] = "yield"]
  /\ UNCHANGED <<status, envcpu, curenv, monitor, seq, rfrom, rval, expect>>
  /\ fresh' = [fresh EXCEPT ![c] = FALSE]

TrySend(c) ==
  LET s == curenv[c]
      to == IpcFindEnv("ENV_TYPE_FS")
  IN
  /\ At(c, "send")
  /\ recving[to]
  /\ recving' = [recving EXCEPT ![to] = FALSE]
  /\ ipcfrom' = [ipcfrom EXCEPT ![to] = s]
  /\ ipcvalue' = [ipcvalue EXCEPT ![to] = seq[s]]
  /\ rres' = 0
  /\ status' = [status EXCEPT ![to] = "RUNNABLE"]
  /\ upc' = [upc EXCEPT ![s] = "yield"]
  /\ UNCHANGED <<envcpu, curenv, monitor, seq, rfrom, rval, expect>>
  /\ fresh' = [fresh EXCEPT ![c] = FALSE]

\* sys_yield at the end of ipc_send; the sender's next message follows.
SendYield(c) ==
  LET s == curenv[c] IN
  /\ At(c, "yield")
  /\ Schedule(c, s, status)
  /\ upc' = [upc EXCEPT ![s] = "send"]
  /\ seq' = [seq EXCEPT ![s] = 1 - @]
  /\ UNCHANGED <<recving, ipcfrom, ipcvalue, rres, rfrom, rval, expect>>
  /\ fresh' = [fresh EXCEPT ![c] = TRUE]

(***************************************************************************)
(* ipc_recv(&from, pg, 0): sys_ipc_recv(pg, or UTOP for NULL).             *)
(***************************************************************************)
RecvCall(c, pg) ==
  LET r == curenv[c] IN
  /\ At(c, "recv")
  /\ upc' = [upc EXCEPT ![r] = "read"]
  /\ IF pg = "unaligned"
       THEN /\ rres' = -1
            /\ UNCHANGED <<schedVars, recving>>
       ELSE /\ recving' = [recving EXCEPT ![r] = TRUE]
            /\ Schedule(c, r, [status EXCEPT ![r] = "NOT_RUNNABLE"])
            /\ UNCHANGED rres
  /\ UNCHANGED <<ipcfrom, ipcvalue, seq, rfrom, rval, expect>>
  /\ fresh' = [fresh EXCEPT ![c] = pg # "unaligned"]

\* After the call: on failure *from_env_store = 0, then (on every path)
\* *from_env_store = thisenv->env_ipc_from and the return value is
\* thisenv->env_ipc_value.
RecvReturn(c) ==
  LET r == curenv[c] IN
  /\ At(c, "read")
  /\ rfrom' = ipcfrom[r]
  /\ rval' = ipcvalue[r]
  /\ upc' = [upc EXCEPT ![r] = "handle"]
  /\ UNCHANGED <<schedVars, recving, ipcfrom, ipcvalue, rres, seq, expect>>
  /\ fresh' = [fresh EXCEPT ![c] = FALSE]

\* The receiver takes the message and calls ipc_recv again.
Handle(c) ==
  LET r == curenv[c] IN
  /\ At(c, "handle")
  /\ expect' = IF rfrom \in Senders THEN [expect EXCEPT ![rfrom] = 1 - @] ELSE expect
  /\ upc' = [upc EXCEPT ![r] = "recv"]
  /\ UNCHANGED <<schedVars, recving, ipcfrom, ipcvalue, rres, seq, rfrom, rval>>
  /\ fresh' = [fresh EXCEPT ![c] = FALSE]

UserStep(c) ==
  \/ TrySend(c) \/ SendYield(c)
  \/ \E pg \in RecvPgs : RecvCall(c, pg)
  \/ RecvReturn(c) \/ Handle(c)

\* The env on c has a step to take: a sender spins (a failed try changes
\* nothing) while the receiver is not waiting; every other step is ready.
CanStep(c) ==
  /\ Runs(c)
  /\ upc[curenv[c]] = "send" => recving[Receiver]

\* A timer interrupt leaves the user programs where they are.  A quantum
\* is long enough for an env that was just scheduled to take a step it
\* can take before the next interrupt preempts it.
Interrupt(c) ==
  /\ ~(fresh[c] /\ CanStep(c))
  /\ Timer(c)
  /\ fresh' = [fresh EXCEPT ![c] = TRUE]
  /\ UNCHANGED <<recving, ipcfrom, ipcvalue, rres, upc, seq, rfrom, rval, expect>>

Next ==
  \E c \in CPUs : Interrupt(c) \/ UserStep(c)

\* The timer interrupts every CPU, and a CPU runs its env's code.
Fairness == \A c \in CPUs : WF_vars(Interrupt(c)) /\ WF_vars(UserStep(c))

Spec == Init /\ [][Next]_vars /\ Fairness

-----------------------------------------------------------------------------
(***************************************************************************)
(* Properties                                                              *)
(***************************************************************************)

\* Every message ipc_recv hands the receiver is the next one of the env
\* it names as sender: none is lost (overwritten before it was read) and
\* none is taken twice, through every interleaving of the senders' spins,
\* the receiver's blocking and the scheduler.
ExactlyOnceInOrder ==
  upc[Receiver] = "handle" => rfrom \in Senders /\ rval = expect[rfrom]

\* ipc.c's contract: "If the system call fails, then store 0 in *fromenv
\* and *perm (if they're nonnull) and return the error."
RecvErrorReported ==
  upc[Receiver] = "handle" /\ rres < 0 => rfrom = NoEnv /\ rval = rres

\* A receiver blocked in ipc_recv returns from it: some sender's
\* sys_ipc_try_send finds it waiting, wakes it, and the scheduler runs it.
RecvCompletes ==
  upc[Receiver] = "read" ~> upc[Receiver] = "handle"
====
