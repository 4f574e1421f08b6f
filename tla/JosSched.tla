------------------------------ MODULE JosSched ------------------------------
(***************************************************************************)
(* The JOS round-robin scheduler (lab4 kern/sched.c: sched_yield,          *)
(* sched_halt) on several CPUs.  Every entry to the kernel holds the big   *)
(* kernel lock and ends in env_run or sched_halt, so each trap, with the   *)
(* scheduling it does, is one step.  env_run, env_destroy, env_free and    *)
(* the trap path are not in the tree; they are modelled from the lab's    *)
(* documented contract (the comments in sched.c): env_run demotes the      *)
(* CPU's RUNNING env to RUNNABLE and runs the new one on this CPU;         *)
(* env_destroy marks an env running on another CPU DYING, and a DYING env  *)
(* is freed when it next traps.  The modules that use the scheduler        *)
(* (JosIpc, JosFork) drive it with their own user programs and the timer.  *)
(***************************************************************************)
EXTENDS Integers, FiniteSets

CONSTANTS
  NENV,    \* size of envs[]; an env is its index ENVX(env_id)
  CPUs,    \* the CPUs
  NoEnv,   \* thiscpu->cpu_env == NULL
  BootCpu  \* CPU 0

Envs == 0..NENV-1
Statuses == {"FREE", "DYING", "RUNNABLE", "RUNNING", "NOT_RUNNABLE"}

VARIABLES
  status,    \* envs[e].env_status
  envcpu,    \* envs[e].env_cpunum
  curenv,    \* cpus[c].cpu_env
  monitor    \* sched_halt found no env to run and entered the monitor

schedVars == <<status, envcpu, curenv, monitor>>

SchedTypeOK ==
  /\ status \in [Envs -> Statuses]
  /\ envcpu \in [Envs -> CPUs]
  /\ curenv \in [CPUs -> Envs \cup {NoEnv}]
  /\ monitor \in BOOLEAN

\* Every env starts RUNNABLE, its zeroed env_cpunum naming the boot CPU,
\* and no CPU runs one yet.
SchedInit ==
  /\ status = [e \in Envs |-> "RUNNABLE"]
  /\ envcpu = [e \in Envs |-> BootCpu]
  /\ curenv = [c \in CPUs |-> NoEnv]
  /\ monitor = FALSE

(***************************************************************************)
(* sched_yield with cur as the CPU's env and st as the statuses, after     *)
(* whatever the trap did before calling it.  The scan starts at cur's      *)
(* slot (slot 0 with no env) and takes the first RUNNABLE env in circular  *)
(* order; failing that, cur again if it is RUNNING on this CPU; failing    *)
(* that, sched_halt.                                                       *)
(***************************************************************************)
StartId(cur) == IF cur = NoEnv THEN 0 ELSE cur

\* i such that (startid + i) % NENV = e.
ScanPos(s, e) == (e - s) % NENV

RunnableOrRunning(st) == {e \in Envs : st[e] \in {"RUNNABLE", "RUNNING"}}

Runnable(st) == {e \in Envs : st[e] = "RUNNABLE"}

NextRunnable(cur, st) ==
  CHOOSE e \in Runnable(st) :
    \A x \in Runnable(st) : ScanPos(StartId(cur), e) <= ScanPos(StartId(cur), x)

\* env_run(e): cur, if RUNNING, becomes RUNNABLE; e runs on c.
EnvRun(c, cur, st, e) ==
  /\ status' = [x \in Envs |-> IF x = e THEN "RUNNING"
                               ELSE IF x = cur /\ st[x] = "RUNNING" THEN "RUNNABLE"
                               ELSE st[x]]
  /\ envcpu' = [envcpu EXCEPT ![e] = c]
  /\ curenv' = [curenv EXCEPT ![c] = e]
  /\ UNCHANGED monitor

\* sched_halt, cur being the caller's cpu_env: the monitor if no env is
\* RUNNABLE, RUNNING or DYING; otherwise the CPU drops its env and halts
\* until the next interrupt.
SchedHalt(c, cur, st) ==
  /\ status' = st
  /\ IF \A e \in Envs : st[e] \notin {"RUNNABLE", "RUNNING", "DYING"}
       THEN monitor' = TRUE /\ curenv' = [curenv EXCEPT ![c] = cur]
       ELSE curenv' = [curenv EXCEPT ![c] = NoEnv] /\ UNCHANGED monitor
  /\ UNCHANGED envcpu

ScheduleCurFirst(c, cur, st) ==
  LET s == StartId(cur) IN
  IF st[s] = "RUNNING" /\ envcpu[s] = c THEN EnvRun(c, cur, st, cur)
  ELSE IF Runnable(st) # {} THEN EnvRun(c, cur, st, NextRunnable(cur, st))
  ELSE SchedHalt(c, cur, st)

Schedule(c, cur, st) ==
  LET s == StartId(cur) IN
  IF Runnable(st) # {} THEN EnvRun(c, cur, st, NextRunnable(cur, st))
  ELSE IF st[s] = "RUNNING" /\ envcpu[s] = c THEN EnvRun(c, cur, st, cur)
  ELSE SchedHalt(c, cur, st)

(***************************************************************************)
(* Traps.  A timer interrupt reaches a CPU running an env or halted; a     *)
(* DYING env is freed first (trap.c), then sched_yield.  sys_yield is the  *)
(* running env's own call of sched_yield.                                  *)
(***************************************************************************)
Timer(c) ==
  LET cur == curenv[c] IN
  /\ ~monitor
  /\ IF cur # NoEnv /\ status[cur] = "DYING"
       THEN Schedule(c, NoEnv, [status EXCEPT ![cur] = "FREE"])
       ELSE Schedule(c, cur, status)

\* The env on c is running user code (not DYING, not blocked).
Runs(c) == curenv[c] # NoEnv /\ status[curenv[c]] = "RUNNING" /\ ~monitor

SysYield(c) ==
  /\ Runs(c)
  /\ Schedule(c, curenv[c], status)

(***************************************************************************)
(* sys_env_destroy(e) by the env on c: an env running on another CPU       *)
(* becomes DYING; otherwise env_free, and destroying itself the caller    *)
(* schedules from an empty cpu_env.  A DYING env is not destroyed again.  *)
(***************************************************************************)
EnvDestroy(c, e) ==
  /\ Runs(c)
  /\ status[e] \in {"RUNNABLE", "RUNNING", "NOT_RUNNABLE"}
  /\ IF e = curenv[c]
       THEN Schedule(c, NoEnv, [status EXCEPT ![e] = "FREE"])
       ELSE /\ status' = [status EXCEPT ![e] =
                            IF @ = "RUNNING" THEN "DYING" ELSE "FREE"]
            /\ UNCHANGED <<envcpu, curenv, monitor>>

-----------------------------------------------------------------------------
(***************************************************************************)
(* Properties                                                              *)
(***************************************************************************)

\* sched.c: "Never choose an environment that's currently running on
\* another CPU".  An env is RUNNING exactly when it is the env of the CPU
\* recorded in its env_cpunum, and a CPU's env is RUNNING or DYING there.
RunningOnItsCpu ==
  /\ \A e \in Envs : status[e] = "RUNNING" => curenv[envcpu[e]] = e
  /\ \A c \in CPUs : curenv[c] # NoEnv =>
        /\ status[curenv[c]] \in {"RUNNING", "DYING"}
        /\ envcpu[curenv[c]] = c

\* Round robin: an env that is RUNNABLE eventually runs (or is destroyed),
\* since each CPU's scan starts at its own env and goes round the table.
RunnableEventuallyRuns ==
  \A e \in Envs : status[e] = "RUNNABLE" ~> status[e] # "RUNNABLE"
====
