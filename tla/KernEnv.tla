------------------------------ MODULE KernEnv ------------------------------
(***************************************************************************)
(* Environments (processes), the scheduler and the trap path of the kernel *)
(* on a multiprocessor: kern/env.c, kern/sched.c, kern/trap.c and the      *)
(* system calls of kern/syscall.c that create, stop, block or destroy an   *)
(* environment.                                                            *)
(*                                                                         *)
(* A CPU runs user code, traps, spins on the big kernel lock, and then     *)
(* runs one handler that ends in user mode again, in hlt or in the kernel  *)
(* monitor.  The handler is one step, because nothing it touches is        *)
(* accessed without the lock; everything up to the lock is interleaved.    *)
(* A breakpoint's handler is two: in between the operator has the monitor. *)
(*                                                                         *)
(* Left out: register files, page tables (module PageMap: here an address  *)
(* space exists or not) and the contents of IPC messages (module Ipc: here *)
(* an environment blocks in sys_ipc_recv and a send wakes it).             *)
(***************************************************************************)
EXTENDS Naturals, Sequences, Cpus

CONSTANTS
  BSP,               \* the CPU that boots
  NENV,              \* slots in envs[]
  NGEN,              \* generations before env_alloc's counter wraps to 1
  NINIT,             \* environments created by i386_init
  NoEnv              \* the null struct Env pointer

ASSUME CpuAssumption == BSP \in CPUS
ASSUME EnvAssumption == /\ NENV \in Nat \ {0}
                        /\ NGEN \in Nat /\ NGEN > 1
                        /\ NINIT \in 0 .. NENV
                        /\ NoEnv \notin 0 .. NENV - 1

VARIABLES
  lock,             \* the CPU that holds kernel_lock, or NoCpu
  pc,               \* what each CPU is doing
  curenv,           \* cpus[c].cpu_env
  env_status,
  env_id,           \* generation of each slot's env_id; 0: never allocated
  env_parent_id,
  env_pgdir,        \* whether the slot has an address space (env_pgdir # NULL)
  env_ipc_recving,
  env_free_list

table == <<env_id, env_parent_id, env_pgdir, env_ipc_recving, env_free_list>>
vars  == <<lock, pc, curenv, env_status, table>>

Slots  == 0 .. NENV - 1
Status == {"FREE", "DYING", "RUNNABLE", "RUNNING", "NOT_RUNNABLE"}

\* An envid_t: generation and index.  No environment gets generation 0: Self
\* is the envid 0, "the caller", and the parent of what the kernel creates.
EnvId == [gen : 0 .. NGEN - 1, idx : Slots]
Self  == [gen |-> 0, idx |-> 0]
IdOf(e) == [gen |-> env_id[e], idx |-> e]

Spinning == {"boot",    \* mp_main, before its sched_yield()
             "trap",    \* trap() from user mode: system call, fault, device
             "timer",   \* trap() from user mode: clock interrupt
             "wake"}    \* trap() out of the hlt of sched_halt()
Labels == Spinning \cup {"user", "halted", "panic", "stopped",
             "breakpoint",  \* in the monitor, for an int3 of its environment
             "monitor"}     \* in the monitor of sched_halt(), for good

TypeOK ==
  /\ lock \in CPUS \cup {NoCpu}
  /\ pc \in [CPUS -> Labels]
  /\ curenv \in [CPUS -> Slots \cup {NoEnv}]
  /\ env_status \in [Slots -> Status]
  /\ env_id \in [Slots -> 0 .. NGEN - 1]
  /\ env_parent_id \in [Slots -> EnvId]
  /\ env_pgdir \in [Slots -> BOOLEAN]
  /\ env_ipc_recving \in [Slots -> BOOLEAN]
  /\ env_free_list \in Seq(Slots)
  /\ \A e \in Slots : env_pgdir[e] => env_id[e] # 0  \* it would be "the caller"

(***************************************************************************)
(* i386_init has taken the lock, started the other CPUs and created the    *)
(* first environments; env_init built the free list in index order.        *)
(***************************************************************************)
Init ==
  /\ lock = BSP
  /\ pc = [c \in CPUS |-> "boot"]
  /\ curenv = [c \in CPUS |-> NoEnv]
  /\ env_status = [e \in Slots |-> IF e < NINIT THEN "RUNNABLE" ELSE "FREE"]
  /\ env_id = [e \in Slots |-> IF e < NINIT THEN 1 ELSE 0]
  /\ env_parent_id = [e \in Slots |-> Self]
  /\ env_pgdir = [e \in Slots |-> e < NINIT]
  /\ env_ipc_recving = [e \in Slots |-> FALSE]
  /\ env_free_list = [i \in 1 .. NENV - NINIT |-> NINIT + i - 1]

Goto(c, label) == pc' = [pc EXCEPT ![c] = label]

-----------------------------------------------------------------------------
(***************************************************************************)
(* The scheduler.  These operators end a handler of CPU c: they are given  *)
(* the statuses st and the current environment cur the handler has left,   *)
(* and settle env_status, curenv, pc and lock.  env_pgdir' is settled by   *)
(* the handler itself.                                                     *)
(***************************************************************************)

\* panic() keeps the lock and stays in the monitor.
Panic(c) == Goto(c, "panic") /\ UNCHANGED lock

\* env_run(e) on c.  PADDR(e->env_pgdir) panics on a null page directory.
EnvRun(c, st, cur, e) ==
  LET st1 == IF cur # NoEnv /\ st[cur] = "RUNNING"
             THEN [st EXCEPT ![cur] = "RUNNABLE"] ELSE st
  IN  /\ env_status' = [st1 EXCEPT ![e] = "RUNNING"]
      /\ curenv' = [curenv EXCEPT ![c] = e]
      /\ IF env_pgdir'[e] THEN Goto(c, "user") /\ lock' = NoCpu ELSE Panic(c)

\* Mutant: only RUNNABLE keeps the CPU out of the monitor.
SchedHaltEarly(c, st, cur) ==
  /\ env_status' = st
  /\ curenv' = [curenv EXCEPT ![c] = cur]
  /\ Goto(c, "monitor")
  /\ UNCHANGED lock

\* Without an environment that can run now or later the CPU enters the
\* monitor, again and again, and never gives the lock back; otherwise it halts.
SchedHalt(c, st, cur) ==
  /\ env_status' = st
  /\ IF \E e \in Slots : st[e] \in {"RUNNABLE", "RUNNING", "DYING"}
     THEN /\ curenv' = [curenv EXCEPT ![c] = NoEnv]
          /\ Goto(c, "halted")
          /\ lock' = NoCpu
     ELSE /\ curenv' = [curenv EXCEPT ![c] = cur]
          /\ Goto(c, "monitor")
          /\ UNCHANGED lock

\* Mutant: every search starts at slot 0.
DistanceFromZero(cur, e) == e

\* How many slots the circular search passes before it reaches e, from the
\* slot after cur, or from slot 0 when there is no current environment.
Distance(cur, e) ==
  IF cur = NoEnv THEN e
  ELSE IF e > cur THEN e - cur - 1 ELSE e + NENV - cur - 1

FirstRunnable(st, cur) ==
  {e \in Slots : /\ st[e] = "RUNNABLE"
                 /\ \A f \in Slots : st[f] = "RUNNABLE"
                                       => Distance(cur, e) <= Distance(cur, f)}

SchedYield(c, st, cur) ==
  IF \E e \in Slots : st[e] = "RUNNABLE"
  THEN \E e \in FirstRunnable(st, cur) : EnvRun(c, st, cur, e)
  ELSE IF cur # NoEnv /\ st[cur] = "RUNNING"
       THEN EnvRun(c, st, cur, cur)
       ELSE SchedHalt(c, st, cur)

\* The end of trap(): back to the current environment if that makes sense.
TrapReturn(c, st) ==
  LET cur == curenv[c]
  IN  IF st[cur] = "RUNNING"
      THEN EnvRun(c, st, cur, cur)
      ELSE SchedYield(c, st, cur)

-----------------------------------------------------------------------------
(***************************************************************************)
(* envs[]                                                                  *)
(***************************************************************************)

\* envid2env on CPU c: the slot, or NoEnv for -E_BAD_ENV.
Envid2env(c, id, checkperm) ==
  LET cur == curenv[c]  e == id.idx
  IN  IF id = Self THEN cur
      ELSE IF env_status[e] = "FREE" \/ IdOf(e) # id THEN NoEnv
      ELSE IF checkperm /\ e # cur /\ env_parent_id[e] # IdOf(cur) THEN NoEnv
      ELSE e

\* Mutant: the counter passes the largest positive generation.
NextGenerationLate(g) == IF g < NGEN THEN g + 1 ELSE 1

NextGeneration(g) == IF g + 1 < NGEN THEN g + 1 ELSE 1

\* Mutant: the allocation is not committed to the free list.
EnvAllocUncommitted(e, parent) ==
  /\ env_free_list # << >> /\ e = Head(env_free_list)
  /\ env_id' = [env_id EXCEPT ![e] = NextGeneration(@)]
  /\ env_parent_id' = [env_parent_id EXCEPT ![e] = parent]
  /\ env_pgdir' = [env_pgdir EXCEPT ![e] = TRUE]
  /\ env_ipc_recving' = [env_ipc_recving EXCEPT ![e] = FALSE]
  /\ UNCHANGED env_free_list

\* env_alloc, once a slot and a page directory were found.  Its RUNNABLE is
\* overwritten by the caller before the lock is released.
EnvAlloc(e, parent) ==
  /\ env_free_list # << >> /\ e = Head(env_free_list)
  /\ env_free_list' = Tail(env_free_list)
  /\ env_id' = [env_id EXCEPT ![e] = NextGeneration(@)]
  /\ env_parent_id' = [env_parent_id EXCEPT ![e] = parent]
  /\ env_pgdir' = [env_pgdir EXCEPT ![e] = TRUE]
  /\ env_ipc_recving' = [env_ipc_recving EXCEPT ![e] = FALSE]

\* What env_free leaves: the slot keeps its id, its parent and its IPC flag.
EnvFree(e) ==
  /\ env_pgdir' = [env_pgdir EXCEPT ![e] = FALSE]
  /\ env_free_list' = <<e>> \o env_free_list
  /\ UNCHANGED <<env_id, env_parent_id, env_ipc_recving>>

\* env_free of a slot without a page directory faults in the kernel.
FreeFault(c) == Panic(c) /\ UNCHANGED <<curenv, env_status, table>>

\* env_free(curenv); curenv = NULL; sched_yield().
FreeCurrent(c) ==
  LET cur == curenv[c]
  IN  IF ~env_pgdir[cur] THEN FreeFault(c)
      ELSE /\ EnvFree(cur)
           /\ SchedYield(c, [env_status EXCEPT ![cur] = "FREE"], NoEnv)

\* Mutant: an environment that runs on another CPU is freed at once.
EnvDestroyAtOnce(c, e) ==
  IF e = curenv[c] THEN FreeCurrent(c)
  ELSE IF ~env_pgdir[e] THEN FreeFault(c)
  ELSE /\ EnvFree(e)
       /\ TrapReturn(c, [env_status EXCEPT ![e] = "FREE"])

\* env_destroy(e) on CPU c, for sys_env_destroy and for a fault of curenv.
EnvDestroy(c, e) ==
  IF env_status[e] = "RUNNING" /\ e # curenv[c]
  THEN /\ UNCHANGED table
       /\ TrapReturn(c, [env_status EXCEPT ![e] = "DYING"])
  ELSE IF e = curenv[c] THEN FreeCurrent(c)
  ELSE IF ~env_pgdir[e] THEN FreeFault(c)
  ELSE /\ EnvFree(e)
       /\ TrapReturn(c, [env_status EXCEPT ![e] = "FREE"])

-----------------------------------------------------------------------------
(***************************************************************************)
(* Up to the lock                                                          *)
(***************************************************************************)
Panicked == \E c \in CPUS : pc[c] = "panic"

\* trap() stops the CPU when another one has panicked.
EnterTrap(c, label) ==
  /\ Goto(c, IF Panicked THEN "stopped" ELSE label)
  /\ UNCHANGED <<lock, curenv, env_status, table>>

\* User code makes a system call or faults, or a device interrupts it.
UserTrap(c) == pc[c] = "user" /\ EnterTrap(c, "trap")

\* The local APIC's timer interrupts user code.
TimerTrap(c) == pc[c] = "user" /\ EnterTrap(c, "timer")

\* An interrupt ends the hlt of sched_halt().
Wake(c) == pc[c] = "halted" /\ EnterTrap(c, "wake")

\* lock_kernel() returns.
Acquire(c) ==
  /\ pc[c] \in Spinning /\ lock = NoCpu
  /\ lock' = c
  /\ UNCHANGED <<pc, curenv, env_status, table>>

-----------------------------------------------------------------------------
(***************************************************************************)
(* The handlers of the lock's holder                                       *)
(***************************************************************************)
InKernel(c, labels) == lock = c /\ pc[c] \in labels

\* A CPU that has just booted, or left hlt, looks for something to run.
Idle(c) ==
  /\ InKernel(c, {"boot", "wake"})
  /\ UNCHANGED table
  /\ SchedYield(c, env_status, curenv[c])

\* Mutant: trap() does not look for zombies.
ZombieUnnoticed(c) == FALSE

Zombie(c) == env_status[curenv[c]] = "DYING"

\* A CPU whose environment was destroyed from elsewhere frees it.
ReapZombie(c) ==
  /\ InKernel(c, {"trap", "timer"}) /\ Zombie(c)
  /\ FreeCurrent(c)

TimerTick(c) ==
  /\ InKernel(c, {"timer"}) /\ ~Zombie(c)
  /\ UNCHANGED table
  /\ SchedYield(c, env_status, curenv[c])

InSyscall(c) == InKernel(c, {"trap"}) /\ ~Zombie(c)

\* A call that touches no environment's life (getenvid, cputs, cgetc, the page
\* calls, set_pgfault_upcall, set_trapframe, an invalid number), a call that
\* fails, a page fault sent to the user's handler, a device interrupt.
SysOther(c) ==
  /\ InSyscall(c)
  /\ UNCHANGED table
  /\ TrapReturn(c, env_status)

\* An int3, as at the end of every panic() of a user program: monitor() holds
\* the kernel lock while it waits for the operator, whatever others are doing.
Breakpoint(c) ==
  /\ InSyscall(c)
  /\ Goto(c, "breakpoint")
  /\ UNCHANGED <<lock, curenv, env_status, table>>

\* The operator gives a command that fails, which ends monitor().
LeaveMonitor(c) ==
  /\ InKernel(c, {"breakpoint"})
  /\ UNCHANGED table
  /\ TrapReturn(c, env_status)

SysYield(c) ==
  /\ InSyscall(c)
  /\ UNCHANGED table
  /\ SchedYield(c, env_status, curenv[c])

\* With no free slot the call fails, and so it may for lack of memory: SysOther.
SysExofork(c) ==
  /\ InSyscall(c)
  /\ \E e \in Slots :
       /\ EnvAlloc(e, IdOf(curenv[c]))
       /\ TrapReturn(c, [env_status EXCEPT ![e] = "NOT_RUNNABLE"])

\* The status the target has now is not looked at.
SysEnvSetStatus(c, id, status) ==
  LET e == Envid2env(c, id, TRUE)
  IN  /\ InSyscall(c) /\ e # NoEnv
      /\ UNCHANGED table
      /\ TrapReturn(c, [env_status EXCEPT ![e] = status])

\* Also exit(), and every fault that destroys its own environment.
SysEnvDestroy(c, id) ==
  LET e == Envid2env(c, id, TRUE)
  IN  /\ InSyscall(c) /\ e # NoEnv
      /\ EnvDestroy(c, e)

SysIpcRecv(c) ==
  /\ InSyscall(c)
  /\ env_ipc_recving' = [env_ipc_recving EXCEPT ![curenv[c]] = TRUE]
  /\ UNCHANGED <<env_id, env_parent_id, env_pgdir, env_free_list>>
  /\ SchedYield(c, [env_status EXCEPT ![curenv[c]] = "NOT_RUNNABLE"], curenv[c])

\* A send that succeeds; the errors change nothing and are SysOther.
SysIpcTrySend(c, id) ==
  LET e == Envid2env(c, id, FALSE)
  IN  /\ InSyscall(c) /\ e # NoEnv /\ env_ipc_recving[e]
      /\ env_ipc_recving' = [env_ipc_recving EXCEPT ![e] = FALSE]
      /\ UNCHANGED <<env_id, env_parent_id, env_pgdir, env_free_list>>
      /\ TrapReturn(c, [env_status EXCEPT ![e] = "RUNNABLE"])

-----------------------------------------------------------------------------
(***************************************************************************)
(* Two systems: the kernel under any user programs, and under programs     *)
(* that keep to the discipline of lib/ and user/, without which the kernel *)
(* does not keep its own promises: a second sys_env_destroy of a DYING     *)
(* environment frees it under the CPU that runs it (env.c:542).            *)
(***************************************************************************)

\* fork(), dumbfork() and spawn() set the status of a child they have not
\* started; more generally: of oneself, or of an environment that neither
\* runs nor waits for a message.
QuietTarget(c, id) ==
  LET e == Envid2env(c, id, TRUE)
  IN  e \in Slots => \/ e = curenv[c]
                     \/ /\ env_status[e] \in {"RUNNABLE", "NOT_RUNNABLE"}
                        /\ ~env_ipc_recving[e]

\* No environment is destroyed twice.
FirstDestroy(c, id) ==
  LET e == Envid2env(c, id, TRUE)
  IN  e \in Slots => env_status[e] # "DYING"

\* What does not depend on what user programs ask for.
KernelStep(c) ==
  \/ Idle(c) \/ ReapZombie(c) \/ TimerTick(c)
  \/ SysOther(c) \/ SysYield(c) \/ SysExofork(c) \/ SysIpcRecv(c) \/ Breakpoint(c)
  \/ \E id \in EnvId : SysIpcTrySend(c, id)

Settable == {"RUNNABLE", "NOT_RUNNABLE"}

AnyHandler(c) ==
  \/ KernelStep(c)
  \/ \E id \in EnvId : \/ SysEnvDestroy(c, id)
                       \/ \E s \in Settable : SysEnvSetStatus(c, id, s)

LibHandler(c) ==
  \/ KernelStep(c)
  \/ InSyscall(c) /\ \E id \in EnvId :
       \/ FirstDestroy(c, id) /\ SysEnvDestroy(c, id)
       \/ QuietTarget(c, id) /\ \E s \in Settable : SysEnvSetStatus(c, id, s)

Entry(c) == UserTrap(c) \/ TimerTrap(c) \/ Wake(c) \/ Acquire(c)

Next    == \E c \in CPUS : Entry(c) \/ AnyHandler(c) \/ LeaveMonitor(c)
LibNext == \E c \in CPUS : Entry(c) \/ LibHandler(c) \/ LeaveMonitor(c)

Spec    == Init /\ [][Next]_vars
LibSpec == Init /\ [][LibNext]_vars

-----------------------------------------------------------------------------
(***************************************************************************)
(* Properties under any user programs                                      *)
(***************************************************************************)

\* env_alloc and env_free keep the free list sound whatever user programs do:
\* no slot is on it twice, and a slot is on it exactly while it has no address
\* space, so no slot is given out twice and none is lost.
FreeListSound ==
  /\ \A i, j \in DOMAIN env_free_list :
       env_free_list[i] = env_free_list[j] => i = j
  /\ \A e \in Slots :
       ~env_pgdir[e] <=> \E i \in DOMAIN env_free_list : env_free_list[i] = e

(***************************************************************************)
(* Properties under the discipline                                         *)
(***************************************************************************)

\* A CPU in user mode, or in the kernel or on its way there from user mode.
FromUser(c) == pc[c] \in {"user", "trap", "timer", "breakpoint"}

\* While a CPU is in user mode its environment exists and is RUNNING, or
\* DYING when a parent on another CPU destroyed it; no two CPUs run the same
\* environment; what is RUNNING or DYING is on some CPU, so that a zombie has
\* a CPU to free it (env.c:539, sched.c:26 and the assert of trap.c:361).
CpuOwnsEnv ==
  /\ \A c \in CPUS :
       FromUser(c) => /\ curenv[c] \in Slots
                      /\ env_status[curenv[c]] \in {"RUNNING", "DYING"}
  /\ \A c, d \in CPUS :
       FromUser(c) /\ FromUser(d) /\ curenv[c] = curenv[d] => c = d
  /\ \A e \in Slots :
       env_status[e] \in {"RUNNING", "DYING"}
         => \E c \in CPUS : FromUser(c) /\ curenv[c] = e

\* A slot is FREE exactly while it has no address space: no CPU returns to a
\* freed environment and none is freed twice (the panics of env_run and
\* env_free are not reached).
StatusMatchesMemory ==
  \A e \in Slots : env_status[e] = "FREE" <=> ~env_pgdir[e]

\* An environment that waits for a message is asleep: a send never reaches
\* one that is running or may be chosen to run (syscall.c:440).
ReceiverAsleep ==
  \A e \in Slots :
    env_ipc_recving[e] /\ env_status[e] # "FREE" => env_status[e] = "NOT_RUNNABLE"

\* "No runnable environments in the system!", for which sched_halt() keeps a
\* CPU in the monitor and the kernel lock for ever, is true when it is said and
\* ever after: no other CPU has user code or a zombie, or sits at a breakpoint
\* it could return from, and no environment will be chosen or reaped again.
\* (The monitor of a breakpoint is left again, and does lock others out.)
NoneLeftToRun ==
  (\E c \in CPUS : pc[c] = "monitor") =>
    /\ \A d \in CPUS : ~FromUser(d)
    /\ \A e \in Slots : env_status[e] \in {"FREE", "NOT_RUNNABLE"}

\* The inductive strengthening of the four invariants above.  The lock is held
\* only on the way through a handler or by a monitor; a CPU that boots or idles
\* has no environment; sched_halt's monitor was entered when nothing could run.
LockDiscipline ==
  \A c \in CPUS :
    /\ lock = c => pc[c] \in Spinning \cup {"monitor", "breakpoint"}
    /\ pc[c] = "breakpoint" => lock = c /\ env_status[curenv[c]] = "RUNNING"
    /\ pc[c] = "monitor"
         => /\ lock = c
            /\ \A e \in Slots : env_status[e] \in {"FREE", "NOT_RUNNABLE"}
    /\ pc[c] \in {"boot", "wake", "halted"} => curenv[c] = NoEnv
    /\ pc[c] \notin {"panic", "stopped"}

\* All of these together, whatever children are forked, started, destroyed
\* from another CPU, sent to or left blocked: a CPU in user mode owns what it
\* runs, a slot has memory while it is in use, and a receiver sleeps.
LibInv ==
  /\ CpuOwnsEnv
  /\ StatusMatchesMemory
  /\ ReceiverAsleep
  /\ LockDiscipline

\* What one step may do to an environment: a zombie is freed and nothing else
\* becomes of it; a slot in the free list starts as a child that does not run;
\* an environment that waits for a message is woken by a message only.
LifeCycle ==
  [][\A e \in Slots :
       /\ env_status[e] = "DYING" => env_status'[e] \in {"DYING", "FREE"}
       /\ env_status[e] = "FREE" => env_status'[e] \in {"FREE", "NOT_RUNNABLE"}
       /\ env_status[e] = "NOT_RUNNABLE" /\ env_ipc_recving[e]
            => \/ env_status'[e] = "NOT_RUNNABLE" /\ env_ipc_recving'[e]
               \/ env_status'[e] \in {"RUNNABLE", "RUNNING"} /\ ~env_ipc_recving'[e]
               \/ env_status'[e] = "FREE"]_vars

(***************************************************************************)
(* Liveness                                                                *)
(***************************************************************************)

\* Somebody gets a free lock (xchg is not fair to any one CPU); the holder
\* finishes its handler, apart from the monitor of a breakpoint; timer
\* interrupts keep coming, and one that arrives in the kernel is pending and
\* taken on the return to user mode.
Fairness ==
  /\ WF_vars(\E c \in CPUS : Acquire(c))
  /\ WF_vars(\E c \in CPUS : LibHandler(c))
  /\ \A c \in CPUS : SF_vars(TimerTrap(c)) /\ WF_vars(Wake(c))

FairLibSpec == LibSpec /\ Fairness

NothingIsFreed == Len(env_free_list') <= Len(env_free_list)

NoBreakpoint   == \A c \in CPUS : pc[c] # "breakpoint"

\* From some time on no environment ends, and the operator leaves the monitor
\* each time a breakpoint has entered it: then round robin reaches each one
\* that can run.  Without the first premise it need not: the search starts
\* again at slot 0 after each env_free of the current environment.
NoStarvation ==
  <>[][NothingIsFreed]_vars /\ []<>NoBreakpoint
    => \A e \in Slots : env_status[e] = "RUNNABLE" ~> env_status[e] # "RUNNABLE"
=============================================================================
