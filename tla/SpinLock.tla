------------------------------ MODULE SpinLock ------------------------------
(***************************************************************************)
(* The big kernel lock of kern/spinlock.c, one memory access per step, as  *)
(* it is built: DEBUG_SPINLOCK is defined, so spin_lock() and spin_unlock()*)
(* also maintain lk->cpu and panic when holding() disagrees with the call. *)
(* lk->cpu is written and read without the lock: that the panics are never *)
(* taken depends on the order of the accesses.                             *)
(*                                                                         *)
(* lk->name and lk->pcs are only printed and are left out.  Memory is      *)
(* sequentially consistent: on x86 a CPU sees its own stores, other CPUs'  *)
(* stores in order, and the locked xchg drains the store buffer.           *)
(***************************************************************************)

EXTENDS Cpus

VARIABLES locked,  \* lk->locked
          cpu,     \* lk->cpu
          at       \* where each CPU is in spin_lock() / spin_unlock()

lockVars == <<locked, cpu, at>>

LockLabels == {"out",                            \* not using the lock
               "checkLocked", "checkCpu",        \* spin_lock: holding(lk)
               "xchg", "setCpu",                 \* spin_lock: acquire
               "in",                             \* the kernel runs
               "holdsLocked", "holdsCpu",        \* spin_unlock: !holding(lk)
               "clearCpu", "clearLocked",        \* spin_unlock: release
               "panic"}

LockTypeOK ==
  /\ locked \in {0, 1}
  /\ cpu \in CPUS \cup {NoCpu}
  /\ at \in [CPUS -> LockLabels]

JumpTo(c, label) == at' = [at EXCEPT ![c] = label]

(***************************************************************************)
(* spin_initlock leaves the lock free; kernel_lock is zeroed BSS.          *)
(***************************************************************************)
LockInit ==
  /\ locked = 0
  /\ cpu = NoCpu
  /\ at = [c \in CPUS |-> "out"]

(***************************************************************************)
(* spin_lock()                                                             *)
(***************************************************************************)
Call(c) ==
  /\ at[c] = "out"
  /\ JumpTo(c, "checkLocked")
  /\ UNCHANGED <<locked, cpu>>

\* holding() is `locked && cpu == thiscpu': two reads, the second only when
\* the first found the lock taken.
CheckLocked(c) ==
  /\ at[c] = "checkLocked"
  /\ JumpTo(c, IF locked = 1 THEN "checkCpu" ELSE "xchg")
  /\ UNCHANGED <<locked, cpu>>

CheckCpu(c) ==
  /\ at[c] = "checkCpu"
  /\ JumpTo(c, IF cpu = c THEN "panic" ELSE "xchg")
  /\ UNCHANGED <<locked, cpu>>

\* Mutant: the loop looks at the owner instead of the word it exchanged.
XchgTestsOwner(c) ==
  /\ at[c] = "xchg"
  /\ locked' = 1
  /\ JumpTo(c, IF cpu = NoCpu THEN "setCpu" ELSE "xchg")
  /\ UNCHANGED cpu

\* One turn of the loop: the CPU stays at "xchg" when the lock was taken.
Xchg(c) ==
  /\ at[c] = "xchg"
  /\ locked' = 1
  /\ JumpTo(c, IF locked = 0 THEN "setCpu" ELSE "xchg")
  /\ UNCHANGED cpu

SetCpu(c) ==
  /\ at[c] = "setCpu"
  /\ cpu' = c
  /\ JumpTo(c, "in")
  /\ UNCHANGED locked

(***************************************************************************)
(* spin_unlock()                                                           *)
(***************************************************************************)
CallUnlock(c) ==
  /\ at[c] = "in"
  /\ JumpTo(c, "holdsLocked")
  /\ UNCHANGED <<locked, cpu>>

HoldsLocked(c) ==
  /\ at[c] = "holdsLocked"
  /\ JumpTo(c, IF locked = 1 THEN "holdsCpu" ELSE "panic")
  /\ UNCHANGED <<locked, cpu>>

HoldsCpu(c) ==
  /\ at[c] = "holdsCpu"
  /\ JumpTo(c, IF cpu = c THEN "clearCpu" ELSE "panic")
  /\ UNCHANGED <<locked, cpu>>

\* Mutant: the owner is not reset before the release.
ClearCpuForgotten(c) ==
  /\ at[c] = "clearCpu"
  /\ JumpTo(c, "clearLocked")
  /\ UNCHANGED <<locked, cpu>>

ClearCpu(c) ==
  /\ at[c] = "clearCpu"
  /\ cpu' = NoCpu
  /\ JumpTo(c, "clearLocked")
  /\ UNCHANGED locked

\* Mutant: the lock is not released.
ClearLockedForgotten(c) ==
  /\ at[c] = "clearLocked"
  /\ JumpTo(c, "out")
  /\ UNCHANGED <<locked, cpu>>

ClearLocked(c) ==
  /\ at[c] = "clearLocked"
  /\ locked' = 0
  /\ JumpTo(c, "out")
  /\ UNCHANGED cpu

\* One instruction of c inside the lock's code; entering it is the caller's choice.
Step(c) ==
  \/ CheckLocked(c) \/ CheckCpu(c) \/ Xchg(c) \/ SetCpu(c)
  \/ CallUnlock(c)
  \/ HoldsLocked(c) \/ HoldsCpu(c) \/ ClearCpu(c) \/ ClearLocked(c)

LockNext == \E c \in CPUS : Call(c) \/ Step(c)

\* A CPU executes instructions: none stops for ever between two of them.
LockSpec == LockInit /\ [][LockNext]_lockVars /\ \A c \in CPUS : WF_lockVars(Step(c))

(***************************************************************************)
(* Properties                                                              *)
(***************************************************************************)
Holding(c) ==
  at[c] \in {"setCpu", "in", "holdsLocked", "holdsCpu", "clearCpu", "clearLocked"}

\* At most one CPU is between the xchg of spin_lock() that found 0 and the
\* xchg of spin_unlock() that writes 0.
MutualExclusion == \A c, d \in CPUS : Holding(c) /\ Holding(d) => c = d

\* The debugging checks of spinlock.c:64 and :86 never fail for callers that
\* pair their calls, although holding() reads lk->cpu with no lock held.
ChecksNeverPanic == \A c \in CPUS : at[c] # "panic"

(***************************************************************************)
(* The strengthening that is inductive: `locked' says whether somebody     *)
(* holds the lock, and lk->cpu names the holder exactly while it may be    *)
(* compared with it.                                                       *)
(***************************************************************************)
LockedMeansHeld == locked = 1 <=> \E c \in CPUS : Holding(c)

CpuNamesHolder ==
  \A c \in CPUS :
    /\ at[c] \in {"in", "holdsLocked", "holdsCpu", "clearCpu"} => cpu = c
    /\ cpu = c => at[c] \in {"in", "holdsLocked", "holdsCpu", "clearCpu"}

LockInv ==
  /\ LockTypeOK
  /\ MutualExclusion
  /\ ChecksNeverPanic
  /\ LockedMeansHeld
  /\ CpuNamesHolder

(***************************************************************************)
(* LockIsMutex: the lock is granted at the xchg that finds 0.               *)
(***************************************************************************)
Asking == {c \in CPUS : at[c] \in {"checkLocked", "checkCpu", "xchg"}}

Holder == IF \E c \in CPUS : Holding(c)
          THEN CHOOSE c \in CPUS : Holding(c)
          ELSE NoCpu

M == INSTANCE Mutex WITH holder <- Holder, asking <- Asking

\* spinlock.c implements the abstract lock, its fairness included: a free
\* lock that some CPU spins on is taken by one of them.
ImplementsMutex == M!Spec
=============================================================================
