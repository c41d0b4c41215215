--------------------------- MODULE KernEnvProofs ---------------------------
(***************************************************************************)
(* Proofs about environments and the scheduler, for any number of CPUs,    *)
(* slots and generations.                                                  *)
(*                                                                         *)
(* The first part holds under any user programs: types, and the free list. *)
(* The second part needs the discipline of the library (LibSpec): who runs *)
(* what on which CPU.                                                      *)
(***************************************************************************)
EXTENDS SpinLock, KernEnv, TLAPS

-----------------------------------------------------------------------------
(***************************************************************************)
(* The kernel lock: its invariant, mutual exclusion, the debugging checks, *)
(* and that every step of spinlock.c is a step of the abstract lock or a   *)
(* stutter.                                                                *)
(***************************************************************************)
LEMMA LockInitInv == LockInit => LockInv
  <1> SUFFICES ASSUME LockInit PROVE LockInv
    OBVIOUS
  <1> QED
    BY NoCpuAssumption
    DEF LockInit, LockInv, LockTypeOK, LockLabels, MutualExclusion, ChecksNeverPanic,
        LockedMeansHeld, CpuNamesHolder, Holding

\* Each step of the lock's code preserves the invariant.
LEMMA LockStepInv ==
  ASSUME LockInv, NEW c \in CPUS, Call(c) \/ Step(c)
  PROVE  LockInv'
  <1> USE DEF LockInv, LockTypeOK, LockLabels, MutualExclusion, ChecksNeverPanic,
              LockedMeansHeld, CpuNamesHolder, Holding, JumpTo
  <1>1. CASE Call(c)
    BY <1>1 DEF Call
  <1>2. CASE CheckLocked(c)
    BY <1>2 DEF CheckLocked
  <1>3. CASE CheckCpu(c)
    BY <1>3 DEF CheckCpu
  <1>4. CASE Xchg(c)
    <2>1. CASE locked = 0
      BY <1>4, <2>1 DEF Xchg
    <2>2. CASE locked = 1
      BY <1>4, <2>2 DEF Xchg
    <2> QED
      BY <2>1, <2>2
  <1>5. CASE SetCpu(c)
    BY <1>5 DEF SetCpu
  <1>6. CASE CallUnlock(c)
    BY <1>6 DEF CallUnlock
  <1>7. CASE HoldsLocked(c)
    BY <1>7 DEF HoldsLocked
  <1>8. CASE HoldsCpu(c)
    BY <1>8 DEF HoldsCpu
  <1>9. CASE ClearCpu(c)
    BY <1>9, NoCpuAssumption DEF ClearCpu
  <1>10. CASE ClearLocked(c)
    BY <1>10 DEF ClearLocked
  <1> QED
    BY <1>1, <1>2, <1>3, <1>4, <1>5, <1>6, <1>7, <1>8, <1>9, <1>10 DEF Step

\* For any set of CPUs: at most one holds the kernel lock, lk->cpu names it
\* whenever it is compared, and neither panic of spinlock.c is reached.
THEOREM LockSafety == LockSpec => []LockInv
  <1>1. LockInv /\ [LockNext]_lockVars => LockInv'
    <2> SUFFICES ASSUME LockInv, [LockNext]_lockVars PROVE LockInv'
      OBVIOUS
    <2>1. CASE LockNext
      BY <2>1, LockStepInv DEF LockNext
    <2>2. CASE UNCHANGED lockVars
      BY <2>2 DEF lockVars, LockInv, LockTypeOK, LockLabels, MutualExclusion, ChecksNeverPanic,
                  LockedMeansHeld, CpuNamesHolder, Holding
    <2> QED
      BY <2>1, <2>2
  <1> QED
    BY LockInitInv, <1>1, PTL DEF LockSpec

\* The debugging checks of spin_lock() and spin_unlock() never panic.
COROLLARY LockNeverPanics == LockSpec => []ChecksNeverPanic
  <1>1. LockInv => ChecksNeverPanic
    BY DEF LockInv
  <1> QED
    BY LockSafety, <1>1, PTL

-----------------------------------------------------------------------------
(***************************************************************************)
(* LockIsMutex of Mutex, the safety part (its fairness is left to TLC).     *)
(***************************************************************************)

\* The mapped holder is the CPU that holds the lock, before and after a step.
LEMMA HolderIs ==
  ASSUME LockInv, NEW c \in CPUS, Holding(c)
  PROVE  Holder = c
  BY DEF Holder, LockInv, MutualExclusion

LEMMA HolderIsNext ==
  ASSUME LockInv', NEW c \in CPUS, Holding(c)'
  PROVE  Holder' = c
  BY DEF Holder, LockInv, MutualExclusion

LEMMA HolderIsNobody ==
  ASSUME \A c \in CPUS : ~Holding(c)
  PROVE  Holder = NoCpu
  BY DEF Holder

LEMMA HolderIsNobodyNext ==
  ASSUME \A c \in CPUS : ~Holding(c)'
  PROVE  Holder' = NoCpu
  BY DEF Holder

\* The holder does not change when nobody's Holding changes.
LEMMA HolderSame ==
  ASSUME LockInv, LockInv', \A c \in CPUS : Holding(c)' <=> Holding(c)
  PROVE  Holder' = Holder
  <1>1. CASE \E c \in CPUS : Holding(c)
    <2>1. PICK c \in CPUS : Holding(c)
      BY <1>1
    <2>2. Holding(c)'
      BY <2>1
    <2> QED
      BY <2>1, <2>2, HolderIs, HolderIsNext
  <1>2. CASE \A c \in CPUS : ~Holding(c)
    <2>1. \A c \in CPUS : ~Holding(c)'
      BY <1>2
    <2> QED
      BY <1>2, <2>1, HolderIsNobody, HolderIsNobodyNext
  <1> QED
    BY <1>1, <1>2

\* What each kind of step does to the abstract lock.
LEMMA StepRefines ==
  ASSUME LockInv, LockInv', NEW c \in CPUS, Call(c) \/ Step(c)
  PROVE  M!Ask(c) \/ M!Grant(c) \/ M!Release(c) \/ UNCHANGED <<Holder, Asking>>
  <1> USE DEF JumpTo
  <1>p. at \in [CPUS -> LockLabels]
    BY DEF LockInv, LockTypeOK
  <1>1. CASE Call(c)
    <2>1. \A d \in CPUS : Holding(d)' <=> Holding(d)
      BY <1>p, <1>1 DEF Call, Holding
    <2>2. Holder' = Holder
      BY <2>1, HolderSame
    <2>3. ~Holding(c)
      BY <1>1 DEF Call, Holding
    <2>4. Holder # c
      BY <2>3, NoCpuAssumption DEF Holder
    <2>5. c \notin Asking /\ Asking' = Asking \cup {c}
      BY <1>p, <1>1 DEF Call, Asking
    <2> QED
      BY <2>2, <2>4, <2>5 DEF M!Ask
  <1>2. CASE Xchg(c) /\ locked = 0
    <2>1. \A d \in CPUS : ~Holding(d)
      BY <1>2 DEF LockInv, LockedMeansHeld
    <2>2. Holding(c)'
      BY <1>p, <1>2 DEF Xchg, Holding
    <2>3. Holder = NoCpu /\ Holder' = c
      BY <2>1, <2>2, HolderIsNobody, HolderIsNext
    <2>4. c \in Asking /\ Asking' = Asking \ {c}
      BY <1>p, <1>2 DEF Xchg, Asking
    <2> QED
      BY <2>3, <2>4 DEF M!Grant
  <1>3. CASE ClearLocked(c)
    <2>1. Holding(c)
      BY <1>3 DEF ClearLocked, Holding
    <2>2. \A d \in CPUS : ~Holding(d)'
      BY <1>p, <1>3, <2>1 DEF ClearLocked, Holding, LockInv, MutualExclusion
    <2>3. Holder = c /\ Holder' = NoCpu
      BY <2>1, <2>2, HolderIs, HolderIsNobodyNext
    <2>4. Asking' = Asking
      BY <1>p, <1>3 DEF ClearLocked, Asking
    <2> QED
      BY <2>3, <2>4 DEF M!Release
  <1>4. CASE CheckLocked(c) \/ CheckCpu(c) \/ (Xchg(c) /\ locked # 0)
    <2>1. \A d \in CPUS : Holding(d)' <=> Holding(d)
      BY <1>p, <1>4 DEF CheckLocked, CheckCpu, Xchg, Holding
    <2>2. cpu # c \/ at[c] # "checkCpu"
      BY <1>4 DEF LockInv, CpuNamesHolder
    <2>3. Asking' = Asking
      BY <1>p, <1>4, <2>2 DEF CheckLocked, CheckCpu, Xchg, Asking
    <2> QED
      BY <2>1, <2>3, HolderSame
  <1>5. CASE SetCpu(c) \/ CallUnlock(c) \/ HoldsLocked(c) \/ HoldsCpu(c) \/ ClearCpu(c)
    <2>1. at'[c] # "panic"
      BY DEF LockInv, ChecksNeverPanic
    <2>2. \A d \in CPUS : Holding(d)' <=> Holding(d)
      BY <1>p, <1>5, <2>1
      DEF SetCpu, CallUnlock, HoldsLocked, HoldsCpu, ClearCpu, Holding
    <2>3. Asking' = Asking
      BY <1>p, <1>5, <2>1
      DEF SetCpu, CallUnlock, HoldsLocked, HoldsCpu, ClearCpu, Asking
    <2> QED
      BY <2>2, <2>3, HolderSame
  <1> QED
    BY <1>1, <1>2, <1>3, <1>4, <1>5 DEF Step

\* spinlock.c, at the granularity of its memory accesses, implements the
\* abstract lock: every step is an Ask, a Grant, a Release or a stutter.
THEOREM LockIsMutex == LockSpec => M!Init /\ [][M!Next]_<<Holder, Asking>>
  <1>1. LockInit => M!Init
    <2> SUFFICES ASSUME LockInit PROVE M!Init
      OBVIOUS
    <2>1. \A c \in CPUS : ~Holding(c)
      BY DEF LockInit, Holding
    <2>2. Holder = NoCpu
      BY <2>1, HolderIsNobody
    <2>3. Asking = {}
      BY DEF LockInit, Asking
    <2> QED
      BY <2>2, <2>3 DEF M!Init
  <1>2. LockInv /\ LockInv' /\ [LockNext]_lockVars => [M!Next]_<<Holder, Asking>>
    <2> SUFFICES ASSUME LockInv, LockInv', [LockNext]_lockVars
                 PROVE  [M!Next]_<<Holder, Asking>>
      OBVIOUS
    <2>1. CASE LockNext
      BY <2>1, StepRefines DEF LockNext, M!Next
    <2>2. CASE UNCHANGED lockVars
      BY <2>2 DEF lockVars, Holder, Asking, Holding
    <2> QED
      BY <2>1, <2>2
  <1> QED
    BY <1>1, <1>2, LockSafety, PTL DEF LockSpec

-----------------------------------------------------------------------------
(* KernEnv *)

USE NoCpuAssumption, CpuAssumption, EnvAssumption

-----------------------------------------------------------------------------
(***************************************************************************)
(* Types                                                                   *)
(***************************************************************************)

\* A CPU that came from user mode has a current environment.
UserHasEnv == \A c \in CPUS : FromUser(c) => curenv[c] \in Slots

\* The types of what the scheduler settles, and of the rest.
SchedTyped ==
  /\ lock \in CPUS \cup {NoCpu}
  /\ pc \in [CPUS -> Labels]
  /\ curenv \in [CPUS -> Slots \cup {NoEnv}]
  /\ env_status \in [Slots -> Status]
  /\ UserHasEnv

TableTyped ==
  /\ env_id \in [Slots -> 0 .. NGEN - 1]
  /\ env_parent_id \in [Slots -> EnvId]
  /\ env_pgdir \in [Slots -> BOOLEAN]
  /\ env_ipc_recving \in [Slots -> BOOLEAN]
  /\ env_free_list \in Seq(Slots)
  /\ \A e \in Slots : env_pgdir[e] => env_id[e] # 0

LEMMA TypeParts == SchedTyped /\ TableTyped <=> TypeOK /\ UserHasEnv
  BY DEF SchedTyped, TableTyped, TypeOK

LEMMA LabelsDistinct == "user" \in Labels /\ "halted" \in Labels
                        /\ "monitor" \in Labels /\ "panic" \in Labels
                        /\ "breakpoint" \in Labels
                        /\ "stopped" \in Labels /\ Spinning \subseteq Labels
  BY DEF Labels, Spinning

LEMMA EnvRunTyped ==
  ASSUME SchedTyped, NEW c \in CPUS, NEW st \in [Slots -> Status],
         NEW cur \in Slots \cup {NoEnv}, NEW e \in Slots,
         EnvRun(c, st, cur, e)
  PROVE  SchedTyped'
  BY LabelsDistinct
  DEF SchedTyped, EnvRun, Panic, Goto, UserHasEnv, FromUser, Status

LEMMA SchedYieldTyped ==
  ASSUME SchedTyped, NEW c \in CPUS, NEW st \in [Slots -> Status],
         NEW cur \in Slots \cup {NoEnv}, SchedYield(c, st, cur)
  PROVE  SchedTyped'
  <1>1. CASE \E e \in Slots : EnvRun(c, st, cur, e)
    BY <1>1, EnvRunTyped
  <1>2. CASE SchedHalt(c, st, cur)
    BY <1>2, LabelsDistinct
    DEF SchedTyped, SchedHalt, Goto, UserHasEnv, FromUser
  <1> QED
    BY <1>1, <1>2 DEF SchedYield, FirstRunnable

LEMMA TrapReturnTyped ==
  ASSUME SchedTyped, NEW c \in CPUS, NEW st \in [Slots -> Status],
         curenv[c] \in Slots, TrapReturn(c, st)
  PROVE  SchedTyped'
  BY EnvRunTyped, SchedYieldTyped DEF TrapReturn

LEMMA InitTyped == Init => SchedTyped /\ TableTyped
  <1> SUFFICES ASSUME Init PROVE SchedTyped /\ TableTyped
    OBVIOUS
  <1>1. SchedTyped
    BY DEF Init, SchedTyped, UserHasEnv, FromUser, Labels, Spinning, Status
  <1>2. env_free_list \in Seq(Slots)
    <2>1. NENV - NINIT \in Nat
      OBVIOUS
    <2>2. \A i \in 1 .. NENV - NINIT : NINIT + i - 1 \in Slots
      BY DEF Slots
    <2> QED
      BY <2>1, <2>2 DEF Init
  <1>3. \A e \in Slots : env_pgdir[e] => env_id[e] # 0
    <2>1. \A e \in Slots : env_pgdir[e] => e < NINIT
      BY Zenon DEF Init
    <2>2. \A e \in Slots : e < NINIT => env_id[e] = 1
      BY DEF Init
    <2> QED
      BY <2>1, <2>2
  <1>4. TableTyped
    BY <1>2, <1>3 DEF Init, TableTyped, EnvId, Self, Slots
  <1> QED
    BY <1>1, <1>4

LEMMA IdOfType ==
  ASSUME TableTyped, NEW e \in Slots
  PROVE  IdOf(e) \in EnvId
  BY DEF TableTyped, IdOf, EnvId

LEMMA Envid2envType ==
  ASSUME NEW c \in CPUS, curenv[c] \in Slots, NEW id \in EnvId, NEW b \in BOOLEAN
  PROVE  Envid2env(c, id, b) \in Slots \cup {NoEnv}
  BY DEF Envid2env, EnvId

\* env_alloc and env_free keep the table's types.
LEMMA EnvAllocTyped ==
  ASSUME TableTyped, NEW e \in Slots, NEW parent \in EnvId, EnvAlloc(e, parent)
  PROVE  TableTyped'
  <1>1. NextGeneration(env_id[e]) \in 1 .. NGEN - 1
    BY DEF NextGeneration, TableTyped
  <1>2. env_free_list' \in Seq(Slots)
    BY DEF EnvAlloc, TableTyped
  <1> QED
    BY <1>1, <1>2 DEF EnvAlloc, TableTyped

LEMMA EnvFreeTyped ==
  ASSUME TableTyped, NEW e \in Slots, EnvFree(e)
  PROVE  TableTyped'
  BY DEF EnvFree, TableTyped

\* env_destroy on a CPU that is in a system call.
LEMMA EnvDestroyTyped ==
  ASSUME SchedTyped, TableTyped, NEW c \in CPUS, curenv[c] \in Slots,
         NEW e \in Slots, EnvDestroy(c, e) \/ (e = curenv[c] /\ FreeCurrent(c))
  PROVE  SchedTyped' /\ TableTyped'
  <1> DEFINE Freed == [env_status EXCEPT ![e] = "FREE"]
             Dying == [env_status EXCEPT ![e] = "DYING"]
  <1>1. Freed \in [Slots -> Status] /\ Dying \in [Slots -> Status]
    BY DEF SchedTyped, Status
  <1> HIDE DEF Freed, Dying
  <1>2. CASE UNCHANGED table /\ TrapReturn(c, Dying)
    BY <1>1, <1>2, TrapReturnTyped DEF table, TableTyped
  <1>3. CASE FreeFault(c)
    BY <1>3, LabelsDistinct
    DEF FreeFault, Panic, Goto, table, SchedTyped, TableTyped, UserHasEnv, FromUser
  <1>4. CASE EnvFree(e) /\ TrapReturn(c, Freed)
    BY <1>1, <1>4, TrapReturnTyped, EnvFreeTyped
  <1>5. CASE EnvFree(e) /\ SchedYield(c, Freed, NoEnv)
    BY <1>1, <1>5, SchedYieldTyped, EnvFreeTyped
  <1> QED
    BY <1>2, <1>3, <1>4, <1>5 DEF EnvDestroy, FreeCurrent, Freed, Dying

LEMMA StepTyped ==
  ASSUME SchedTyped, TableTyped, NEW c \in CPUS,
         Entry(c) \/ AnyHandler(c) \/ LeaveMonitor(c)
  PROVE  SchedTyped' /\ TableTyped'
  <1> DEFINE cur == curenv[c]
  <1>a. env_status \in [Slots -> Status] /\ cur \in Slots \cup {NoEnv}
    BY DEF SchedTyped
  <1>b. UNCHANGED table => TableTyped'
    BY DEF table, TableTyped
  <1>c. InKernel(c, {"trap", "timer", "breakpoint"}) => cur \in Slots
    BY DEF InKernel, SchedTyped, UserHasEnv, FromUser
  <1>d. InSyscall(c) => cur \in Slots
    BY <1>c DEF InSyscall, InKernel
  <1>1. CASE UserTrap(c) \/ TimerTrap(c) \/ Wake(c)
    <2>1. \A d \in CPUS : FromUser(d)' => FromUser(d)
      BY <1>1 DEF UserTrap, TimerTrap, Wake, EnterTrap, Goto, FromUser, SchedTyped
    <2>2. pc' \in [CPUS -> Labels]
      BY <1>1, LabelsDistinct
      DEF UserTrap, TimerTrap, Wake, EnterTrap, Goto, SchedTyped, Spinning
    <2> QED
      BY <1>1, <1>b, <2>1, <2>2
      DEF UserTrap, TimerTrap, Wake, EnterTrap, SchedTyped, UserHasEnv
  <1>2. CASE Acquire(c)
    BY <1>2, <1>b DEF Acquire, SchedTyped, UserHasEnv, FromUser
  <1>3. CASE Idle(c)
    BY <1>3, <1>a, <1>b, SchedYieldTyped DEF Idle
  <1>4. CASE ReapZombie(c)
    BY <1>4, <1>c, EnvDestroyTyped DEF ReapZombie, InKernel
  <1>5. CASE TimerTick(c) \/ SysYield(c)
    BY <1>5, <1>a, <1>b, SchedYieldTyped DEF TimerTick, SysYield
  <1>6. CASE SysOther(c)
    BY <1>6, <1>a, <1>b, <1>d, TrapReturnTyped DEF SysOther
  <1>7. CASE SysExofork(c)
    <2>1. PICK e \in Slots : EnvAlloc(e, IdOf(cur))
                             /\ TrapReturn(c, [env_status EXCEPT ![e] = "NOT_RUNNABLE"])
      BY <1>7 DEF SysExofork
    <2>2. [env_status EXCEPT ![e] = "NOT_RUNNABLE"] \in [Slots -> Status]
      BY <1>a DEF Status
    <2>3. cur \in Slots /\ IdOf(cur) \in EnvId
      BY <1>7, <1>d, IdOfType DEF SysExofork
    <2> QED
      BY <2>1, <2>2, <2>3, EnvAllocTyped, TrapReturnTyped
  <1>8. CASE SysIpcRecv(c)
    <2>1. cur \in Slots
      BY <1>8, <1>d DEF SysIpcRecv
    <2>2. [env_status EXCEPT ![cur] = "NOT_RUNNABLE"] \in [Slots -> Status]
      BY <1>a DEF Status
    <2>3. SchedTyped'
      BY <1>8, <2>1, <2>2, SchedYieldTyped DEF SysIpcRecv
    <2>4. TableTyped'
      BY <1>8 DEF SysIpcRecv, TableTyped
    <2> QED
      BY <2>3, <2>4
  <1>9. CASE \E id \in EnvId : SysIpcTrySend(c, id)
    <2>1. PICK id \in EnvId : SysIpcTrySend(c, id)
      BY <1>9
    <2> DEFINE e == Envid2env(c, id, FALSE)
    <2>2. cur \in Slots
      BY <2>1, <1>d DEF SysIpcTrySend
    <2>3. e \in Slots
      BY <2>1, <2>2, Envid2envType DEF SysIpcTrySend
    <2>4. [env_status EXCEPT ![e] = "RUNNABLE"] \in [Slots -> Status]
      BY <1>a DEF Status
    <2>5. TrapReturn(c, [env_status EXCEPT ![e] = "RUNNABLE"])
      BY <2>1 DEF SysIpcTrySend
    <2>6. SchedTyped'
      BY <2>2, <2>4, <2>5, TrapReturnTyped
    <2>7. TableTyped'
      BY <2>1 DEF SysIpcTrySend, TableTyped
    <2> QED
      BY <2>6, <2>7
  <1>10. CASE \E id \in EnvId : SysEnvDestroy(c, id)
    <2>1. PICK id \in EnvId : SysEnvDestroy(c, id)
      BY <1>10
    <2>2. cur \in Slots
      BY <2>1, <1>d DEF SysEnvDestroy
    <2>3. Envid2env(c, id, TRUE) \in Slots
      BY <2>1, <2>2, Envid2envType DEF SysEnvDestroy
    <2> QED
      BY <2>1, <2>2, <2>3, EnvDestroyTyped DEF SysEnvDestroy
  <1>11. CASE \E id \in EnvId : \E s \in Settable : SysEnvSetStatus(c, id, s)
    <2>1. PICK id \in EnvId, s \in Settable : SysEnvSetStatus(c, id, s)
      BY <1>11
    <2> DEFINE e == Envid2env(c, id, TRUE)
    <2>2. cur \in Slots
      BY <2>1, <1>d DEF SysEnvSetStatus
    <2>3. e \in Slots
      BY <2>1, <2>2, Envid2envType DEF SysEnvSetStatus
    <2>4. [env_status EXCEPT ![e] = s] \in [Slots -> Status]
      BY <1>a DEF Status, Settable
    <2>5. TrapReturn(c, [env_status EXCEPT ![e] = s])
      BY <2>1 DEF SysEnvSetStatus
    <2>6. SchedTyped'
      BY <2>2, <2>4, <2>5, TrapReturnTyped
    <2>7. TableTyped'
      BY <2>1, <1>b DEF SysEnvSetStatus
    <2> QED
      BY <2>6, <2>7
  <1>12. CASE Breakpoint(c)
    <2>1. InSyscall(c) /\ pc' = [pc EXCEPT ![c] = "breakpoint"]
          /\ UNCHANGED <<lock, curenv, env_status, table>>
      BY <1>12 DEF Breakpoint, Goto
    <2>2. pc' \in [CPUS -> Labels] /\ \A d \in CPUS \ {c} : pc'[d] = pc[d]
      BY <2>1, LabelsDistinct DEF SchedTyped
    <2> QED
      BY <1>b, <1>d, <2>1, <2>2 DEF SchedTyped, UserHasEnv, FromUser
  <1>13. CASE LeaveMonitor(c)
    BY <1>13, <1>a, <1>b, <1>c, TrapReturnTyped DEF LeaveMonitor, InKernel
  <1> QED
    BY <1>1, <1>2, <1>3, <1>4, <1>5, <1>6, <1>7, <1>8, <1>9, <1>10, <1>11, <1>12, <1>13
    DEF Entry, AnyHandler, KernelStep

\* The discipline only removes steps.
LEMMA LibIsAny == ASSUME NEW c \in CPUS, LibHandler(c) PROVE AnyHandler(c)
  BY DEF LibHandler, AnyHandler

\* Type correctness of the kernel under any user programs; a CPU that traps
\* from user mode has a current environment (the assert of trap.c:361).
THEOREM TypeCorrect == Spec => [](TypeOK /\ UserHasEnv)
  <1>1. SchedTyped /\ TableTyped /\ [Next]_vars => SchedTyped' /\ TableTyped'
    <2> SUFFICES ASSUME SchedTyped, TableTyped, [Next]_vars
                 PROVE  SchedTyped' /\ TableTyped'
      OBVIOUS
    <2>1. CASE Next
      BY <2>1, StepTyped DEF Next
    <2>2. CASE UNCHANGED vars
      BY <2>2 DEF vars, table, SchedTyped, TableTyped, UserHasEnv, FromUser
    <2> QED
      BY <2>1, <2>2
  <1>2. Spec => [](SchedTyped /\ TableTyped)
    BY InitTyped, <1>1, PTL DEF Spec
  <1> QED
    BY <1>2, TypeParts, PTL

-----------------------------------------------------------------------------
(***************************************************************************)
(* The free list                                                           *)
(***************************************************************************)

LEMMA InitFreeList == Init => FreeListSound
  <1> SUFFICES ASSUME Init PROVE FreeListSound
    OBVIOUS
  <1> DEFINE n == NENV - NINIT
  <1>1. n \in Nat /\ env_free_list = [i \in 1 .. n |-> NINIT + i - 1]
    BY DEF Init
  <1>2. DOMAIN env_free_list = 1 .. n
    BY <1>1
  <1>3. \A e \in Slots : ~env_pgdir[e] <=> e >= NINIT
    <2>1. \A e \in Slots : env_pgdir[e] <=> e < NINIT
      BY Zenon DEF Init
    <2>2. \A e \in Slots : ~(e < NINIT) <=> e >= NINIT
      BY DEF Slots
    <2> QED
      BY <2>1, <2>2, Zenon
  <1>4. \A e \in Slots : e >= NINIT
          => e - NINIT + 1 \in 1 .. n /\ env_free_list[e - NINIT + 1] = e
    BY <1>1 DEF Slots
  <1>5. \A i \in 1 .. n : env_free_list[i] = NINIT + i - 1
    BY <1>1
  <1> QED
    BY <1>1, <1>2, <1>3, <1>4, <1>5 DEF FreeListSound, Slots

\* env_alloc takes the first slot off the list and gives it an address space.
LEMMA AllocKeepsFreeList ==
  ASSUME TableTyped, FreeListSound, NEW e \in Slots, NEW parent, EnvAlloc(e, parent)
  PROVE  FreeListSound'
  <1> DEFINE list == env_free_list
  <1>1. list \in Seq(Slots) /\ list # << >> /\ e = list[1] /\ list' = Tail(list)
    BY DEF TableTyped, EnvAlloc
  <1>2. Len(list) \in Nat /\ Len(list) > 0 /\ DOMAIN list = 1 .. Len(list)
    BY <1>1
  <1>3. DOMAIN list' = 1 .. Len(list) - 1 /\ \A i \in DOMAIN list' : list'[i] = list[i + 1]
    BY <1>1, <1>2
  <1>4. \A f \in Slots : env_pgdir'[f] <=> f = e \/ env_pgdir[f]
    BY DEF EnvAlloc, TableTyped
  <1>5. \A i, j \in DOMAIN list' : list'[i] = list'[j] => i = j
    BY <1>2, <1>3 DEF FreeListSound
  <1>6. \A i \in DOMAIN list' : list'[i] # e
    BY <1>1, <1>2, <1>3 DEF FreeListSound
  <1>7. ASSUME NEW f \in Slots, f # e
        PROVE  (\E i \in DOMAIN list' : list'[i] = f) <=> \E i \in DOMAIN list : list[i] = f
    <2>1. ASSUME NEW i \in DOMAIN list, list[i] = f
          PROVE  i - 1 \in DOMAIN list' /\ list'[i - 1] = f
      BY <1>1, <1>2, <1>3, <1>7, <2>1
    <2>2. ASSUME NEW i \in DOMAIN list', list'[i] = f
          PROVE  i + 1 \in DOMAIN list /\ list[i + 1] = f
      BY <1>2, <1>3, <2>2
    <2> QED
      BY <2>1, <2>2
  <1>8. ASSUME NEW f \in Slots
        PROVE  ~env_pgdir'[f] <=> \E i \in DOMAIN list' : list'[i] = f
    BY <1>4, <1>6, <1>7 DEF FreeListSound
  <1> QED
    BY <1>5, <1>8 DEF FreeListSound

\* env_free of a slot that has an address space puts it first.
LEMMA FreeKeepsFreeList ==
  ASSUME TableTyped, FreeListSound, NEW e \in Slots, env_pgdir[e], EnvFree(e)
  PROVE  FreeListSound'
  <1> DEFINE list == env_free_list
  <1>1. list \in Seq(Slots) /\ list' = <<e>> \o list
    BY DEF TableTyped, EnvFree
  <1>2. Len(list) \in Nat /\ DOMAIN list = 1 .. Len(list)
    BY <1>1
  <1>3. /\ DOMAIN list' = 1 .. Len(list) + 1
        /\ list'[1] = e
        /\ \A i \in DOMAIN list : list'[i + 1] = list[i]
    BY <1>1, <1>2
  <1>4. \A f \in Slots : ~env_pgdir'[f] <=> f = e \/ ~env_pgdir[f]
    BY DEF EnvFree, TableTyped
  <1>5. \A i \in DOMAIN list : list[i] # e
    BY DEF FreeListSound
  <1>6. ASSUME NEW i \in DOMAIN list', i # 1
        PROVE  i - 1 \in DOMAIN list /\ list'[i] = list[i - 1]
    BY <1>2, <1>3, <1>6
  <1>7. \A i, j \in DOMAIN list' : list'[i] = list'[j] => i = j
    <2> TAKE i, j \in DOMAIN list'
    <2> HAVE list'[i] = list'[j]
    <2>1. CASE i # 1 /\ j # 1
      <3>1. i - 1 = j - 1
        BY <1>6, <2>1 DEF FreeListSound
      <3> QED
        BY <1>2, <1>3, <3>1
    <2>2. CASE i = 1 \/ j = 1
      BY <1>3, <1>5, <1>6, <2>2
    <2> QED
      BY <2>1, <2>2
  <1>8. ASSUME NEW f \in Slots
        PROVE  ~env_pgdir'[f] <=> \E i \in DOMAIN list' : list'[i] = f
    <2>1. ASSUME NEW i \in DOMAIN list, list[i] = f
          PROVE  i + 1 \in DOMAIN list' /\ list'[i + 1] = f
      BY <1>2, <1>3, <2>1
    <2>2. 1 \in DOMAIN list'
      BY <1>2, <1>3
    <2> QED
      BY <1>3, <1>4, <1>6, <2>1, <2>2 DEF FreeListSound
  <1> QED
    BY <1>7, <1>8 DEF FreeListSound

LEMMA StepKeepsFreeList ==
  ASSUME SchedTyped, TableTyped, FreeListSound, NEW c \in CPUS,
         Entry(c) \/ AnyHandler(c) \/ LeaveMonitor(c)
  PROVE  FreeListSound'
  <1> DEFINE cur == curenv[c]
  <1>a. InKernel(c, {"trap", "timer"}) => cur \in Slots
    BY DEF InKernel, SchedTyped, UserHasEnv, FromUser
  <1>b. UNCHANGED <<env_pgdir, env_free_list>> => FreeListSound'
    BY DEF FreeListSound
  <1>c. ASSUME NEW e \in Slots, EnvDestroy(c, e) \/ (e = cur /\ FreeCurrent(c))
        PROVE  FreeListSound'
    <2>1. CASE UNCHANGED table
      BY <2>1, <1>b DEF table
    <2>2. CASE env_pgdir[e] /\ EnvFree(e)
      BY <2>2, FreeKeepsFreeList
    <2> QED
      BY <1>c, <2>1, <2>2 DEF EnvDestroy, FreeCurrent, FreeFault
  <1>1. CASE Entry(c)
    BY <1>1, <1>b DEF Entry, UserTrap, TimerTrap, Wake, EnterTrap, Acquire, table
  <1>2. CASE ReapZombie(c)
    BY <1>2, <1>a, <1>c DEF ReapZombie
  <1>3. CASE SysExofork(c)
    BY <1>3, AllocKeepsFreeList DEF SysExofork
  <1>4. CASE \E id \in EnvId : SysEnvDestroy(c, id)
    <2>1. PICK id \in EnvId : SysEnvDestroy(c, id)
      BY <1>4
    <2>2. cur \in Slots
      BY <2>1, <1>a DEF SysEnvDestroy, InSyscall, InKernel
    <2>3. Envid2env(c, id, TRUE) \in Slots
      BY <2>1, <2>2, Envid2envType DEF SysEnvDestroy
    <2> QED
      BY <2>1, <2>3, <1>c DEF SysEnvDestroy
  <1>5. CASE \/ Idle(c) \/ TimerTick(c) \/ SysYield(c) \/ SysOther(c) \/ SysIpcRecv(c)
             \/ Breakpoint(c) \/ LeaveMonitor(c)
             \/ \E id \in EnvId : SysIpcTrySend(c, id)
             \/ \E id \in EnvId : \E s \in Settable : SysEnvSetStatus(c, id, s)
    BY <1>5, <1>b
    DEF Idle, TimerTick, SysYield, SysOther, SysIpcRecv, SysIpcTrySend,
        SysEnvSetStatus, Breakpoint, LeaveMonitor, table
  <1> QED
    BY <1>1, <1>2, <1>3, <1>4, <1>5 DEF AnyHandler, KernelStep

\* Whatever user programs do, on any number of CPUs: no slot of envs[] is on
\* the free list twice, and the free list is exactly the slots without an
\* address space.
THEOREM FreeListCorrect == Spec => []FreeListSound
  <1> DEFINE I == SchedTyped /\ TableTyped /\ FreeListSound
  <1>1. Init => I
    BY InitTyped, InitFreeList
  <1>2. I /\ [Next]_vars => I'
    <2> SUFFICES ASSUME I, [Next]_vars PROVE I'
      OBVIOUS
    <2>1. CASE Next
      BY <2>1, StepTyped, StepKeepsFreeList DEF Next
    <2>2. CASE UNCHANGED vars
      BY <2>2 DEF vars, table, SchedTyped, TableTyped, UserHasEnv, FromUser, FreeListSound
    <2> QED
      BY <2>1, <2>2
  <1> QED
    BY <1>1, <1>2, PTL DEF Spec
-----------------------------------------------------------------------------
(***************************************************************************)
(* Who runs what, under the library's discipline.                          *)
(*                                                                         *)
(* A handler leaves statuses st and a current environment cur to the       *)
(* scheduler.  Midway says what must hold of them, with the table already  *)
(* updated, for the scheduler to re-establish LibInv.                      *)
(***************************************************************************)
\* Where a CPU is while it runs a handler, the rest of a breakpoint's included.
Handling == Spinning \cup {"breakpoint"}

OnOther(c, e) == \E d \in CPUS \ {c} : FromUser(d) /\ curenv[d] = e

Midway(c, st, cur) ==
  /\ lock = c /\ pc[c] \in Handling
  /\ st \in [Slots -> Status]
  /\ cur \in Slots \cup {NoEnv}
  /\ \A d \in CPUS \ {c} :
       FromUser(d) => st[curenv[d]] \in {"RUNNING", "DYING"} /\ curenv[d] # cur
  /\ \A e \in Slots : st[e] = "DYING" => OnOther(c, e)
  /\ \A e \in Slots : st[e] = "RUNNING" => e = cur \/ OnOther(c, e)
  /\ \A e \in Slots : st[e] = "FREE" <=> ~env_pgdir'[e]
  /\ \A e \in Slots : env_ipc_recving'[e] /\ st[e] # "FREE" => st[e] = "NOT_RUNNABLE"

\* While a CPU is in a handler no other CPU is in the monitor.
LEMMA HolderAlone ==
  ASSUME LibInv, NEW c \in CPUS, lock = c, pc[c] \in Handling, NEW d \in CPUS
  PROVE  pc[d] # "monitor" /\ (pc[d] = "breakpoint" => d = c)
  BY DEF LibInv, LockDiscipline, Handling, Spinning

LEMMA EnvRunOwns ==
  ASSUME SchedTyped, LibInv, NEW c \in CPUS, NEW st, NEW cur, Midway(c, st, cur),
         NEW e \in Slots, st[e] = "RUNNABLE" \/ (e = cur /\ st[e] = "RUNNING"),
         EnvRun(c, st, cur, e)
  PROVE  LibInv'
  <1> DEFINE st1 == IF cur # NoEnv /\ st[cur] = "RUNNING"
                    THEN [st EXCEPT ![cur] = "RUNNABLE"] ELSE st
  <1>a. /\ pc \in [CPUS -> Labels] /\ curenv \in [CPUS -> Slots \cup {NoEnv}]
        /\ st \in [Slots -> Status] /\ cur \in Slots \cup {NoEnv}
        /\ lock = c /\ lock # NoCpu
    BY DEF SchedTyped, Midway
  <1>b. env_pgdir'[e]
    BY DEF Midway
  <1>1. /\ env_status' = [st1 EXCEPT ![e] = "RUNNING"]
        /\ curenv' = [curenv EXCEPT ![c] = e]
        /\ pc' = [pc EXCEPT ![c] = "user"]
        /\ lock' = NoCpu
    BY <1>b DEF EnvRun, Goto
  <1>2. st1 \in [Slots -> Status] /\ env_status' \in [Slots -> Status]
    BY <1>1, <1>a DEF Status
  <1>3. \A f \in Slots : env_status'[f] =
          IF f = e THEN "RUNNING"
          ELSE IF f = cur /\ st[f] = "RUNNING" THEN "RUNNABLE" ELSE st[f]
    <2>1. NoEnv \notin Slots
      BY DEF Slots
    <2> QED
      BY <2>1, <1>1, <1>a
  <1>4. \A d \in CPUS \ {c} : /\ FromUser(d)' <=> FromUser(d)
                              /\ curenv'[d] = curenv[d]
                              /\ pc'[d] = pc[d]
    BY <1>1, <1>a DEF FromUser
  <1>5. FromUser(c)' /\ curenv'[c] = e
    BY <1>1, <1>a DEF FromUser
  <1>6. \A d \in CPUS \ {c} :
          FromUser(d) => /\ curenv[d] \in Slots /\ curenv[d] # cur /\ curenv[d] # e
                         /\ st[curenv[d]] \in {"RUNNING", "DYING"}
    BY DEF Midway, LibInv, CpuOwnsEnv
  <1>7. CpuOwnsEnv'
    <2>1. ASSUME NEW d \in CPUS, FromUser(d)'
          PROVE  curenv'[d] \in Slots /\ env_status'[curenv'[d]] \in {"RUNNING", "DYING"}
      BY <2>1, <1>3, <1>4, <1>5, <1>6
    <2>2. ASSUME NEW d1 \in CPUS, NEW d2 \in CPUS, FromUser(d1)', FromUser(d2)',
                 curenv'[d1] = curenv'[d2]
          PROVE  d1 = d2
      BY <2>2, <1>4, <1>5, <1>6 DEF LibInv, CpuOwnsEnv
    <2>3. ASSUME NEW f \in Slots, env_status'[f] \in {"RUNNING", "DYING"}
          PROVE  \E d \in CPUS : FromUser(d)' /\ curenv'[d] = f
      <3>1. CASE f = e
        BY <3>1, <1>5
      <3>2. CASE f # e
        <4>1. OnOther(c, f)
          BY <2>3, <3>2, <1>3 DEF Midway
        <4> QED
          BY <4>1, <1>4 DEF OnOther
      <3> QED
        BY <3>1, <3>2
    <2> QED
      BY <2>1, <2>2, <2>3 DEF CpuOwnsEnv
  <1>8. StatusMatchesMemory' /\ ReceiverAsleep'
    BY <1>3 DEF Midway, StatusMatchesMemory, ReceiverAsleep
  <1>9. LockDiscipline'
    BY <1>1, <1>4, <1>a, HolderAlone
    DEF Midway, LibInv, LockDiscipline, Handling, Spinning
  <1> QED
    BY <1>7, <1>8, <1>9 DEF LibInv

LEMMA SchedHaltOwns ==
  ASSUME SchedTyped, LibInv, NEW c \in CPUS, NEW st, NEW cur, Midway(c, st, cur),
         \A e \in Slots : st[e] # "RUNNABLE",
         cur = NoEnv \/ st[cur] # "RUNNING",
         SchedHalt(c, st, cur)
  PROVE  LibInv'
  <1>a. /\ pc \in [CPUS -> Labels] /\ curenv \in [CPUS -> Slots \cup {NoEnv}]
        /\ st \in [Slots -> Status] /\ lock = c
    BY DEF SchedTyped, Midway
  <1>1. /\ env_status' = st
        /\ \A d \in CPUS \ {c} : /\ FromUser(d)' <=> FromUser(d)
                                 /\ curenv'[d] = curenv[d]
                                 /\ pc'[d] = pc[d]
        /\ ~FromUser(c)'
    BY <1>a DEF SchedHalt, Goto, FromUser
  <1>2. CpuOwnsEnv'
    <2>1. \A e \in Slots : st[e] \in {"RUNNING", "DYING"} => OnOther(c, e)
      BY DEF Midway, Slots
    <2> QED
      BY <1>1, <2>1 DEF CpuOwnsEnv, OnOther, Midway, LibInv
  <1>3. StatusMatchesMemory' /\ ReceiverAsleep'
    BY <1>1 DEF Midway, StatusMatchesMemory, ReceiverAsleep
  <1>4. LockDiscipline'
    <2>1. CASE \E e \in Slots : st[e] \in {"RUNNABLE", "RUNNING", "DYING"}
      <3>1. /\ pc' = [pc EXCEPT ![c] = "halted"] /\ lock' = NoCpu
            /\ curenv' = [curenv EXCEPT ![c] = NoEnv]
        BY <2>1 DEF SchedHalt, Goto
      <3> QED
        BY <3>1, <1>1, <1>a, HolderAlone DEF LibInv, LockDiscipline, Midway
    <2>2. CASE ~ \E e \in Slots : st[e] \in {"RUNNABLE", "RUNNING", "DYING"}
      <3>1. pc' = [pc EXCEPT ![c] = "monitor"] /\ lock' = c
        BY <2>2, <1>a DEF SchedHalt, Goto
      <3>2. \A e \in Slots : env_status'[e] \in {"FREE", "NOT_RUNNABLE"}
        BY <2>2, <1>1, <1>a DEF Status
      <3> QED
        BY <3>1, <3>2, <1>1, <1>a, HolderAlone DEF LibInv, LockDiscipline, Midway
    <2> QED
      BY <2>1, <2>2
  <1> QED
    BY <1>2, <1>3, <1>4 DEF LibInv

LEMMA SchedYieldOwns ==
  ASSUME SchedTyped, LibInv, NEW c \in CPUS, NEW st, NEW cur, Midway(c, st, cur),
         SchedYield(c, st, cur)
  PROVE  LibInv'
  <1>1. CASE \E e \in Slots : st[e] = "RUNNABLE" /\ EnvRun(c, st, cur, e)
    BY <1>1, EnvRunOwns
  <1>2. CASE cur # NoEnv /\ st[cur] = "RUNNING" /\ EnvRun(c, st, cur, cur)
    <2>1. cur \in Slots
      BY <1>2 DEF Midway
    <2> QED
      BY <1>2, <2>1, EnvRunOwns
  <1>3. CASE /\ \A e \in Slots : st[e] # "RUNNABLE"
             /\ cur = NoEnv \/ st[cur] # "RUNNING"
             /\ SchedHalt(c, st, cur)
    BY <1>3, SchedHaltOwns
  <1> QED
    BY <1>1, <1>2, <1>3 DEF SchedYield, FirstRunnable

LEMMA TrapReturnOwns ==
  ASSUME SchedTyped, LibInv, NEW c \in CPUS, NEW st, curenv[c] \in Slots,
         Midway(c, st, curenv[c]), TrapReturn(c, st)
  PROVE  LibInv'
  BY EnvRunOwns, SchedYieldOwns DEF TrapReturn
-----------------------------------------------------------------------------
(***************************************************************************)
(* Each handler leaves a Midway state                                      *)
(***************************************************************************)

\* The state a handler starts from, when its environment is not a zombie.
LEMMA StartMidway ==
  ASSUME SchedTyped, LibInv, NEW c \in CPUS, lock = c, pc[c] \in Handling,
         FromUser(c) => env_status[curenv[c]] # "DYING",
         UNCHANGED <<env_pgdir, env_ipc_recving>>
  PROVE  Midway(c, env_status, curenv[c])
  <1>1. curenv[c] \in Slots \cup {NoEnv} /\ env_status \in [Slots -> Status]
    BY DEF SchedTyped
  <1>2. \A d \in CPUS \ {c} :
          FromUser(d) => /\ env_status[curenv[d]] \in {"RUNNING", "DYING"}
                         /\ curenv[d] # curenv[c]
    <2> SUFFICES ASSUME NEW d \in CPUS \ {c}, FromUser(d)
                 PROVE  /\ env_status[curenv[d]] \in {"RUNNING", "DYING"}
                        /\ curenv[d] # curenv[c]
      OBVIOUS
    <2>1. curenv[d] \in Slots /\ env_status[curenv[d]] \in {"RUNNING", "DYING"}
      BY DEF LibInv, CpuOwnsEnv
    <2>2. CASE FromUser(c)
      BY <2>1, <2>2 DEF LibInv, CpuOwnsEnv
    <2>3. CASE ~FromUser(c)
      <3>1. curenv[c] = NoEnv
        BY <2>3 DEF LibInv, LockDiscipline, FromUser, Handling, Spinning
      <3> QED
        BY <3>1, <2>1 DEF Slots
    <2> QED
      BY <2>1, <2>2, <2>3
  <1>3. \A e \in Slots :
          env_status[e] \in {"RUNNING", "DYING"}
            => OnOther(c, e) \/ (FromUser(c) /\ e = curenv[c])
    BY DEF LibInv, CpuOwnsEnv, OnOther
  <1> QED
    BY <1>1, <1>2, <1>3
    DEF Midway, LibInv, StatusMatchesMemory, ReceiverAsleep

\* What LibInv says to a handler of a system call or a clock interrupt.
LEMMA InTrap ==
  ASSUME SchedTyped, LibInv, NEW c \in CPUS, InKernel(c, {"trap", "timer"})
  PROVE  /\ lock = c /\ pc[c] \in Handling /\ FromUser(c)
         /\ curenv[c] \in Slots
         /\ env_status[curenv[c]] \in {"RUNNING", "DYING"}
         /\ env_pgdir[curenv[c]]
         /\ ~env_ipc_recving[curenv[c]]
         /\ \A d \in CPUS \ {c} : FromUser(d) => curenv[d] # curenv[c]
  BY DEF InKernel, FromUser, Handling, Spinning, LibInv, CpuOwnsEnv,
         StatusMatchesMemory, ReceiverAsleep

\* In a system call the current environment is RUNNING.
LEMMA InCall ==
  ASSUME SchedTyped, LibInv, NEW c \in CPUS, InSyscall(c)
  PROVE  env_status[curenv[c]] = "RUNNING" /\ InKernel(c, {"trap", "timer"})
  <1>1. InKernel(c, {"trap", "timer"}) /\ env_status[curenv[c]] # "DYING"
    BY DEF InSyscall, InKernel, Zombie
  <1> QED
    BY <1>1, InTrap

\* envid2env never finds a free slot for a running caller.
LEMMA FoundIsLive ==
  ASSUME SchedTyped, LibInv, NEW c \in CPUS, InSyscall(c), NEW id \in EnvId,
         NEW b \in BOOLEAN, Envid2env(c, id, b) # NoEnv
  PROVE  /\ Envid2env(c, id, b) \in Slots
         /\ env_status[Envid2env(c, id, b)] # "FREE"
  <1>1. curenv[c] \in Slots /\ env_status[curenv[c]] = "RUNNING"
    BY InCall, InTrap
  <1> QED
    BY <1>1 DEF Envid2env, EnvId

\* env_free(curenv) and the choice of a successor.
LEMMA FreeCurrentOwns ==
  ASSUME SchedTyped, TableTyped, LibInv, NEW c \in CPUS,
         InKernel(c, {"trap", "timer"}), FreeCurrent(c)
  PROVE  LibInv'
  <1> DEFINE cur == curenv[c]
             st == [env_status EXCEPT ![cur] = "FREE"]
  <1>1. /\ lock = c /\ pc[c] \in Handling /\ cur \in Slots /\ env_pgdir[cur]
        /\ \A d \in CPUS \ {c} : FromUser(d) => curenv[d] # cur
    BY InTrap
  <1>2. EnvFree(cur) /\ SchedYield(c, st, NoEnv)
    BY <1>1 DEF FreeCurrent
  <1>3. st \in [Slots -> Status] /\ st[cur] = "FREE"
        /\ \A e \in Slots \ {cur} : st[e] = env_status[e]
    BY <1>1 DEF SchedTyped, Status
  <1>4. \A e \in Slots : /\ env_pgdir'[e] <=> env_pgdir[e] /\ e # cur
                         /\ env_ipc_recving'[e] = env_ipc_recving[e]
    BY <1>2 DEF EnvFree, TableTyped
  <1>5. \A d \in CPUS \ {c} :
          FromUser(d) => /\ curenv[d] \in Slots \ {cur}
                         /\ env_status[curenv[d]] \in {"RUNNING", "DYING"}
    BY <1>1 DEF LibInv, CpuOwnsEnv
  <1>6. \A e \in Slots \ {cur} : env_status[e] \in {"RUNNING", "DYING"} => OnOther(c, e)
    BY DEF LibInv, CpuOwnsEnv, OnOther
  <1>7. Midway(c, st, NoEnv)
    <2>1. \A d \in CPUS \ {c} :
            FromUser(d) => st[curenv[d]] \in {"RUNNING", "DYING"} /\ curenv[d] # NoEnv
      BY <1>3, <1>5 DEF Slots
    <2>2. \A e \in Slots : st[e] \in {"RUNNING", "DYING"} => OnOther(c, e)
      BY <1>3, <1>6
    <2>3. \A e \in Slots : st[e] = "FREE" <=> ~env_pgdir'[e]
      BY <1>3, <1>4 DEF LibInv, StatusMatchesMemory
    <2>4. \A e \in Slots : env_ipc_recving'[e] /\ st[e] # "FREE" => st[e] = "NOT_RUNNABLE"
      BY <1>3, <1>4 DEF LibInv, ReceiverAsleep
    <2> QED
      BY <1>1, <1>3, <2>1, <2>2, <2>3, <2>4 DEF Midway
  <1> QED
    BY <1>2, <1>7, SchedYieldOwns

\* A handler that gives one environment e another status, and the scheduler
\* the rest: Midway holds if e is not running elsewhere and the new status
\* suits it.
LEMMA ChangeMidway ==
  ASSUME SchedTyped, LibInv, NEW c \in CPUS, InSyscall(c), NEW e \in Slots,
         NEW s \in {"FREE", "RUNNABLE", "NOT_RUNNABLE"},
         \A d \in CPUS \ {c} : FromUser(d) => curenv[d] # e,
         \A f \in Slots \ {e} : /\ env_pgdir'[f] <=> env_pgdir[f]
                                /\ env_ipc_recving'[f] = env_ipc_recving[f],
         s = "FREE" <=> ~env_pgdir'[e],
         env_ipc_recving'[e] => s # "RUNNABLE"
  PROVE  Midway(c, [env_status EXCEPT ![e] = s], curenv[c])
  <1> DEFINE st == [env_status EXCEPT ![e] = s]
             cur == curenv[c]
  <1>1. /\ lock = c /\ pc[c] \in Handling /\ FromUser(c) /\ cur \in Slots
        /\ \A d \in CPUS \ {c} : FromUser(d) => curenv[d] # cur
        /\ env_status[cur] = "RUNNING"
    BY InTrap, InCall
  <1>2. st \in [Slots -> Status] /\ st[e] = s
        /\ \A f \in Slots \ {e} : st[f] = env_status[f]
    BY DEF SchedTyped, Status
  <1>3. \A d \in CPUS \ {c} :
          FromUser(d) => /\ curenv[d] \in Slots \ {e}
                         /\ env_status[curenv[d]] \in {"RUNNING", "DYING"}
    BY DEF LibInv, CpuOwnsEnv
  <1>4. \A f \in Slots : env_status[f] \in {"RUNNING", "DYING"} => f = cur \/ OnOther(c, f)
    BY DEF LibInv, CpuOwnsEnv, OnOther
  <1>5. \A f \in Slots : st[f] \in {"RUNNING", "DYING"}
          => env_status[f] = st[f] /\ f # e
    BY <1>2
  <1>6. \A f \in Slots : st[f] = "FREE" <=> ~env_pgdir'[f]
    BY <1>2 DEF LibInv, StatusMatchesMemory
  <1>7. \A f \in Slots : env_ipc_recving'[f] /\ st[f] # "FREE" => st[f] = "NOT_RUNNABLE"
    BY <1>2 DEF LibInv, ReceiverAsleep
  <1> HIDE DEF st
  <1>8. Midway(c, st, cur)
    BY <1>1, <1>2, <1>3, <1>4, <1>5, <1>6, <1>7 DEF Midway
  <1> QED
    BY <1>8 DEF st
-----------------------------------------------------------------------------
(***************************************************************************)
(* Each step keeps LibInv                                                  *)
(***************************************************************************)

LEMMA EntryOwns ==
  ASSUME SchedTyped, LibInv, NEW c \in CPUS, Entry(c)
  PROVE  LibInv'
  <1>a. pc \in [CPUS -> Labels] /\ UNCHANGED <<curenv, env_status, table>>
    BY DEF SchedTyped, Entry, UserTrap, TimerTrap, Wake, EnterTrap, Acquire
  <1>b. ~Panicked
    BY DEF Panicked, LibInv, LockDiscipline
  <1>1. \A d \in CPUS : FromUser(d)' <=> FromUser(d)
    BY <1>a, <1>b
    DEF Entry, UserTrap, TimerTrap, Wake, EnterTrap, Acquire, Goto, FromUser
  <1>2. CpuOwnsEnv' /\ StatusMatchesMemory' /\ ReceiverAsleep'
    BY <1>a, <1>1
    DEF table, LibInv, CpuOwnsEnv, StatusMatchesMemory, ReceiverAsleep
  <1>3. LockDiscipline'
    <2>1. CASE Acquire(c)
      <3>1. \A d \in CPUS : pc[d] # "monitor" /\ pc[d] # "breakpoint"
        BY <2>1 DEF Acquire, LibInv, LockDiscipline
      <3> QED
        BY <2>1, <3>1, <1>a DEF Acquire, LibInv, LockDiscipline
    <2>2. CASE UserTrap(c) \/ TimerTrap(c) \/ Wake(c)
      <3>1. /\ pc[c] \in {"user", "halted"} /\ lock' = lock
            /\ pc' = [pc EXCEPT ![c] = pc'[c]]
            /\ pc[c] = "user" => pc'[c] \in {"trap", "timer"}
            /\ pc[c] = "halted" => pc'[c] = "wake"
        BY <2>2, <1>a, <1>b DEF UserTrap, TimerTrap, Wake, EnterTrap, Goto
      <3>2. \A d \in CPUS \ {c} : pc'[d] = pc[d]
        BY <3>1, <1>a
      <3> QED
        BY <3>1, <3>2, <1>a DEF LibInv, LockDiscipline, Spinning
    <2> QED
      BY <2>1, <2>2 DEF Entry
  <1> QED
    BY <1>2, <1>3 DEF LibInv

LEMMA HandlerOwns ==
  ASSUME SchedTyped, TableTyped, FreeListSound, LibInv, NEW c \in CPUS, LibHandler(c)
  PROVE  LibInv'
  <1> DEFINE cur == curenv[c]
  <1>a. UNCHANGED table => UNCHANGED <<env_pgdir, env_ipc_recving>>
    BY DEF table
  <1>b. InSyscall(c) => /\ InKernel(c, {"trap", "timer"})
                        /\ cur \in Slots /\ env_status[cur] = "RUNNING"
                        /\ lock = c /\ pc[c] \in Handling
                        /\ \A d \in CPUS \ {c} : FromUser(d) => curenv[d] # cur
    BY InCall, InTrap
  <1>c. \A d \in CPUS : FromUser(d) => /\ curenv[d] \in Slots
                                       /\ env_status[curenv[d]] \in {"RUNNING", "DYING"}
    BY DEF LibInv, CpuOwnsEnv
  <1>1. CASE Idle(c)
    <2>1. lock = c /\ pc[c] \in Handling /\ ~FromUser(c)
      BY <1>1 DEF Idle, InKernel, Handling, Spinning, FromUser
    <2>2. Midway(c, env_status, cur)
      BY <1>1, <1>a, <2>1, StartMidway DEF Idle
    <2> QED
      BY <1>1, <2>2, SchedYieldOwns DEF Idle
  <1>2. CASE ReapZombie(c)
    BY <1>2, FreeCurrentOwns DEF ReapZombie
  <1>3. CASE TimerTick(c)
    <2>1. lock = c /\ pc[c] \in Handling /\ env_status[cur] # "DYING"
      BY <1>3 DEF TimerTick, InKernel, Handling, Spinning, Zombie
    <2>2. Midway(c, env_status, cur)
      BY <1>3, <1>a, <2>1, StartMidway DEF TimerTick
    <2> QED
      BY <1>3, <2>2, SchedYieldOwns DEF TimerTick
  <1>4. CASE SysOther(c) \/ SysYield(c)
    <2>1. InSyscall(c) /\ UNCHANGED <<env_pgdir, env_ipc_recving>>
      BY <1>4, <1>a DEF SysOther, SysYield
    <2>2. Midway(c, env_status, cur)
      BY <2>1, <1>b, StartMidway
    <2> QED
      BY <1>4, <1>b, <2>1, <2>2, SchedYieldOwns, TrapReturnOwns DEF SysOther, SysYield
  <1>5. CASE SysExofork(c)
    <2>1. PICK e \in Slots : EnvAlloc(e, IdOf(cur))
                             /\ TrapReturn(c, [env_status EXCEPT ![e] = "NOT_RUNNABLE"])
      BY <1>5 DEF SysExofork
    <2>2. InSyscall(c)
      BY <1>5 DEF SysExofork
    <2>3. ~env_pgdir[e]
      <3>1. 1 \in DOMAIN env_free_list /\ env_free_list[1] = e
        BY <2>1 DEF EnvAlloc, TableTyped
      <3> QED
        BY <3>1 DEF FreeListSound
    <2>4. \A d \in CPUS \ {c} : FromUser(d) => curenv[d] # e
      BY <2>3, <1>c DEF LibInv, StatusMatchesMemory
    <2>5. /\ \A f \in Slots \ {e} : /\ env_pgdir'[f] <=> env_pgdir[f]
                                    /\ env_ipc_recving'[f] = env_ipc_recving[f]
          /\ env_pgdir'[e] /\ ~env_ipc_recving'[e]
      BY <2>1 DEF EnvAlloc, TableTyped
    <2>6. Midway(c, [env_status EXCEPT ![e] = "NOT_RUNNABLE"], cur)
      BY <2>2, <2>4, <2>5, ChangeMidway
    <2> QED
      BY <2>1, <2>2, <2>6, <1>b, TrapReturnOwns
  <1>6. CASE SysIpcRecv(c)
    <2>1. InSyscall(c)
      BY <1>6 DEF SysIpcRecv
    <2>2. \A f \in Slots \ {cur} : /\ env_pgdir'[f] <=> env_pgdir[f]
                                   /\ env_ipc_recving'[f] = env_ipc_recving[f]
      BY <1>6 DEF SysIpcRecv, TableTyped
    <2>3. env_pgdir'[cur]
      BY <1>6, <1>b, <2>1 DEF SysIpcRecv, LibInv, StatusMatchesMemory
    <2>4. Midway(c, [env_status EXCEPT ![cur] = "NOT_RUNNABLE"], cur)
      BY <1>b, <2>1, <2>2, <2>3, ChangeMidway
    <2> QED
      BY <1>6, <2>4, SchedYieldOwns DEF SysIpcRecv
  <1>7. CASE \E id \in EnvId : SysIpcTrySend(c, id)
    <2>1. PICK id \in EnvId : SysIpcTrySend(c, id)
      BY <1>7
    <2> DEFINE e == Envid2env(c, id, FALSE)
    <2>2. InSyscall(c) /\ env_ipc_recving[e]
          /\ env_ipc_recving' = [env_ipc_recving EXCEPT ![e] = FALSE]
          /\ env_pgdir' = env_pgdir
          /\ TrapReturn(c, [env_status EXCEPT ![e] = "RUNNABLE"])
      BY <2>1 DEF SysIpcTrySend
    <2>3. e \in Slots /\ env_status[e] # "FREE"
      BY <2>1, <2>2, FoundIsLive DEF SysIpcTrySend
    <2> HIDE DEF e
    <2>4. env_status[e] = "NOT_RUNNABLE"
      BY <2>2, <2>3 DEF LibInv, ReceiverAsleep
    <2>5. \A d \in CPUS \ {c} : FromUser(d) => curenv[d] # e
      BY <2>4, <1>c
    <2>6. /\ \A f \in Slots \ {e} : env_ipc_recving'[f] = env_ipc_recving[f]
          /\ ~env_ipc_recving'[e] /\ env_pgdir'[e]
      BY <2>2, <2>3, <2>4 DEF TableTyped, LibInv, StatusMatchesMemory
    <2>7. Midway(c, [env_status EXCEPT ![e] = "RUNNABLE"], cur)
      BY <2>2, <2>3, <2>5, <2>6, ChangeMidway
    <2> QED
      BY <2>2, <2>7, <1>b, TrapReturnOwns
  <1>8. ASSUME NEW id \in EnvId, InSyscall(c), FirstDestroy(c, id), SysEnvDestroy(c, id)
        PROVE  LibInv'
    <2> DEFINE e == Envid2env(c, id, TRUE)
    <2>1. e \in Slots /\ env_status[e] # "FREE" /\ EnvDestroy(c, e)
      BY <1>8, FoundIsLive DEF SysEnvDestroy
    <2>2. env_status[e] # "DYING"
      BY <1>8, <2>1 DEF FirstDestroy
    <2> HIDE DEF e
    <2>3. env_pgdir[e]
      BY <2>1 DEF LibInv, StatusMatchesMemory
    <2>4. CASE e = cur
      BY <1>8, <1>b, <2>1, <2>4, FreeCurrentOwns DEF EnvDestroy
    <2>5. CASE e # cur /\ env_status[e] # "RUNNING"
      <3>1. EnvFree(e) /\ TrapReturn(c, [env_status EXCEPT ![e] = "FREE"])
        BY <2>1, <2>3, <2>5 DEF EnvDestroy
      <3>2. \A d \in CPUS \ {c} : FromUser(d) => curenv[d] # e
        BY <2>2, <2>5, <1>c
      <3>3. /\ \A f \in Slots \ {e} : /\ env_pgdir'[f] <=> env_pgdir[f]
                                      /\ env_ipc_recving'[f] = env_ipc_recving[f]
            /\ ~env_pgdir'[e]
        BY <2>1, <3>1 DEF EnvFree, TableTyped
      <3>4. Midway(c, [env_status EXCEPT ![e] = "FREE"], cur)
        BY <1>8, <2>1, <3>2, <3>3, ChangeMidway
      <3> QED
        BY <1>8, <1>b, <3>1, <3>4, TrapReturnOwns
    <2>6. CASE e # cur /\ env_status[e] = "RUNNING"
      <3> DEFINE st == [env_status EXCEPT ![e] = "DYING"]
      <3>1. UNCHANGED table /\ TrapReturn(c, st)
        BY <2>1, <2>6 DEF EnvDestroy
      <3>2. Midway(c, env_status, cur)
        BY <1>8, <1>a, <1>b, <3>1, StartMidway
      <3>3. st \in [Slots -> Status] /\ st[e] = "DYING"
            /\ \A f \in Slots \ {e} : st[f] = env_status[f]
        BY <2>1 DEF SchedTyped, Status
      <3> HIDE DEF st
      <3>4. Midway(c, st, cur)
        BY <2>1, <2>6, <3>2, <3>3, <1>c DEF Midway
      <3> QED
        BY <1>8, <1>b, <3>1, <3>4, TrapReturnOwns
    <2> QED
      BY <2>4, <2>5, <2>6
  <1>9. ASSUME NEW id \in EnvId, InSyscall(c), QuietTarget(c, id),
               NEW s \in Settable, SysEnvSetStatus(c, id, s)
        PROVE  LibInv'
    <2> DEFINE e == Envid2env(c, id, TRUE)
    <2>1. /\ e \in Slots /\ env_status[e] # "FREE"
          /\ UNCHANGED table /\ TrapReturn(c, [env_status EXCEPT ![e] = s])
      BY <1>9, FoundIsLive DEF SysEnvSetStatus
    <2>2. e = cur \/ (env_status[e] \in {"RUNNABLE", "NOT_RUNNABLE"} /\ ~env_ipc_recving[e])
      BY <1>9, <2>1 DEF QuietTarget
    <2> HIDE DEF e
    <2>3. \A d \in CPUS \ {c} : FromUser(d) => curenv[d] # e
      BY <1>9, <1>b, <1>c, <2>2
    <2>4. ~env_ipc_recving[e] /\ env_pgdir[e]
      BY <1>9, <1>b, <2>1, <2>2 DEF LibInv, ReceiverAsleep, StatusMatchesMemory
    <2>5. Midway(c, [env_status EXCEPT ![e] = s], cur)
      BY <1>9, <1>a, <2>1, <2>3, <2>4, ChangeMidway DEF Settable
    <2> QED
      BY <1>9, <1>b, <2>1, <2>5, TrapReturnOwns
  <1>10. CASE Breakpoint(c)
    <2>1. InSyscall(c) /\ pc' = [pc EXCEPT ![c] = "breakpoint"]
          /\ UNCHANGED <<lock, curenv, env_status, table>>
      BY <1>10 DEF Breakpoint, Goto
    <2>2. pc'[c] = "breakpoint" /\ \A d \in CPUS \ {c} : pc'[d] = pc[d]
      BY <2>1 DEF SchedTyped
    <2>3. FromUser(c) /\ \A d \in CPUS : FromUser(d)' <=> FromUser(d)
      BY <1>b, <2>1, <2>2, InTrap DEF FromUser
    <2>4. CpuOwnsEnv' /\ StatusMatchesMemory' /\ ReceiverAsleep'
      BY <2>1, <2>3
      DEF table, LibInv, CpuOwnsEnv, StatusMatchesMemory, ReceiverAsleep
    <2>5. LockDiscipline'
      BY <1>b, <2>1, <2>2 DEF LibInv, LockDiscipline
    <2> QED
      BY <2>4, <2>5 DEF LibInv
  <1> QED
    BY <1>1, <1>2, <1>3, <1>4, <1>5, <1>6, <1>7, <1>8, <1>9, <1>10
    DEF LibHandler, KernelStep

\* So does the end of a breakpoint: its environment is still RUNNING.
LEMMA LeaveOwns ==
  ASSUME SchedTyped, LibInv, NEW c \in CPUS, LeaveMonitor(c)
  PROVE  LibInv'
  <1>1. /\ lock = c /\ pc[c] \in Handling /\ curenv[c] \in Slots
        /\ env_status[curenv[c]] = "RUNNING"
    BY DEF LeaveMonitor, InKernel, Handling, FromUser, LibInv, CpuOwnsEnv, LockDiscipline
  <1>2. Midway(c, env_status, curenv[c])
    BY <1>1, StartMidway DEF LeaveMonitor, table
  <1> QED
    BY <1>1, <1>2, TrapReturnOwns DEF LeaveMonitor

LEMMA InitOwns == Init => LibInv
  <1> SUFFICES ASSUME Init PROVE LibInv
    OBVIOUS
  <1>1. \A e \in Slots : env_pgdir[e] <=> e < NINIT
    BY Zenon DEF Init
  <1>2. StatusMatchesMemory
    BY <1>1 DEF Init, StatusMatchesMemory
  <1> QED
    BY <1>2 DEF Init, LibInv, CpuOwnsEnv, ReceiverAsleep, LockDiscipline, FromUser, Spinning

\* The inductive invariant.
LEMMA AlwaysOwned == LibSpec => [](SchedTyped /\ TableTyped /\ FreeListSound /\ LibInv)
  <1> DEFINE I == SchedTyped /\ TableTyped /\ FreeListSound /\ LibInv
  <1>1. Init => I
    BY InitTyped, InitFreeList, InitOwns
  <1>2. I /\ [LibNext]_vars => I'
    <2> SUFFICES ASSUME I, [LibNext]_vars PROVE I'
      OBVIOUS
    <2>1. CASE LibNext
      <3>1. PICK c \in CPUS : Entry(c) \/ LibHandler(c) \/ LeaveMonitor(c)
        BY <2>1 DEF LibNext
      <3>2. Entry(c) \/ AnyHandler(c) \/ LeaveMonitor(c)
        BY <3>1, LibIsAny
      <3>3. SchedTyped' /\ TableTyped' /\ FreeListSound'
        BY <3>2, StepTyped, StepKeepsFreeList
      <3>4. LibInv'
        BY <3>1, EntryOwns, HandlerOwns, LeaveOwns
      <3> QED
        BY <3>3, <3>4
    <2>2. CASE UNCHANGED vars
      BY <2>2
      DEF vars, table, SchedTyped, TableTyped, UserHasEnv, FromUser, FreeListSound,
          LibInv, CpuOwnsEnv, StatusMatchesMemory, ReceiverAsleep, LockDiscipline
    <2> QED
      BY <2>1, <2>2
  <1> QED
    BY <1>1, <1>2, PTL DEF LibSpec

\* For any number of CPUs and environments, under programs that keep the
\* library's discipline: no two CPUs run the same environment, a CPU in user
\* mode runs one that exists, a zombie has a CPU to free it, a slot is FREE
\* exactly while it has no address space, and a send finds its receiver
\* asleep.
THEOREM OwnershipCorrect == LibSpec => []LibInv
  BY AlwaysOwned, PTL

\* When sched_halt() keeps a CPU in the monitor, with the kernel lock, for want
\* of an environment to run, there is none anywhere: no CPU is in user mode, on
\* its way to the kernel or at a breakpoint, and none has a zombie to free.
COROLLARY HaltsWhenNoneIsLeft == LibSpec => []NoneLeftToRun
  <1>1. LibInv => NoneLeftToRun
    BY DEF LibInv, LockDiscipline, CpuOwnsEnv, NoneLeftToRun
  <1> QED
    BY <1>1, OwnershipCorrect, PTL
-----------------------------------------------------------------------------
(***************************************************************************)
(* What a step may do to an environment                                    *)
(***************************************************************************)
LifeStep(e) ==
  /\ env_status[e] = "DYING" => env_status'[e] \in {"DYING", "FREE"}
  /\ env_status[e] = "FREE" => env_status'[e] \in {"FREE", "NOT_RUNNABLE"}
  /\ env_status[e] = "NOT_RUNNABLE" /\ env_ipc_recving[e]
       => \/ env_status'[e] = "NOT_RUNNABLE" /\ env_ipc_recving'[e]
          \/ env_status'[e] \in {"RUNNABLE", "RUNNING"} /\ ~env_ipc_recving'[e]
          \/ env_status'[e] = "FREE"

\* The scheduler, given statuses st, only makes of RUNNABLE RUNNING, and of
\* RUNNING RUNNABLE.
Scheduled(st) ==
  \A e \in Slots : \/ env_status'[e] = st[e]
                   \/ st[e] \in {"RUNNABLE", "RUNNING"} /\ env_status'[e] \in {"RUNNABLE", "RUNNING"}

LEMMA EnvRunSchedules ==
  ASSUME NEW c, NEW st \in [Slots -> Status], NEW cur \in Slots \cup {NoEnv},
         NEW e \in Slots, st[e] \in {"RUNNABLE", "RUNNING"}, EnvRun(c, st, cur, e)
  PROVE  Scheduled(st)
  <1> DEFINE st1 == IF cur # NoEnv /\ st[cur] = "RUNNING"
                    THEN [st EXCEPT ![cur] = "RUNNABLE"] ELSE st
  <1>1. env_status' = [st1 EXCEPT ![e] = "RUNNING"]
    BY DEF EnvRun
  <1>2. DOMAIN st1 = Slots
    OBVIOUS
  <1>3. \A f \in Slots : \/ st1[f] = st[f]
                         \/ st[f] = "RUNNING" /\ st1[f] = "RUNNABLE"
    OBVIOUS
  <1> HIDE DEF st1
  <1> QED
    BY <1>1, <1>2, <1>3 DEF Scheduled

LEMMA SchedYieldSchedules ==
  ASSUME NEW c, NEW st \in [Slots -> Status], NEW cur \in Slots \cup {NoEnv},
         SchedYield(c, st, cur)
  PROVE  Scheduled(st)
  <1>1. CASE \E e \in Slots : st[e] = "RUNNABLE" /\ EnvRun(c, st, cur, e)
    BY <1>1, EnvRunSchedules
  <1>2. CASE cur # NoEnv /\ st[cur] = "RUNNING" /\ EnvRun(c, st, cur, cur)
    BY <1>2, EnvRunSchedules
  <1>3. CASE SchedHalt(c, st, cur)
    BY <1>3 DEF SchedHalt, Scheduled
  <1> QED
    BY <1>1, <1>2, <1>3 DEF SchedYield, FirstRunnable

LEMMA TrapReturnSchedules ==
  ASSUME NEW c, NEW st \in [Slots -> Status], curenv[c] \in Slots, TrapReturn(c, st)
  PROVE  Scheduled(st)
  BY EnvRunSchedules, SchedYieldSchedules DEF TrapReturn

\* A handler that leaves everything to the scheduler, and one that gives e
\* another status and another flag first.
LEMMA SameLives ==
  ASSUME Scheduled(env_status), UNCHANGED env_ipc_recving
  PROVE  \A e \in Slots : LifeStep(e)
  BY DEF Scheduled, LifeStep

LEMMA OneLife ==
  ASSUME SchedTyped, NEW e \in Slots, NEW s \in Status,
         Scheduled([env_status EXCEPT ![e] = s]),
         \A f \in Slots \ {e} : env_ipc_recving'[f] = env_ipc_recving[f],
         env_status[e] = "DYING" => s \in {"DYING", "FREE"},
         env_status[e] = "FREE" => s = "NOT_RUNNABLE",
         env_status[e] = "NOT_RUNNABLE" /\ env_ipc_recving[e]
           => (s = "RUNNABLE" /\ ~env_ipc_recving'[e]) \/ s = "FREE"
  PROVE  \A f \in Slots : LifeStep(f)
  <1> DEFINE st == [env_status EXCEPT ![e] = s]
  <1>1. st[e] = s /\ \A f \in Slots \ {e} : st[f] = env_status[f]
    BY DEF SchedTyped
  <1>2. Scheduled(st)
    OBVIOUS
  <1> HIDE DEF st
  <1> QED
    BY <1>1, <1>2 DEF Scheduled, LifeStep

LEMMA FreeCurrentLives ==
  ASSUME SchedTyped, TableTyped, LibInv, NEW c \in CPUS,
         InKernel(c, {"trap", "timer"}), FreeCurrent(c)
  PROVE  \A e \in Slots : LifeStep(e)
  <1> DEFINE cur == curenv[c]
             st == [env_status EXCEPT ![cur] = "FREE"]
  <1>1. cur \in Slots /\ env_pgdir[cur] /\ env_status[cur] \in {"RUNNING", "DYING"}
    BY InTrap
  <1>2. EnvFree(cur) /\ SchedYield(c, st, NoEnv)
    BY <1>1 DEF FreeCurrent
  <1>3. st \in [Slots -> Status] /\ "FREE" \in Status
    BY <1>1 DEF SchedTyped, Status
  <1>4. Scheduled(st)
    BY <1>2, <1>3, SchedYieldSchedules
  <1> QED
    BY <1>1, <1>2, <1>3, <1>4, OneLife DEF EnvFree

LEMMA HandlerLives ==
  ASSUME SchedTyped, TableTyped, FreeListSound, LibInv, NEW c \in CPUS, LibHandler(c)
  PROVE  \A e \in Slots : LifeStep(e)
  <1> DEFINE cur == curenv[c]
  <1>a. UNCHANGED table => UNCHANGED env_ipc_recving
    BY DEF table
  <1>b. /\ env_status \in [Slots -> Status] /\ cur \in Slots \cup {NoEnv}
        /\ \A s \in {"FREE", "DYING", "RUNNABLE", "NOT_RUNNABLE"} : s \in Status
    BY DEF SchedTyped, Status
  <1>c. InSyscall(c) => /\ InKernel(c, {"trap", "timer"})
                        /\ cur \in Slots /\ env_status[cur] = "RUNNING"
    BY InCall, InTrap
  <1>d. \A e \in Slots, s \in {"FREE", "DYING", "RUNNABLE", "NOT_RUNNABLE"} :
          [env_status EXCEPT ![e] = s] \in [Slots -> Status]
    BY <1>b
  <1>1. CASE Idle(c) \/ TimerTick(c) \/ SysYield(c)
    BY <1>1, <1>a, <1>b, SchedYieldSchedules, SameLives DEF Idle, TimerTick, SysYield
  <1>2. CASE ReapZombie(c)
    BY <1>2, FreeCurrentLives DEF ReapZombie
  <1>3. CASE SysOther(c)
    BY <1>3, <1>a, <1>b, <1>c, TrapReturnSchedules, SameLives DEF SysOther
  <1>4. CASE SysExofork(c)
    <2>1. PICK e \in Slots : EnvAlloc(e, IdOf(cur))
                             /\ TrapReturn(c, [env_status EXCEPT ![e] = "NOT_RUNNABLE"])
      BY <1>4 DEF SysExofork
    <2>2. env_status[e] = "FREE"
      <3>1. 1 \in DOMAIN env_free_list /\ env_free_list[1] = e
        BY <2>1 DEF EnvAlloc, TableTyped
      <3> QED
        BY <3>1 DEF FreeListSound, LibInv, StatusMatchesMemory
    <2>3. \A f \in Slots \ {e} : env_ipc_recving'[f] = env_ipc_recving[f]
      BY <2>1 DEF EnvAlloc, TableTyped
    <2>4. Scheduled([env_status EXCEPT ![e] = "NOT_RUNNABLE"])
      BY <1>4, <1>c, <1>d, <2>1, TrapReturnSchedules DEF SysExofork
    <2> QED
      BY <1>b, <2>2, <2>3, <2>4, OneLife
  <1>5. CASE SysIpcRecv(c)
    <2>1. InSyscall(c) /\ SchedYield(c, [env_status EXCEPT ![cur] = "NOT_RUNNABLE"], cur)
      BY <1>5 DEF SysIpcRecv
    <2>2. \A f \in Slots \ {cur} : env_ipc_recving'[f] = env_ipc_recving[f]
      BY <1>5 DEF SysIpcRecv, TableTyped
    <2>3. Scheduled([env_status EXCEPT ![cur] = "NOT_RUNNABLE"])
      BY <1>b, <1>c, <1>d, <2>1, SchedYieldSchedules
    <2> QED
      BY <1>b, <1>c, <2>1, <2>2, <2>3, OneLife
  <1>6. ASSUME NEW id \in EnvId, SysIpcTrySend(c, id)
        PROVE  \A f \in Slots : LifeStep(f)
    <2> DEFINE e == Envid2env(c, id, FALSE)
    <2>1. InSyscall(c) /\ env_ipc_recving[e]
          /\ env_ipc_recving' = [env_ipc_recving EXCEPT ![e] = FALSE]
          /\ TrapReturn(c, [env_status EXCEPT ![e] = "RUNNABLE"])
      BY <1>6 DEF SysIpcTrySend
    <2>2. e \in Slots /\ env_status[e] # "FREE"
      BY <1>6, <2>1, FoundIsLive DEF SysIpcTrySend
    <2> HIDE DEF e
    <2>3. env_status[e] = "NOT_RUNNABLE"
      BY <2>1, <2>2 DEF LibInv, ReceiverAsleep
    <2>4. ~env_ipc_recving'[e] /\ \A f \in Slots \ {e} : env_ipc_recving'[f] = env_ipc_recving[f]
      BY <2>1, <2>2 DEF TableTyped
    <2>5. Scheduled([env_status EXCEPT ![e] = "RUNNABLE"])
      BY <1>c, <1>d, <2>1, <2>2, TrapReturnSchedules
    <2> QED
      BY <1>b, <2>2, <2>3, <2>4, <2>5, OneLife
  <1>7. ASSUME NEW id \in EnvId, InSyscall(c), FirstDestroy(c, id), SysEnvDestroy(c, id)
        PROVE  \A f \in Slots : LifeStep(f)
    <2> DEFINE e == Envid2env(c, id, TRUE)
    <2>1. e \in Slots /\ env_status[e] # "FREE" /\ EnvDestroy(c, e)
      BY <1>7, FoundIsLive DEF SysEnvDestroy
    <2>2. env_status[e] # "DYING"
      BY <1>7, <2>1 DEF FirstDestroy
    <2> HIDE DEF e
    <2>3. env_pgdir[e]
      BY <2>1 DEF LibInv, StatusMatchesMemory
    <2>4. CASE e = cur
      BY <1>7, <1>c, <2>1, <2>4, FreeCurrentLives DEF EnvDestroy
    <2>5. CASE e # cur /\ env_status[e] # "RUNNING"
      <3>1. EnvFree(e) /\ TrapReturn(c, [env_status EXCEPT ![e] = "FREE"])
        BY <2>1, <2>3, <2>5 DEF EnvDestroy
      <3>2. Scheduled([env_status EXCEPT ![e] = "FREE"])
        BY <1>7, <1>c, <1>d, <2>1, <3>1, TrapReturnSchedules
      <3> QED
        BY <1>b, <2>1, <3>1, <3>2, OneLife DEF EnvFree
    <2>6. CASE e # cur /\ env_status[e] = "RUNNING"
      <3>1. UNCHANGED table /\ TrapReturn(c, [env_status EXCEPT ![e] = "DYING"])
        BY <2>1, <2>6 DEF EnvDestroy
      <3>2. Scheduled([env_status EXCEPT ![e] = "DYING"])
        BY <1>7, <1>c, <1>d, <2>1, <3>1, TrapReturnSchedules
      <3> QED
        BY <1>a, <1>b, <2>1, <2>6, <3>1, <3>2, OneLife
    <2> QED
      BY <2>4, <2>5, <2>6
  <1>8. ASSUME NEW id \in EnvId, InSyscall(c), QuietTarget(c, id),
               NEW s \in Settable, SysEnvSetStatus(c, id, s)
        PROVE  \A f \in Slots : LifeStep(f)
    <2> DEFINE e == Envid2env(c, id, TRUE)
    <2>1. /\ e \in Slots
          /\ UNCHANGED table /\ TrapReturn(c, [env_status EXCEPT ![e] = s])
      BY <1>8, FoundIsLive DEF SysEnvSetStatus
    <2>2. e = cur \/ (env_status[e] \in {"RUNNABLE", "NOT_RUNNABLE"} /\ ~env_ipc_recving[e])
      BY <1>8, <2>1 DEF QuietTarget
    <2> HIDE DEF e
    <2>3. Scheduled([env_status EXCEPT ![e] = s])
      BY <1>8, <1>c, <1>d, <2>1, TrapReturnSchedules DEF Settable
    <2> QED
      BY <1>8, <1>a, <1>b, <1>c, <2>1, <2>2, <2>3, OneLife DEF Settable
  <1>9. CASE Breakpoint(c)
    BY <1>9, <1>a DEF Breakpoint, LifeStep
  <1> QED
    BY <1>1, <1>2, <1>3, <1>4, <1>5, <1>6, <1>7, <1>8, <1>9 DEF LibHandler, KernelStep

LEMMA LeaveLives ==
  ASSUME SchedTyped, NEW c \in CPUS, LeaveMonitor(c)
  PROVE  \A e \in Slots : LifeStep(e)
  <1>1. env_status \in [Slots -> Status] /\ curenv[c] \in Slots
    BY DEF LeaveMonitor, InKernel, SchedTyped, UserHasEnv, FromUser
  <1>2. Scheduled(env_status) /\ UNCHANGED env_ipc_recving
    BY <1>1, TrapReturnSchedules DEF LeaveMonitor, table
  <1> QED
    BY <1>2, SameLives

\* For any number of CPUs and environments, under programs that keep the
\* library's discipline: a zombie is freed and nothing else becomes of it, a
\* slot in the free list starts as a child that does not run, and only a
\* message or its end wakes an environment that waits for one.
THEOREM LivesAreOrderly == LibSpec => LifeCycle
  <1> DEFINE I == SchedTyped /\ TableTyped /\ FreeListSound /\ LibInv
  <1>1. I /\ [LibNext]_vars => [\A e \in Slots : LifeStep(e)]_vars
    <2> SUFFICES ASSUME I, LibNext PROVE \A e \in Slots : LifeStep(e)
      OBVIOUS
    <2>1. PICK c \in CPUS : Entry(c) \/ LibHandler(c) \/ LeaveMonitor(c)
      BY DEF LibNext
    <2>2. CASE Entry(c)
      BY <2>2 DEF Entry, UserTrap, TimerTrap, Wake, EnterTrap, Acquire, table, LifeStep
    <2>3. CASE LibHandler(c)
      BY <2>3, HandlerLives
    <2>4. CASE LeaveMonitor(c)
      BY <2>4, LeaveLives
    <2> QED
      BY <2>1, <2>2, <2>3, <2>4
  <1>2. LibSpec => []I
    BY AlwaysOwned
  <1>3. LibSpec => [][\A e \in Slots : LifeStep(e)]_vars
    BY <1>1, <1>2, PTL DEF LibSpec
  <1> QED
    BY <1>3 DEF LifeCycle, LifeStep

-----------------------------------------------------------------------------
(***************************************************************************)
(* The kernel and its lock.  KernEnv takes and gives back kernel_lock as   *)
(* Mutex, which SpinLock implements, says: the two levels meet here.       *)
(***************************************************************************)

\* The CPUs in lock_kernel().
Waiting == {c \in CPUS : pc[c] \in Spinning /\ lock # c}

KernelLock == INSTANCE Mutex WITH holder <- lock, asking <- Waiting

\* No CPU takes the lock to user mode or to hlt.
HolderInKernel == \A c \in CPUS : lock = c => pc[c] \in Handling \cup {"monitor", "panic"}

\* How a handler ends.
Ends(c) ==
  \/ lock' = NoCpu /\ (Goto(c, "user") \/ Goto(c, "halted"))
  \/ lock' = lock /\ (Goto(c, "monitor") \/ Goto(c, "panic"))

LEMMA SchedulerEnds ==
  ASSUME NEW c, NEW st, NEW cur
  PROVE  /\ SchedYield(c, st, cur) => Ends(c)
         /\ TrapReturn(c, st) => Ends(c)
         /\ FreeFault(c) => Ends(c)
  <1>1. ASSUME NEW k, NEW e PROVE EnvRun(c, st, k, e) => Ends(c)
    BY DEF EnvRun, Panic, Ends
  <1>2. ASSUME NEW k PROVE SchedHalt(c, st, k) => Ends(c)
    BY DEF SchedHalt, Ends
  <1>3. ASSUME NEW k PROVE SchedYield(c, st, k) => Ends(c)
    BY <1>1, <1>2 DEF SchedYield
  <1>4. TrapReturn(c, st) => Ends(c)
    BY <1>1, <1>3 DEF TrapReturn
  <1>5. FreeFault(c) => Ends(c)
    BY DEF FreeFault, Panic, Ends
  <1> QED
    BY <1>3, <1>4, <1>5

LEMMA FreeingEnds ==
  ASSUME NEW c
  PROVE  /\ FreeCurrent(c) => Ends(c)
         /\ \A e : EnvDestroy(c, e) => Ends(c)
  <1>1. FreeCurrent(c) => Ends(c)
    BY SchedulerEnds DEF FreeCurrent
  <1> QED
    BY <1>1, SchedulerEnds DEF EnvDestroy

LEMMA HandlerEnds ==
  ASSUME NEW c \in CPUS, AnyHandler(c) \/ LeaveMonitor(c), ~Breakpoint(c)
  PROVE  lock = c /\ pc[c] \in Handling /\ Ends(c)
  <1> USE DEF InSyscall, InKernel, Handling, Spinning
  <1>1. CASE Idle(c) \/ TimerTick(c)
    BY <1>1, SchedulerEnds DEF Idle, TimerTick
  <1>2. CASE ReapZombie(c)
    BY <1>2, FreeingEnds DEF ReapZombie
  <1>3. CASE SysOther(c) \/ SysYield(c) \/ SysExofork(c) \/ SysIpcRecv(c)
    BY <1>3, SchedulerEnds DEF SysOther, SysYield, SysExofork, SysIpcRecv
  <1>4. CASE \E id \in EnvId : SysIpcTrySend(c, id)
    BY <1>4, SchedulerEnds DEF SysIpcTrySend
  <1>5. CASE \E id \in EnvId : SysEnvDestroy(c, id)
    BY <1>5, FreeingEnds DEF SysEnvDestroy
  <1>6. CASE \E id \in EnvId, s \in Settable : SysEnvSetStatus(c, id, s)
    BY <1>6, SchedulerEnds DEF SysEnvSetStatus
  <1>7. CASE LeaveMonitor(c)
    BY <1>7, SchedulerEnds DEF LeaveMonitor
  <1> QED
    BY <1>1, <1>2, <1>3, <1>4, <1>5, <1>6, <1>7 DEF AnyHandler, KernelStep

\* What a step of c does to the lock.
LEMMA LockStep ==
  ASSUME SchedTyped, HolderInKernel, NEW c \in CPUS,
         Entry(c) \/ AnyHandler(c) \/ LeaveMonitor(c)
  PROVE  /\ HolderInKernel'
         /\ \/ KernelLock!Ask(c) \/ KernelLock!Grant(c) \/ KernelLock!Release(c)
            \/ UNCHANGED <<lock, Waiting>>
  <1>a. pc \in [CPUS -> Labels] /\ lock \in CPUS \cup {NoCpu}
    BY DEF SchedTyped
  <1>1. CASE UserTrap(c) \/ TimerTrap(c) \/ Wake(c)
    <2>1. /\ pc[c] \in {"user", "halted"} /\ lock' = lock
          /\ \E l \in {"trap", "timer", "wake", "stopped"} : Goto(c, l)
      BY <1>1 DEF UserTrap, TimerTrap, Wake, EnterTrap
    <2>2. lock # c /\ c \notin Waiting
      BY <2>1 DEF HolderInKernel, Handling, Spinning, Waiting
    <2>3. Waiting' \in {Waiting, Waiting \cup {c}}
      BY <1>a, <2>1, <2>2 DEF Waiting, Goto
    <2>4. HolderInKernel'
      BY <1>a, <2>1, <2>2 DEF HolderInKernel, Goto
    <2> QED
      BY <2>1, <2>2, <2>3, <2>4 DEF KernelLock!Ask
  <1>2. CASE Acquire(c)
    <2>1. pc[c] \in Spinning /\ lock = NoCpu /\ lock' = c /\ pc' = pc
      BY <1>2 DEF Acquire
    <2>2. c \in Waiting /\ Waiting' = Waiting \ {c}
      BY <2>1 DEF Waiting
    <2> QED
      BY <2>1, <2>2 DEF HolderInKernel, Handling, KernelLock!Grant
  <1>3. CASE (AnyHandler(c) \/ LeaveMonitor(c)) /\ ~Breakpoint(c)
    <2>1. lock = c /\ pc[c] \in Handling /\ Ends(c)
      BY <1>3, HandlerEnds
    <2>2. Waiting' = Waiting
      BY <1>a, <2>1 DEF Waiting, Ends, Goto, Spinning
    <2>3. HolderInKernel'
      BY <1>a, <2>1 DEF HolderInKernel, Ends, Goto
    <2> QED
      BY <2>1, <2>2, <2>3 DEF Ends, KernelLock!Release
  <1>4. CASE Breakpoint(c)
    <2>1. lock = c /\ lock' = lock /\ pc' = [pc EXCEPT ![c] = "breakpoint"]
      BY <1>4 DEF Breakpoint, Goto, InSyscall, InKernel
    <2>2. pc'[c] = "breakpoint" /\ \A d \in CPUS \ {c} : pc'[d] = pc[d]
      BY <1>a, <2>1
    <2> QED
      BY <2>1, <2>2 DEF HolderInKernel, Handling, Waiting
  <1> QED
    BY <1>1, <1>2, <1>3, <1>4 DEF Entry

\* Whatever user programs do: no CPU is in user mode or in hlt with the kernel
\* lock, and every step of the kernel asks for it, is granted it or gives it
\* back as the abstract lock has it (lock_kernel() of trap() and mp_main(),
\* unlock_kernel() of env_run() and sched_halt()).
THEOREM KernelUsesLock == Spec => []HolderInKernel /\ [][KernelLock!Next]_<<lock, Waiting>>
  <1> DEFINE I == SchedTyped /\ TableTyped
  <1>1. Init => HolderInKernel
    BY DEF Init, HolderInKernel, Handling, Spinning
  <1>2. I /\ HolderInKernel /\ [Next]_vars =>
          HolderInKernel' /\ [KernelLock!Next]_<<lock, Waiting>>
    <2> SUFFICES ASSUME I, HolderInKernel, [Next]_vars
                 PROVE  HolderInKernel' /\ [KernelLock!Next]_<<lock, Waiting>>
      OBVIOUS
    <2>1. CASE Next
      BY <2>1, LockStep DEF Next, KernelLock!Next
    <2>2. CASE UNCHANGED vars
      BY <2>2 DEF vars, HolderInKernel, Waiting
    <2> QED
      BY <2>1, <2>2
  <1>3. I /\ [Next]_vars => I'
    <2> SUFFICES ASSUME I, [Next]_vars PROVE I'
      OBVIOUS
    <2>1. CASE Next
      BY <2>1, StepTyped DEF Next
    <2>2. CASE UNCHANGED vars
      BY <2>2 DEF vars, table, SchedTyped, TableTyped, UserHasEnv, FromUser
    <2> QED
      BY <2>1, <2>2
  <1> QED
    BY InitTyped, <1>1, <1>2, <1>3, PTL DEF Spec
=============================================================================
