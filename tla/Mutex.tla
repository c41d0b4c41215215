------------------------------- MODULE Mutex -------------------------------
(***************************************************************************)
(* What kern/spinlock.c promises its callers: lock_kernel() returns on at  *)
(* most one CPU at a time, and a free lock that somebody asks for is       *)
(* granted.  It promises no order among the CPUs that ask: the lock is a   *)
(* test-and-set lock, and a CPU may lose every race.                       *)
(***************************************************************************)

CONSTANTS CPUS,  \* the processors, cpus[0 .. ncpu-1]
          NoCpu  \* "nobody", not a member of CPUS

VARIABLES holder,  \* the CPU between lock_kernel() and unlock_kernel()
          asking   \* the CPUs inside lock_kernel()

mutexVars == <<holder, asking>>

Init == holder = NoCpu /\ asking = {}

\* A CPU that does not hold the lock calls lock_kernel().
Ask(c) ==
  /\ c \notin asking /\ holder # c
  /\ asking' = asking \cup {c}
  /\ UNCHANGED holder

\* lock_kernel() returns on c.
Grant(c) ==
  /\ c \in asking /\ holder = NoCpu
  /\ holder' = c
  /\ asking' = asking \ {c}

\* The holder gives the lock back.
Release(c) ==
  /\ holder = c
  /\ holder' = NoCpu
  /\ UNCHANGED asking

Next == \E c \in CPUS : Ask(c) \/ Grant(c) \/ Release(c)

\* A free lock that is asked for is granted to somebody.
Spec == Init /\ [][Next]_mutexVars /\ WF_mutexVars(\E c \in CPUS : Grant(c))
=============================================================================
