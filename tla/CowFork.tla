------------------------------ MODULE CowFork ------------------------------
(***************************************************************************)
(* fork() with copy on write: lib/fork.c and lib/pgfault.c, over the page  *)
(* tables and the TLB (page_insert and tlb_invalidate of kern/pmap.c, the  *)
(* lcr3() of env_run).  A system call is a step, a user instruction that   *)
(* touches memory is a step, and environments run on CPUs of their own     *)
(* (KernEnv: on at most one each, so a TLB is that of an environment).     *)
(*                                                                         *)
(* page_alloc's choice is CHOOSE: which free page it is cannot matter, as  *)
(* sys_page_alloc clears it.  The exception stack is not one of Page: it   *)
(* is above USTACKTOP, where fork() does not look, and nobody else maps    *)
(* it.  A call that fails for want of memory ends in panic(), whose        *)
(* breakpoint starts over and over again: the environment goes no further  *)
(* until it is destroyed (Exit).                                           *)
(***************************************************************************)
EXTENDS Naturals

CONSTANTS
  Env, NoEnv,     \* slots of envs[]
  Root,           \* the one environment at the start
  Page,           \* the pages UTEXT .. USTACKTOP
  Stack,          \* those of the user stack
  Shared,         \* those that are always mapped PTE_SHARE
  Frame, NoFrame, \* physical pages
  Value, Zero     \* what a page may hold

ASSUME EnvAssumption   == Root \in Env /\ NoEnv \notin Env
ASSUME PageAssumption  == /\ Page \subseteq Nat \ {0} /\ Stack \subseteq Page /\ Shared \subseteq Page
                          /\ Stack \cap Shared = {}
ASSUME FrameAssumption == NoFrame \notin Frame
ASSUME ValueAssumption == Zero \in Value /\ NoFrame \notin Value

VARIABLES
  mem,     \* the contents of the physical pages
  pa,      \* the physical page an entry of a page table holds
  perm,    \* its bits: "W", "SHARE" (and PTE_W), "COW", or "RO" for none of them
  pftemp,  \* the physical page mapped at PFTEMP, writable
  tlb,     \* the translations <<page, frame, writable>> the CPU an environment runs
           \* on may hold: all there were in its page table since the last lcr3()
  status,  \* "free", "embryo" (exofork()ed, not runnable) or "live"
  handler, \* the environments with _pgfault_handler set in their data
  xstack,  \* those with an exception stack
  upcall,  \* those with env_pgfault_upcall
  parent,  \* env_parent_id
  child,   \* whom an environment is forking
  step,    \* where in fork() it is: the bits duppage() has read in uvpt, or a name
  left,    \* the pages fork()'s loop has not mapped in the child yet
  cur,     \* the page duppage() works on
  fault,   \* where in pgfault() an environment is
  fva      \* the page it faulted on

space    == <<pa, perm, pftemp>>
forking  == <<parent, child, step, left, cur>>
faulting == <<fault, fva>>
upcalls  == <<handler, xstack, upcall>>
vars == <<mem, space, tlb, status, upcalls, forking, faulting>>

NoPage == 0
Perms == {"W", "SHARE", "COW", "RO"}

TypeOK ==
  /\ mem \in [Frame -> Value]
  /\ pa \in [Env -> [Page -> Frame \cup {NoFrame}]]
  /\ perm \in [Env -> [Page -> Perms]]
  /\ pftemp \in [Env -> Frame \cup {NoFrame}]
  /\ tlb \in [Env -> SUBSET (Page \X Frame \X BOOLEAN)]
  /\ status \in [Env -> {"free", "embryo", "live"}]
  /\ handler \subseteq Env /\ xstack \subseteq Env /\ upcall \subseteq Env
  /\ parent \in [Env -> Env \cup {NoEnv}]
  /\ child \in [Env -> Env \cup {NoEnv}]
  /\ step \in [Env -> Perms \cup {"run", "walk", "own", "upcall", "start"}]
  /\ left \in [Env -> SUBSET Page]
  /\ cur \in [Env -> Page \cup {NoPage}]
  /\ fault \in [Env -> {"none", "alloc", "copy", "map", "unmap"}]
  /\ fva \in [Env -> Page \cup {NoPage}]

Init ==
  /\ mem = [f \in Frame |-> Zero]
  /\ pa = [e \in Env |-> [p \in Page |-> NoFrame]]
  /\ perm = [e \in Env |-> [p \in Page |-> "RO"]]
  /\ pftemp = [e \in Env |-> NoFrame]
  /\ tlb = [e \in Env |-> {}]
  /\ status = [e \in Env |-> IF e = Root THEN "live" ELSE "free"]
  /\ handler = {} /\ xstack = {} /\ upcall = {}
  /\ parent = [e \in Env |-> NoEnv]
  /\ child = [e \in Env |-> NoEnv]
  /\ step = [e \in Env |-> "run"]
  /\ left = [e \in Env |-> {}]
  /\ cur = [e \in Env |-> NoPage]
  /\ fault = [e \in Env |-> "none"]
  /\ fva = [e \in Env |-> NoPage]

-----------------------------------------------------------------------------
(***************************************************************************)
(* User instructions.                                                      *)
(***************************************************************************)
Mapped(e, p)   == pa[e][p] # NoFrame
Writable(e, p) == perm[e][p] \in {"W", "SHARE"}

Table(e) == {<<p, pa[e][p], Writable(e, p)>> : p \in {q \in Page : Mapped(e, q)}}

\* In user mode, outside pgfault(); inside fork() only the stack is written.
InUser(e) == status[e] = "live" /\ fault[e] = "none"
MayTouch(e, p) == InUser(e) /\ (step[e] # "run" => p \in Stack)

Store(e, p, v) ==
  /\ MayTouch(e, p)
  /\ \E t \in tlb[e] : t[1] = p /\ t[3] /\ mem' = [mem EXCEPT ![t[2]] = v]
  /\ UNCHANGED <<space, tlb, status, upcalls, forking, faulting>>

\* A call of e returns to user mode by env_run(), whose lcr3() empties the TLB
\* of this CPU; another CPU's keeps what it holds.
EnvRun(e) ==
  tlb' = [x \in Env |-> CASE status'[x] # "live" -> {}
                         [] status'[x] = "live" /\ x = e -> Table(x)'
                         [] OTHER -> tlb[x] \cup Table(x)']

-----------------------------------------------------------------------------
(***************************************************************************)
(* System calls on the caller's own pages.                                 *)
(***************************************************************************)
InUse == {pa[e][p] : e \in Env, p \in Page} \cup {pftemp[e] : e \in Env}
page_alloc == CHOOSE f \in Frame : f \notin InUse
NoMemory == Frame \subseteq InUse

\* A shared page is made once, and everyone has it by fork().
SysPageAlloc(e, p, bits) ==
  /\ InUser(e) /\ step[e] = "run" /\ ~NoMemory
  /\ bits = "SHARE" <=> p \in Shared
  /\ p \in Shared => \A x \in Env : ~Mapped(x, p)
  /\ mem' = [mem EXCEPT ![page_alloc] = Zero]
  /\ pa' = [pa EXCEPT ![e][p] = page_alloc]
  /\ perm' = [perm EXCEPT ![e][p] = bits]
  /\ UNCHANGED <<pftemp, status, upcalls, forking, faulting>>
  /\ EnvRun(e)

\* sys_page_map(0, va, 0, va, PTE_P|PTE_U)
Protect(e, p) ==
  /\ InUser(e) /\ step[e] = "run" /\ Mapped(e, p) /\ p \notin Shared
  /\ perm' = [perm EXCEPT ![e][p] = "RO"]
  /\ UNCHANGED <<mem, pa, pftemp, status, upcalls, forking, faulting>>
  /\ EnvRun(e)

SysPageUnmap(e, p) ==
  /\ InUser(e) /\ step[e] = "run" /\ Mapped(e, p)
  /\ pa' = [pa EXCEPT ![e][p] = NoFrame]
  /\ perm' = [perm EXCEPT ![e][p] = "RO"]
  /\ UNCHANGED <<mem, pftemp, status, upcalls, forking, faulting>>
  /\ EnvRun(e)

-----------------------------------------------------------------------------
(***************************************************************************)
(* pgfault() of lib/fork.c.  The write is tried again when it returns; the *)
(* return address _pgfault_upcall pushes on the interrupted stack is a     *)
(* Store like any other.                                                   *)
(***************************************************************************)
\* page_fault_handler: without upcall and exception stack the environment is
\* destroyed (Exit); if the page is not PTE_COW, pgfault() panics.
Fault(e, p) ==
  /\ MayTouch(e, p)
  /\ e \in upcall /\ e \in xstack
  /\ \E t \in tlb[e] : t[1] = p /\ ~t[3]
  /\ perm[e][p] = "COW"
  /\ fault' = [fault EXCEPT ![e] = "alloc"]
  /\ fva' = [fva EXCEPT ![e] = p]
  /\ UNCHANGED <<mem, space, status, upcalls, forking>>
  /\ EnvRun(e)

PgfaultAlloc(e) ==
  /\ status[e] = "live" /\ fault[e] = "alloc" /\ ~NoMemory
  /\ pftemp' = [pftemp EXCEPT ![e] = page_alloc]
  /\ mem' = [mem EXCEPT ![page_alloc] = Zero]
  /\ fault' = [fault EXCEPT ![e] = "copy"]
  /\ UNCHANGED <<pa, perm, status, upcalls, forking, fva>>
  /\ EnvRun(e)

\* memmove
PgfaultCopy(e) ==
  /\ status[e] = "live" /\ fault[e] = "copy"
  /\ \E t \in tlb[e] : t[1] = fva[e] /\ mem' = [mem EXCEPT ![pftemp[e]] = mem[t[2]]]
  /\ fault' = [fault EXCEPT ![e] = "map"]
  /\ UNCHANGED <<space, tlb, status, upcalls, forking, fva>>

PgfaultMap(e) ==
  /\ status[e] = "live" /\ fault[e] = "map"
  /\ pa' = [pa EXCEPT ![e][fva[e]] = pftemp[e]]
  /\ perm' = [perm EXCEPT ![e][fva[e]] = "W"]
  /\ fault' = [fault EXCEPT ![e] = "unmap"]
  /\ UNCHANGED <<mem, pftemp, status, upcalls, forking, fva>>
  /\ EnvRun(e)

PgfaultUnmap(e) ==
  /\ status[e] = "live" /\ fault[e] = "unmap"
  /\ pftemp' = [pftemp EXCEPT ![e] = NoFrame]
  /\ fault' = [fault EXCEPT ![e] = "none"]
  /\ fva' = [fva EXCEPT ![e] = NoPage]
  /\ UNCHANGED <<mem, pa, perm, status, upcalls, forking>>
  /\ EnvRun(e)

-----------------------------------------------------------------------------
(***************************************************************************)
(* fork().  Its loop runs upwards through the pages.                       *)
(***************************************************************************)
\* set_pgfault_handler, of which only the first call has anything to do.
SetPgfaultHandler(e) ==
  /\ InUser(e) /\ step[e] = "run" /\ e \notin handler
  /\ handler' = handler \cup {e}
  /\ xstack' = xstack \cup {e}
  /\ upcall' = upcall \cup {e}
  /\ UNCHANGED <<mem, space, status, forking, faulting>>
  /\ EnvRun(e)

\* Mutant: the child is left runnable, as env_alloc makes it.
SysExoforkRunnable(e, c) ==
  /\ InUser(e) /\ step[e] = "run" /\ e \in handler
  /\ status[c] = "free"
  /\ status' = [status EXCEPT ![c] = "live"]
  /\ handler' = handler \cup {c}
  /\ parent' = [parent EXCEPT ![c] = e]
  /\ child' = [child EXCEPT ![e] = c]
  /\ left' = [left EXCEPT ![e] = Page]
  /\ step' = [step EXCEPT ![e] = "walk"]
  /\ UNCHANGED <<mem, space, xstack, upcall, cur, faulting>>
  /\ EnvRun(e)

SysExofork(e, c) ==
  /\ InUser(e) /\ step[e] = "run" /\ e \in handler
  /\ status[c] = "free"
  /\ status' = [status EXCEPT ![c] = "embryo"]
  /\ handler' = handler \cup {c}
  /\ parent' = [parent EXCEPT ![c] = e]
  /\ child' = [child EXCEPT ![e] = c]
  /\ left' = [left EXCEPT ![e] = Page]
  /\ step' = [step EXCEPT ![e] = "walk"]
  /\ UNCHANGED <<mem, space, xstack, upcall, cur, faulting>>
  /\ EnvRun(e)

NextPage(e, p) == p \in left[e] /\ \A q \in left[e] : p <= q

WalkPast(e, p) ==
  /\ InUser(e) /\ step[e] = "walk" /\ NextPage(e, p) /\ ~Mapped(e, p)
  /\ left' = [left EXCEPT ![e] = @ \ {p}]
  /\ UNCHANGED <<mem, space, tlb, status, upcalls, parent, child, step, cur, faulting>>

\* duppage() is called for the page, and reads uvpt.
Walk(e, p) ==
  /\ InUser(e) /\ step[e] = "walk" /\ NextPage(e, p) /\ Mapped(e, p)
  /\ step' = [step EXCEPT ![e] = perm[e][p]]
  /\ cur' = [cur EXCEPT ![e] = p]
  /\ UNCHANGED <<mem, space, tlb, status, upcalls, parent, child, left, faulting>>

\* duppage(), the page in the child: sys_page_map looks the page up now.
MapInChild(e, bits) ==
  /\ pa' = [pa EXCEPT ![child[e]][cur[e]] = pa[e][cur[e]]]
  /\ perm' = [perm EXCEPT ![child[e]][cur[e]] = bits]
  /\ left' = [left EXCEPT ![e] = @ \ {cur[e]}]
  /\ UNCHANGED <<mem, pftemp, status, upcalls, parent, child, faulting>>

\* A page with PTE_SHARE, or one that cannot be written.
DupAsIs(e) ==
  /\ InUser(e) /\ step[e] \in {"SHARE", "RO"}
  /\ MapInChild(e, step[e])
  /\ step' = [step EXCEPT ![e] = "walk"]
  /\ cur' = [cur EXCEPT ![e] = NoPage]
  /\ EnvRun(e)

\* Mutant: a page already copy-on-write is not marked again (the question in
\* the comment above duppage).
DupCowMarkOnce(e) ==
  /\ InUser(e) /\ step[e] \in {"W", "COW"}
  /\ MapInChild(e, "COW")
  /\ step' = [step EXCEPT ![e] = IF @ = "W" THEN "own" ELSE "walk"]
  /\ cur' = [cur EXCEPT ![e] = IF step[e] = "W" THEN @ ELSE NoPage]
  /\ EnvRun(e)

DupCow(e) ==
  /\ InUser(e) /\ step[e] \in {"W", "COW"}
  /\ MapInChild(e, "COW")
  /\ step' = [step EXCEPT ![e] = "own"]
  /\ UNCHANGED cur
  /\ EnvRun(e)

\* duppage(), our own mapping of it.
DupOwn(e) ==
  /\ InUser(e) /\ step[e] = "own"
  /\ perm' = [perm EXCEPT ![e][cur[e]] = "COW"]
  /\ step' = [step EXCEPT ![e] = "walk"]
  /\ cur' = [cur EXCEPT ![e] = NoPage]
  /\ UNCHANGED <<mem, pa, pftemp, status, upcalls, parent, child, left, faulting>>
  /\ EnvRun(e)

ForkExceptionStack(e) ==
  /\ InUser(e) /\ step[e] = "walk" /\ left[e] = {} /\ ~NoMemory
  /\ xstack' = xstack \cup {child[e]}
  /\ step' = [step EXCEPT ![e] = "upcall"]
  /\ UNCHANGED <<mem, space, status, handler, upcall, parent, child, left, cur, faulting>>
  /\ EnvRun(e)

\* Mutant: set_pgfault_handler is trusted to do it in the child.
ForkUpcallLeftToChild(e) ==
  /\ InUser(e) /\ step[e] = "upcall"
  /\ step' = [step EXCEPT ![e] = "start"]
  /\ UNCHANGED <<mem, space, status, handler, xstack, upcall, parent, child, left, cur, faulting>>
  /\ EnvRun(e)

ForkUpcall(e) ==
  /\ InUser(e) /\ step[e] = "upcall"
  /\ upcall' = upcall \cup {child[e]}
  /\ step' = [step EXCEPT ![e] = "start"]
  /\ UNCHANGED <<mem, space, status, handler, xstack, parent, child, left, cur, faulting>>
  /\ EnvRun(e)

\* sys_env_set_status: from now on the child runs, on whatever CPU.
ForkStart(e) ==
  /\ InUser(e) /\ step[e] = "start"
  /\ status' = [status EXCEPT ![child[e]] = "live"]
  /\ child' = [child EXCEPT ![e] = NoEnv]
  /\ step' = [step EXCEPT ![e] = "run"]
  /\ UNCHANGED <<mem, space, upcalls, parent, left, cur, faulting>>
  /\ EnvRun(e)

-----------------------------------------------------------------------------
\* exit(), or destroyed by somebody else or by its fault, at any point: env_free.  A child it was
\* forking stays as it is for good.
Exit(e) ==
  /\ status[e] = "live"
  /\ status' = [status EXCEPT ![e] = "free"]
  /\ pa' = [pa EXCEPT ![e] = [p \in Page |-> NoFrame]]
  /\ perm' = [perm EXCEPT ![e] = [p \in Page |-> "RO"]]
  /\ pftemp' = [pftemp EXCEPT ![e] = NoFrame]
  /\ handler' = handler \ {e} /\ xstack' = xstack \ {e} /\ upcall' = upcall \ {e}
  /\ child' = [child EXCEPT ![e] = NoEnv]
  /\ step' = [step EXCEPT ![e] = "run"]
  /\ left' = [left EXCEPT ![e] = {}]
  /\ cur' = [cur EXCEPT ![e] = NoPage]
  /\ fault' = [fault EXCEPT ![e] = "none"]
  /\ fva' = [fva EXCEPT ![e] = NoPage]
  /\ UNCHANGED <<mem, parent>>
  /\ EnvRun(e)

Next == \E e \in Env :
  \/ \E p \in Page :
       \/ Fault(e, p) \/ WalkPast(e, p) \/ Walk(e, p)
       \/ Protect(e, p) \/ SysPageUnmap(e, p)
       \/ \E v \in Value : Store(e, p, v)
       \/ \E bits \in {"W", "RO", "SHARE"} : SysPageAlloc(e, p, bits)
  \/ PgfaultAlloc(e) \/ PgfaultCopy(e) \/ PgfaultMap(e) \/ PgfaultUnmap(e)
  \/ SetPgfaultHandler(e)
  \/ \E c \in Env : SysExofork(e, c)
  \/ DupAsIs(e) \/ DupCow(e) \/ DupOwn(e)
  \/ ForkExceptionStack(e) \/ ForkUpcall(e) \/ ForkStart(e)
  \/ Exit(e)

Spec == Init /\ [][Next]_vars

-----------------------------------------------------------------------------
NoValue == NoFrame
Content(e, p) == IF Mapped(e, p) THEN mem[pa[e][p]] ELSE NoValue

\* What a child finds in a page fork() has not come to yet is what its parent
\* has there.
Forked(e) == parent[e] \in Env /\ child[parent[e]] = e
View(e, p) ==
  CASE status[e] = "live" -> Content(e, p)
    [] status[e] # "live" /\ Forked(e) ->
         IF p \in left[parent[e]] THEN Content(parent[e], p) ELSE Content(e, p)
    [] OTHER -> NoValue

Memory == INSTANCE ForkMemory WITH
  view <- [e \in Env |-> [p \in Page |-> View(e, p)]],
  live <- {e \in Env : status[e] = "live"}

\* fork() with copy on write gives every environment a memory of its own: the
\* child's is the parent's as it was when sys_exofork() returned, but for the
\* stack the parent works on, and no write of the one is seen by the other,
\* in whatever order the faults, copies and calls of all of them come
\* (duppage and pgfault of lib/fork.c).
ImplementsForkMemory == Memory!Spec

\* No CPU holds a translation that is no longer in the page table of the
\* environment it runs, or still writes where that has become read-only:
\* tlb_invalidate flushes only the CPU that makes the change, and is right
\* because nobody changes the page table of an environment that runs elsewhere.
TlbCoherent == \A e \in Env : tlb[e] \subseteq Table(e)

\* An environment with a copy-on-write page can take the fault on it: fork()
\* gives the child stack and upcall before the child runs, although the
\* child's _pgfault_handler says they are there already.
CanFault ==
  \A e \in Env : \A p \in Page :
    status[e] = "live" /\ perm[e][p] = "COW" => e \in upcall /\ e \in xstack
=============================================================================
