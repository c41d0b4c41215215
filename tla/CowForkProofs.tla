--------------------------- MODULE CowForkProofs ---------------------------
(***************************************************************************)
(* Proofs about CowFork, for any number of environments, pages and frames. *)
(* The inductive invariant IInv says who may share a physical page with    *)
(* whom: a page that can be written is mapped once, but for the moment     *)
(* between the two calls of duppage().  From it follow that the TLBs are   *)
(* coherent, that copy-on-write faults can be taken, and, step by step,    *)
(* that CowFork implements ForkMemory.                                     *)
(*                                                                         *)
(* Then UserFault, by which such a fault is handled: the frames on the     *)
(* exception stack and the stacks of the code they interrupt are apart     *)
(* from each other, and every return resumes what was interrupted.         *)
(***************************************************************************)
EXTENDS CowFork, UserFault, SequenceTheorems, TLAPS

\* The TLB of a running environment is its page table.
TlbInv == \A e \in Env : tlb[e] = IF status[e] = "live" THEN Table(e) ELSE {}

\* An environment that does not run is in no call.
IdleInv ==
  \A e \in Env :
    /\ status[e] # "live" => /\ pftemp[e] = NoFrame /\ fault[e] = "none"
                             /\ child[e] = NoEnv /\ step[e] = "run"
    /\ status[e] = "free" => \A p \in Page : pa[e][p] = NoFrame /\ perm[e][p] # "W"

\* A child being forked has one parent, and is not runnable.
ChildInv ==
  \A e \in Env :
    /\ child[e] = NoEnv <=> step[e] = "run"
    /\ child[e] # NoEnv => status[child[e]] = "embryo" /\ parent[child[e]] = e

\* Where fork() is agrees with the page tables.
StepInv ==
  \A e \in Env :
    /\ step[e] \in Perms => /\ cur[e] \in left[e] /\ Mapped(e, cur[e])
                            /\ step[e] \in {"W", "COW"} <=> perm[e][cur[e]] \in {"W", "COW"}
                            /\ step[e] = "SHARE" <=> perm[e][cur[e]] = "SHARE"
    /\ step[e] = "own" => /\ cur[e] \in Page /\ Mapped(e, cur[e])
                          /\ perm[e][cur[e]] \in {"W", "COW"}
    /\ step[e] \in {"run", "upcall", "start"} => left[e] = {}

\* fork() has mapped nothing in the child where its loop has not been.
LeftInv ==
  \A e \in Env : child[e] # NoEnv => \A p \in left[e] : pa[child[e]][p] = NoFrame

\* One physical page is one page everywhere; the shared ones are shared by all.
SharedInv ==
  /\ \A e \in Env : \A p \in Page : Mapped(e, p) => (perm[e][p] = "SHARE" <=> p \in Shared)
  /\ \A e, x \in Env : \A p \in Page :
       p \in Shared /\ Mapped(e, p) /\ Mapped(x, p) => pa[e][p] = pa[x][p]
  /\ \A e, x \in Env : \A p, q \in Page :
       Mapped(e, p) /\ pa[e][p] = pa[x][q] => p = q

\* Who else maps a writable page that is not shared: the child that has just
\* been given it.
WriterInv ==
  \A e, x \in Env : \A p \in Page :
    Mapped(e, p) /\ perm[e][p] = "W" /\ pa[x][p] = pa[e][p] /\ x # e
      => step[e] = "own" /\ child[e] = x /\ cur[e] = p

\* fork() maps no page writable in the child.
EmbryoInv ==
  \A e \in Env : status[e] = "embryo" => \A p \in Page : perm[e][p] # "W"

\* The new page of a fault is nobody else's.
TempInv ==
  \A e, x \in Env :
    /\ pftemp[e] # NoFrame <=> fault[e] \in {"copy", "map", "unmap"}
    /\ pftemp[e] # NoFrame /\ pftemp[e] = pftemp[x] => e = x
    /\ \A p \in Page : pftemp[e] # NoFrame /\ pftemp[e] = pa[x][p]
         => x = e /\ p = fva[e] /\ fault[e] = "unmap"

FaultInv ==
  \A e \in Env :
    /\ fault[e] # "none" => fva[e] \in Page
    /\ fault[e] \in {"alloc", "copy", "map"} => Mapped(e, fva[e]) /\ perm[e][fva[e]] = "COW"
    /\ fault[e] = "map" => mem[pftemp[e]] = mem[pa[e][fva[e]]]

UpcallInv ==
  \A e \in Env :
    /\ status[e] = "live" /\ e \in handler => e \in upcall /\ e \in xstack
    /\ child[e] # NoEnv => e \in handler
    /\ step[e] \in {"upcall", "start"} => child[e] \in xstack
    /\ step[e] = "start" => child[e] \in upcall
    /\ status[e] = "live" => \A p \in Page : perm[e][p] = "COW" => e \in handler
    /\ status[e] = "embryo" => e \in handler

IInv ==
  /\ TypeOK /\ TlbInv /\ IdleInv /\ ChildInv /\ StepInv /\ LeftInv /\ SharedInv /\ WriterInv
  /\ EmbryoInv /\ TempInv /\ FaultInv /\ UpcallInv

-----------------------------------------------------------------------------
\* The page page_alloc returns is mapped nowhere.
LEMMA PageAllocFresh ==
  ASSUME ~NoMemory
  PROVE  /\ page_alloc \in Frame
         /\ \A e \in Env : \A p \in Page : pa[e][p] # page_alloc
         /\ \A e \in Env : pftemp[e] # page_alloc
<1>1. page_alloc \in Frame /\ page_alloc \notin InUse
  BY DEF NoMemory, page_alloc
<1>2. \A e \in Env : \A p \in Page : pa[e][p] \in InUse
  BY DEF InUse
<1>3. \A e \in Env : pftemp[e] \in InUse
  BY DEF InUse
<1>4. QED  BY <1>1, <1>2, <1>3

\* A call leaves every TLB a page table if no other running environment's
\* table loses an entry.
LEMMA EnvRunTlb ==
  ASSUME NEW e \in Env, TlbInv, EnvRun(e),
         \A x \in Env \ {e} : status'[x] = "live" => tlb[x] \subseteq Table(x)'
  PROVE  TlbInv'
BY DEF TlbInv, EnvRun

LEMMA EnvRunType ==
  ASSUME NEW e \in Env, TypeOK, EnvRun(e),
         pa' \in [Env -> [Page -> Frame \cup {NoFrame}]]
  PROVE  tlb' \in [Env -> SUBSET (Page \X Frame \X BOOLEAN)]
<1>1. \A x \in Env : Table(x)' \subseteq Page \X Frame \X BOOLEAN
  <2> SUFFICES ASSUME NEW x \in Env, NEW t \in Table(x)'  PROVE  t \in Page \X Frame \X BOOLEAN
    OBVIOUS
  <2>1. PICK p \in Page : pa'[x][p] # NoFrame /\ t = <<p, pa'[x][p], Writable(x, p)'>>
    BY DEF Table, Mapped
  <2>2. pa'[x][p] \in Frame /\ Writable(x, p)' \in BOOLEAN
    BY <2>1 DEF Writable
  <2>3. QED  BY <2>1, <2>2
<1>2. QED  BY <1>1 DEF EnvRun, TypeOK

\* What is in a TLB is in the page table.
LEMMA InTlb ==
  ASSUME TlbInv, NEW e \in Env, NEW t \in tlb[e]
  PROVE  /\ status[e] = "live" /\ t[1] \in Page /\ Mapped(e, t[1])
         /\ t[2] = pa[e][t[1]] /\ t[3] = Writable(e, t[1])
<1>1. status[e] = "live" /\ t \in Table(e)
  BY DEF TlbInv
<1>2. PICK p \in Page : Mapped(e, p) /\ t = <<p, pa[e][p], Writable(e, p)>>
  BY <1>1 DEF Table
<1>3. QED  BY <1>1, <1>2

\* WriterInv, used and shown away from the rest of IInv.
LEMMA WriterIs ==
  ASSUME WriterInv, NEW x \in Env, NEW y \in Env, NEW q \in Page, Mapped(x, q),
         perm[x][q] = "W", pa[y][q] = pa[x][q], y # x
  PROVE  step[x] = "own" /\ child[x] = y /\ cur[x] = q
BY DEF WriterInv

LEMMA WriterNext ==
  ASSUME \A x, y \in Env : \A q \in Page :
           Mapped(x, q)' /\ perm'[x][q] = "W" /\ pa'[y][q] = pa'[x][q] /\ y # x
             => step'[x] = "own" /\ child'[x] = y /\ cur'[x] = q
  PROVE  WriterInv'
BY DEF WriterInv

LEMMA FrameType ==
  ASSUME TypeOK, NEW x \in Env
  PROVE  /\ \A q \in Page : pa[x][q] # NoFrame => pa[x][q] \in Frame
         /\ pftemp[x] # NoFrame => pftemp[x] \in Frame
<1>1. pa[x] \in [Page -> Frame \cup {NoFrame}]
  BY DEF TypeOK
<1>2. \A q \in Page : pa[x][q] \in Frame \cup {NoFrame}
  BY <1>1
<1>3. pftemp[x] \in Frame \cup {NoFrame}
  BY DEF TypeOK
<1>4. QED  BY <1>2, <1>3

LEMMA SpaceSame ==
  ASSUME NEW x \in Env, \A p \in Page : pa[x][p]' = pa[x][p] /\ perm[x][p]' = perm[x][p]
  PROVE  Table(x)' = Table(x)
BY DEF Table, Mapped, Writable

LEMMA StoreStep ==
  ASSUME IInv, NEW e \in Env, NEW p \in Page, NEW v \in Value, Store(e, p, v)
  PROVE  IInv'
<1> USE DEF IInv
<1>1. TypeOK'
  <2>1. mem' \in [Frame -> Value]
    BY DEF TypeOK, Table, Store, MayTouch, InUser, Perms, NoPage
  <2>2. QED  BY <2>1 DEF TypeOK, Store, MayTouch, space, forking, faulting, upcalls
<1>2. TlbInv'
  BY DEF TypeOK, TlbInv, Table, Writable, Store, MayTouch, InUser, space, Mapped
<1>3. IdleInv'
  BY SMT DEF TypeOK, IdleInv, Store, MayTouch, InUser, space, forking, faulting, Mapped
<1>4. ChildInv'
  BY SMT DEF TypeOK, ChildInv, IdleInv, Store, MayTouch, InUser, space, forking, Mapped
<1>5. StepInv'
  BY SMT DEF TypeOK, StepInv, IdleInv, Store, MayTouch, InUser, space, forking, Mapped
<1>6. SharedInv'
  BY SMT DEF TypeOK, SharedInv, IdleInv, Store, MayTouch, InUser, space, upcalls, Mapped
<1>7. WriterInv'
  BY SMT DEF TypeOK, WriterInv, IdleInv, Store, MayTouch, InUser, space, forking, Mapped
<1>8. EmbryoInv'
  BY SMT DEF TypeOK, EmbryoInv, IdleInv, Store, MayTouch, InUser, space, upcalls, Mapped
<1>9. TempInv'
  BY SMT DEF TypeOK, TempInv, IdleInv, Store, MayTouch, InUser, space, faulting, Mapped
<1>10. FaultInv'
  <2> SUFFICES ASSUME NEW x \in Env
               PROVE  /\ fault'[x] # "none" => fva'[x] \in Page
                      /\ fault'[x] \in {"alloc", "copy", "map"}
                           => pa'[x][fva'[x]] # NoFrame /\ perm'[x][fva'[x]] = "COW"
                      /\ fault'[x] = "map" => mem'[pftemp'[x]] = mem'[pa'[x][fva'[x]]]
    BY DEF FaultInv, Mapped
  <2>1. PICK t \in tlb[e] : t[1] = p /\ t[3] /\ mem' = [mem EXCEPT ![t[2]] = v]
    BY DEF Store
  <2>2. t[2] = pa[e][p] /\ Mapped(e, p) /\ Writable(e, p)
    BY <2>1, InTlb
  <2>3. ASSUME fault[x] = "map"  PROVE pftemp[x] # pa[e][p] /\ pa[x][fva[x]] # pa[e][p]
    <3>1. x # e /\ status[x] = "live" /\ fva[x] \in Page /\ perm[x][fva[x]] = "COW" /\ Mapped(x, fva[x])
      BY <2>3 DEF FaultInv, IdleInv, Store, MayTouch, InUser
    <3>2. pftemp[x] # pa[e][p]
      BY <2>3, <3>1 DEF TempInv
    <3>3. CASE pa[x][fva[x]] = pa[e][p]
      <4>1. fva[x] = p
        BY <3>1, <3>3, <2>2 DEF SharedInv
      <4>2. perm[e][p] = "W"
        BY <4>1, <3>1, <2>2 DEF SharedInv, Writable
      <4>3. x = child[e]
        BY <4>1, <4>2, <3>1, <3>3, <2>2 DEF WriterInv
      <4>4. child[e] # NoEnv
        BY <4>3, EnvAssumption
      <4>5. status[child[e]] = "embryo"
        BY <4>4 DEF ChildInv
      <4>6. QED  BY <4>3, <4>5, <3>1
    <3>4. QED  BY <3>2, <3>3
  <2>4. QED  BY <2>1, <2>2, <2>3 DEF FaultInv, TypeOK, Store, space, faulting, Mapped
<1>11. UpcallInv'
  BY SMT DEF TypeOK, UpcallInv, Store, MayTouch, InUser, space, forking, upcalls
<1>12. LeftInv'
  BY SMT DEF TypeOK, LeftInv, ChildInv, IdleInv, Store, MayTouch, InUser, space, forking
<1>q. QED  BY <1>1, <1>2, <1>3, <1>4, <1>5, <1>6, <1>7, <1>8, <1>9, <1>10, <1>11, <1>12

LEMMA SysPageAllocStep ==
  ASSUME IInv, NEW e \in Env, NEW p \in Page, NEW bits \in {"W", "RO", "SHARE"}, SysPageAlloc(e, p, bits)
  PROVE  IInv'
<1> USE DEF IInv
<1>f. ~NoMemory  BY DEF SysPageAlloc, InUser
<1>1. TypeOK'
  <2>1. mem' \in [Frame -> Value]
    BY ValueAssumption, <1>f, PageAllocFresh DEF TypeOK, SysPageAlloc, InUser, Perms, NoPage
  <2>2. pa' \in [Env -> [Page -> Frame \cup {NoFrame}]]
    BY <1>f, PageAllocFresh DEF TypeOK, SysPageAlloc, InUser, Perms, NoPage
  <2>3. perm' \in [Env -> [Page -> Perms]]
    BY <1>f, PageAllocFresh DEF TypeOK, SysPageAlloc, InUser, Perms, NoPage
  <2>4. tlb' \in [Env -> SUBSET (Page \X Frame \X BOOLEAN)]
    BY <2>2, EnvRunType DEF SysPageAlloc, InUser
  <2>5. QED  BY <2>1, <2>2, <2>3, <2>4 DEF TypeOK, SysPageAlloc, forking, faulting, upcalls
<1>2. TlbInv'
  <2>1. \A x \in Env \ {e} : status'[x] = "live" => tlb[x] \subseteq Table(x)'
    BY SpaceSame DEF TlbInv, TypeOK, IdleInv, ChildInv, SysPageAlloc, InUser, Mapped
  <2>2. QED  BY <2>1, EnvRunTlb DEF SysPageAlloc, InUser
<1>3. IdleInv'
  BY <1>f, PageAllocFresh, SMT DEF IdleInv, SysPageAlloc, InUser, forking, faulting
<1>4. ChildInv'
  BY <1>f, PageAllocFresh, SMT DEF TypeOK, ChildInv, SysPageAlloc, InUser, forking
<1>5. StepInv'
  BY <1>f, PageAllocFresh, SMT DEF StepInv, SysPageAlloc, InUser, forking, Mapped
<1>6. SharedInv'
  BY <1>f, PageAllocFresh, SMT DEF TypeOK, SharedInv, SysPageAlloc, forking, Mapped
<1>7. WriterInv'
  BY <1>f, PageAllocFresh, SMT DEF TypeOK, WriterInv, SysPageAlloc, forking, Mapped
<1>8. EmbryoInv'
  BY <1>f, PageAllocFresh, SMT DEF TypeOK, EmbryoInv, IdleInv, SysPageAlloc, InUser
<1>9. TempInv'
  BY <1>f, PageAllocFresh, SMT DEF TypeOK, TempInv, SysPageAlloc, InUser, faulting
<1>10. FaultInv'
  <2> SUFFICES ASSUME NEW x \in Env
               PROVE  /\ fault'[x] # "none" => fva'[x] \in Page
                      /\ fault'[x] \in {"alloc", "copy", "map"}
                           => pa'[x][fva'[x]] # NoFrame /\ perm'[x][fva'[x]] = "COW"
                      /\ fault'[x] = "map" => mem'[pftemp'[x]] = mem'[pa'[x][fva'[x]]]
    BY DEF FaultInv, Mapped
  <2>1. ASSUME fault[x] = "map"
        PROVE  pftemp[x] \in Frame /\ pa[x][fva[x]] \in Frame /\ fva[x] \in Page
    <3>1. fva[x] \in Page /\ pa[x][fva[x]] # NoFrame /\ pftemp[x] # NoFrame
      BY <2>1 DEF FaultInv, TempInv, Mapped
    <3>2. QED  BY <3>1, FrameType
  <2>2. x = e => fault[x] = "none"
    BY DEF SysPageAlloc, InUser
  <2>3. CASE x = e
    BY <2>2, <2>3 DEF SysPageAlloc, faulting
  <2>4. CASE x # e
    <3>1. fault[x] = "map" => pftemp[x] # page_alloc /\ pa[x][fva[x]] # page_alloc
      BY <1>f, <2>1, PageAllocFresh
    <3>2. pa'[x] = pa[x] /\ perm'[x] = perm[x] /\ pftemp' = pftemp /\ fault' = fault /\ fva' = fva
      BY <2>4 DEF SysPageAlloc, TypeOK, faulting
    <3>3. fault[x] = "map" => mem'[pftemp[x]] = mem[pftemp[x]] /\ mem'[pa[x][fva[x]]] = mem[pa[x][fva[x]]]
      BY <1>f, <2>1, <3>1, PageAllocFresh DEF SysPageAlloc, TypeOK
    <3>4. QED  BY <3>2, <3>3 DEF FaultInv, Mapped
  <2>5. QED  BY <2>3, <2>4
<1>11. UpcallInv'
  BY <1>f, PageAllocFresh, SMT DEF UpcallInv, SysPageAlloc, InUser, forking, upcalls
<1>12. LeftInv'
  BY <1>f, PageAllocFresh, SMT DEF LeftInv, ChildInv, SysPageAlloc, InUser, forking
<1>q. QED  BY <1>1, <1>2, <1>3, <1>4, <1>5, <1>6, <1>7, <1>8, <1>9, <1>10, <1>11, <1>12

LEMMA ProtectStep ==
  ASSUME IInv, NEW e \in Env, NEW p \in Page, Protect(e, p)
  PROVE  IInv'
<1> USE DEF IInv
<1>1. TypeOK'
  <2>1. perm' \in [Env -> [Page -> Perms]]
    BY DEF TypeOK, Protect, InUser, Perms, NoPage
  <2>2. tlb' \in [Env -> SUBSET (Page \X Frame \X BOOLEAN)]
    BY EnvRunType DEF TypeOK, Protect, InUser, space
  <2>3. QED  BY <2>1, <2>2 DEF TypeOK, Protect, InUser, forking, faulting, upcalls
<1>2. TlbInv'
  <2>1. \A x \in Env \ {e} : status'[x] = "live" => tlb[x] \subseteq Table(x)'
    BY SpaceSame DEF TlbInv, TypeOK, IdleInv, ChildInv, Protect, InUser, space, Mapped
  <2>2. QED  BY <2>1, EnvRunTlb DEF Protect, InUser
<1>3. IdleInv'
  <2>1. \A x \in Env : \A q \in Page : perm[x][q] # "W" => perm'[x][q] # "W"
    BY DEF TypeOK, Protect
  <2>2. pa' = pa /\ pftemp' = pftemp /\ fault' = fault /\ child' = child /\ step' = step /\ status' = status
    BY DEF Protect, forking, faulting
  <2>3. QED  BY <2>1, <2>2 DEF IdleInv
<1>4. ChildInv'
  BY SMT DEF TypeOK, ChildInv, IdleInv, Protect, InUser, space, forking, upcalls, Mapped
<1>5. StepInv'
  BY SMT DEF TypeOK, StepInv, IdleInv, Protect, InUser, space, forking, upcalls, Mapped
<1>6. SharedInv'
  BY SMT DEF TypeOK, SharedInv, IdleInv, Protect, InUser, space, forking, Mapped
<1>7. WriterInv'
  BY SMT DEF TypeOK, WriterInv, IdleInv, Protect, InUser, space, forking, Mapped
<1>8. EmbryoInv'
  BY SMT DEF TypeOK, EmbryoInv, IdleInv, Protect, InUser, space, upcalls, Mapped
<1>9. TempInv'
  BY SMT DEF TypeOK, TempInv, IdleInv, Protect, InUser, space, faulting, upcalls, Mapped
<1>10. FaultInv'
  BY SMT DEF TypeOK, FaultInv, IdleInv, Protect, InUser, space, faulting, Mapped
<1>11. UpcallInv'
  BY SMT DEF TypeOK, UpcallInv, IdleInv, Protect, InUser, forking, upcalls, Mapped
<1>12. LeftInv'
  BY SMT DEF TypeOK, LeftInv, ChildInv, IdleInv, Protect, InUser, space, forking, Mapped
<1>q. QED  BY <1>1, <1>2, <1>3, <1>4, <1>5, <1>6, <1>7, <1>8, <1>9, <1>10, <1>11, <1>12

LEMMA SysPageUnmapStep ==
  ASSUME IInv, NEW e \in Env, NEW p \in Page, SysPageUnmap(e, p)
  PROVE  IInv'
<1> USE DEF IInv
<1>1. TypeOK'
  <2>1. pa' \in [Env -> [Page -> Frame \cup {NoFrame}]]
    BY DEF TypeOK, SysPageUnmap, InUser, Perms, NoPage
  <2>2. perm' \in [Env -> [Page -> Perms]]
    BY DEF TypeOK, SysPageUnmap, InUser, Perms, NoPage
  <2>3. tlb' \in [Env -> SUBSET (Page \X Frame \X BOOLEAN)]
    BY <2>1, EnvRunType DEF SysPageUnmap, InUser
  <2>4. QED  BY <2>1, <2>2, <2>3 DEF TypeOK, SysPageUnmap, forking, faulting, upcalls
<1>2. TlbInv'
  <2>1. \A x \in Env \ {e} : status'[x] = "live" => tlb[x] \subseteq Table(x)'
    BY SpaceSame DEF TlbInv, TypeOK, IdleInv, ChildInv, SysPageUnmap, InUser, Mapped
  <2>2. QED  BY <2>1, EnvRunTlb DEF SysPageUnmap, InUser
<1>3. IdleInv'
  BY SMT DEF TypeOK, IdleInv, SysPageUnmap, InUser, space, forking, faulting, Mapped
<1>4. ChildInv'
  BY SMT DEF TypeOK, ChildInv, IdleInv, SysPageUnmap, InUser, space, forking, Mapped
<1>5. StepInv'
  BY SMT DEF TypeOK, StepInv, IdleInv, SysPageUnmap, InUser, space, forking, Mapped
<1>6. SharedInv'
  BY SMT DEF TypeOK, SharedInv, IdleInv, SysPageUnmap, InUser, space, forking, Mapped
<1>7. WriterInv'
  BY SMT DEF TypeOK, WriterInv, IdleInv, SysPageUnmap, InUser, space, forking, Mapped
<1>8. EmbryoInv'
  BY SMT DEF TypeOK, EmbryoInv, IdleInv, SysPageUnmap, InUser, space, upcalls, Mapped
<1>9. TempInv'
  BY SMT DEF TypeOK, TempInv, IdleInv, SysPageUnmap, InUser, faulting, upcalls, Mapped
<1>10. FaultInv'
  BY SMT DEF TypeOK, FaultInv, IdleInv, SysPageUnmap, InUser, space, faulting, Mapped
<1>11. UpcallInv'
  BY SMT DEF TypeOK, UpcallInv, IdleInv, SysPageUnmap, InUser, forking, upcalls, Mapped
<1>12. LeftInv'
  BY SMT DEF TypeOK, LeftInv, ChildInv, IdleInv, SysPageUnmap, InUser, forking, Mapped
<1>q. QED  BY <1>1, <1>2, <1>3, <1>4, <1>5, <1>6, <1>7, <1>8, <1>9, <1>10, <1>11, <1>12

LEMMA FaultStep ==
  ASSUME IInv, NEW e \in Env, NEW p \in Page, Fault(e, p)
  PROVE  IInv'
<1> USE DEF IInv
<1>1. TypeOK'
  <2>1. fault' \in [Env -> {"none", "alloc", "copy", "map", "unmap"}]
    BY DEF TypeOK, Fault, MayTouch, InUser, Perms, NoPage
  <2>2. fva' \in [Env -> Page \cup {NoPage}]
    BY DEF TypeOK, Fault, MayTouch, InUser, Perms, NoPage
  <2>3. tlb' \in [Env -> SUBSET (Page \X Frame \X BOOLEAN)]
    BY EnvRunType DEF TypeOK, Fault, MayTouch, InUser, space
  <2>4. QED  BY <2>1, <2>2, <2>3 DEF TypeOK, Fault, MayTouch, space, forking, upcalls
<1>2. TlbInv'
  <2>1. \A x \in Env \ {e} : status'[x] = "live" => tlb[x] \subseteq Table(x)'
    BY SpaceSame DEF TlbInv, TypeOK, IdleInv, ChildInv, Fault, MayTouch, InUser, space
  <2>2. QED  BY <2>1, EnvRunTlb DEF Fault, MayTouch, InUser
<1>3. IdleInv'
  BY SMT DEF TypeOK, IdleInv, Fault, MayTouch, InUser, space, forking, upcalls, Mapped
<1>4. ChildInv'
  BY SMT DEF TypeOK, ChildInv, IdleInv, Fault, MayTouch, InUser, space, forking, Mapped
<1>5. StepInv'
  BY SMT DEF TypeOK, StepInv, IdleInv, Fault, MayTouch, InUser, space, forking, Mapped
<1>6. SharedInv'
  BY SMT DEF TypeOK, SharedInv, IdleInv, Fault, MayTouch, InUser, space, forking, Mapped
<1>7. WriterInv'
  BY SMT DEF TypeOK, WriterInv, IdleInv, Fault, MayTouch, InUser, space, forking, Mapped
<1>8. EmbryoInv'
  BY SMT DEF TypeOK, EmbryoInv, IdleInv, Fault, MayTouch, InUser, space, upcalls, Mapped
<1>9. TempInv'
  BY SMT DEF TypeOK, TempInv, IdleInv, Fault, MayTouch, InUser, space, upcalls, Mapped
<1>10. FaultInv'
  <2> SUFFICES ASSUME NEW x \in Env
               PROVE  /\ fault'[x] # "none" => fva'[x] \in Page
                      /\ fault'[x] \in {"alloc", "copy", "map"}
                           => pa'[x][fva'[x]] # NoFrame /\ perm'[x][fva'[x]] = "COW"
                      /\ fault'[x] = "map" => mem'[pftemp'[x]] = mem'[pa'[x][fva'[x]]]
    BY DEF FaultInv, Mapped
  <2>1. Mapped(e, p)
    BY InTlb DEF Fault
  <2>2. QED  BY <2>1 DEF FaultInv, TypeOK, Fault, MayTouch, InUser, space, Mapped
<1>11. UpcallInv'
  BY SMT DEF TypeOK, UpcallInv, Fault, MayTouch, InUser, space, forking, upcalls
<1>12. LeftInv'
  BY SMT DEF TypeOK, LeftInv, ChildInv, IdleInv, Fault, MayTouch, InUser, space, forking
<1>q. QED  BY <1>1, <1>2, <1>3, <1>4, <1>5, <1>6, <1>7, <1>8, <1>9, <1>10, <1>11, <1>12

LEMMA PgfaultAllocStep ==
  ASSUME IInv, NEW e \in Env, PgfaultAlloc(e)
  PROVE  IInv'
<1> USE DEF IInv
<1>f. ~NoMemory  BY DEF PgfaultAlloc
<1>1. TypeOK'
  <2>1. pftemp' \in [Env -> Frame \cup {NoFrame}]
    BY <1>f, PageAllocFresh DEF TypeOK, PgfaultAlloc, Perms, NoPage
  <2>2. mem' \in [Frame -> Value]
    BY ValueAssumption, <1>f, PageAllocFresh DEF TypeOK, PgfaultAlloc, Perms, NoPage
  <2>3. fault' \in [Env -> {"none", "alloc", "copy", "map", "unmap"}]
    BY <1>f, PageAllocFresh DEF TypeOK, PgfaultAlloc, Perms, NoPage
  <2>4. tlb' \in [Env -> SUBSET (Page \X Frame \X BOOLEAN)]
    BY EnvRunType DEF TypeOK, PgfaultAlloc, space
  <2>5. QED  BY <2>1, <2>2, <2>3, <2>4 DEF TypeOK, PgfaultAlloc, space, forking, upcalls
<1>2. TlbInv'
  <2>1. \A x \in Env \ {e} : status'[x] = "live" => tlb[x] \subseteq Table(x)'
    BY SpaceSame DEF TlbInv, TypeOK, IdleInv, ChildInv, PgfaultAlloc, space, Mapped
  <2>2. QED  BY <2>1, EnvRunTlb DEF PgfaultAlloc
<1>3. IdleInv'
  BY <1>f, PageAllocFresh, SMT DEF TypeOK, IdleInv, PgfaultAlloc, space, forking, Mapped
<1>4. ChildInv'
  BY <1>f, PageAllocFresh, SMT DEF TypeOK, ChildInv, IdleInv, PgfaultAlloc, forking
<1>5. StepInv'
  BY <1>f, PageAllocFresh, SMT DEF TypeOK, StepInv, PgfaultAlloc, forking, Mapped
<1>6. SharedInv'
  BY <1>f, PageAllocFresh, SMT DEF TypeOK, SharedInv, PgfaultAlloc, forking, Mapped
<1>7. WriterInv'
  BY <1>f, PageAllocFresh, SMT DEF TypeOK, WriterInv, PgfaultAlloc, forking, Mapped
<1>8. EmbryoInv'
  BY <1>f, PageAllocFresh, SMT DEF TypeOK, EmbryoInv, IdleInv, PgfaultAlloc, Mapped
<1>9. TempInv'
  BY <1>f, PageAllocFresh, SMT DEF TypeOK, TempInv, IdleInv, PgfaultAlloc, space, Mapped
<1>10. FaultInv'
  <2> SUFFICES ASSUME NEW x \in Env
               PROVE  /\ fault'[x] # "none" => fva'[x] \in Page
                      /\ fault'[x] \in {"alloc", "copy", "map"}
                           => pa'[x][fva'[x]] # NoFrame /\ perm'[x][fva'[x]] = "COW"
                      /\ fault'[x] = "map" => mem'[pftemp'[x]] = mem'[pa'[x][fva'[x]]]
    BY DEF FaultInv, Mapped
  <2>1. ASSUME fault[x] = "map"
        PROVE  pftemp[x] \in Frame /\ pa[x][fva[x]] \in Frame /\ fva[x] \in Page
    <3>1. fva[x] \in Page /\ pa[x][fva[x]] # NoFrame /\ pftemp[x] # NoFrame
      BY <2>1 DEF FaultInv, TempInv, Mapped
    <3>2. QED  BY <3>1, FrameType
  <2>2. fault[x] = "map" => pftemp[x] # page_alloc /\ pa[x][fva[x]] # page_alloc
    BY <1>f, <2>1, PageAllocFresh
  <2>3. fault[x] = "map" => mem'[pftemp[x]] = mem[pftemp[x]] /\ mem'[pa[x][fva[x]]] = mem[pa[x][fva[x]]]
    BY <1>f, <2>1, <2>2, PageAllocFresh DEF PgfaultAlloc, TypeOK
  <2>4. pa' = pa /\ perm' = perm /\ fva' = fva /\ (x # e => pftemp'[x] = pftemp[x] /\ fault'[x] = fault[x])
    BY DEF PgfaultAlloc, TypeOK
  <2>5. fault[e] = "alloc" /\ fault'[e] = "copy"
    BY DEF PgfaultAlloc, TypeOK
  <2>6. QED  BY <2>3, <2>4, <2>5 DEF FaultInv, Mapped
<1>11. UpcallInv'
  BY <1>f, PageAllocFresh, SMT DEF TypeOK, UpcallInv, PgfaultAlloc, forking, upcalls
<1>12. LeftInv'
  BY <1>f, PageAllocFresh, SMT DEF TypeOK, LeftInv, ChildInv, PgfaultAlloc, forking
<1>q. QED  BY <1>1, <1>2, <1>3, <1>4, <1>5, <1>6, <1>7, <1>8, <1>9, <1>10, <1>11, <1>12

LEMMA PgfaultCopyStep ==
  ASSUME IInv, NEW e \in Env, PgfaultCopy(e)
  PROVE  IInv'
<1> USE DEF IInv
<1>1. TypeOK'
  <2>1. mem' \in [Frame -> Value]
    BY DEF TypeOK, TempInv, TlbInv, Table, FaultInv, PgfaultCopy, Perms, NoPage
  <2>2. fault' \in [Env -> {"none", "alloc", "copy", "map", "unmap"}]
    BY DEF TypeOK, TempInv, TlbInv, Table, FaultInv, PgfaultCopy, Perms, NoPage
  <2>3. QED  BY <2>1, <2>2 DEF TypeOK, PgfaultCopy, space, forking, faulting, upcalls
<1>2. TlbInv'
  BY DEF TypeOK, TlbInv, Table, Writable, PgfaultCopy, space, faulting, upcalls, Mapped
<1>3. IdleInv'
  BY SMT DEF TypeOK, IdleInv, PgfaultCopy, space, forking, faulting, upcalls, Mapped
<1>4. ChildInv'
  BY SMT DEF TypeOK, ChildInv, IdleInv, PgfaultCopy, space, forking, upcalls, Mapped
<1>5. StepInv'
  BY SMT DEF TypeOK, StepInv, IdleInv, PgfaultCopy, space, forking, upcalls, Mapped
<1>6. SharedInv'
  BY SMT DEF TypeOK, SharedInv, IdleInv, PgfaultCopy, space, faulting, upcalls, Mapped
<1>7. WriterInv'
  BY SMT DEF TypeOK, WriterInv, IdleInv, PgfaultCopy, space, forking, upcalls, Mapped
<1>8. EmbryoInv'
  BY SMT DEF TypeOK, EmbryoInv, IdleInv, PgfaultCopy, space, faulting, upcalls, Mapped
<1>9. TempInv'
  BY SMT DEF TypeOK, TempInv, IdleInv, PgfaultCopy, space, faulting, upcalls, Mapped
<1>10. FaultInv'
  <2> SUFFICES ASSUME NEW x \in Env
               PROVE  /\ fault'[x] # "none" => fva'[x] \in Page
                      /\ fault'[x] \in {"alloc", "copy", "map"}
                           => pa'[x][fva'[x]] # NoFrame /\ perm'[x][fva'[x]] = "COW"
                      /\ fault'[x] = "map" => mem'[pftemp'[x]] = mem'[pa'[x][fva'[x]]]
    BY DEF FaultInv, Mapped
  <2>1. PICK t \in tlb[e] : t[1] = fva[e] /\ mem' = [mem EXCEPT ![pftemp[e]] = mem[t[2]]]
    BY DEF PgfaultCopy
  <2>2. t[2] = pa[e][fva[e]]
    BY <2>1, InTlb
  <2>3. pftemp[e] \in Frame
    BY DEF PgfaultCopy, TempInv, TypeOK
  <2>4. \A q \in Page : pa[x][q] = pftemp[e] => fault[e] = "unmap"
    BY <2>3, FrameAssumption DEF TempInv
  <2>5. CASE x = e
    BY <2>1, <2>2, <2>3, <2>4, <2>5 DEF FaultInv, TypeOK, PgfaultCopy, space, Mapped
  <2>6. CASE x # e
    <3>1. fault[x] = "map" => pftemp[x] # pftemp[e]
      BY <2>3, <2>6, FrameAssumption DEF TempInv
    <3>2. fault[x] = "map" => pa[x][fva[x]] # pftemp[e]
      BY <2>4 DEF PgfaultCopy, FaultInv
    <3>3. fault'[x] = fault[x] /\ fva' = fva /\ pa' = pa /\ perm' = perm /\ pftemp' = pftemp
      BY <2>6 DEF PgfaultCopy, TypeOK, space
    <3>4. fault[x] = "map" => pftemp[x] \in Frame /\ pa[x][fva[x]] \in Frame
      <4>1. fault[x] = "map" => fva[x] \in Page /\ pa[x][fva[x]] # NoFrame /\ pftemp[x] # NoFrame
        BY DEF FaultInv, TempInv, Mapped
      <4>2. QED  BY <4>1, FrameType
    <3>5. fault[x] = "map" => mem'[pftemp[x]] = mem[pftemp[x]] /\ mem'[pa[x][fva[x]]] = mem[pa[x][fva[x]]]
      BY <2>1, <3>1, <3>2, <3>4 DEF TypeOK
    <3>6. QED  BY <3>3, <3>5 DEF FaultInv, Mapped
  <2>7. QED  BY <2>5, <2>6
<1>11. UpcallInv'
  BY SMT DEF TypeOK, UpcallInv, IdleInv, PgfaultCopy, space, forking, upcalls, Mapped
<1>12. LeftInv'
  BY SMT DEF TypeOK, LeftInv, ChildInv, IdleInv, PgfaultCopy, space, forking, Mapped
<1>q. QED  BY <1>1, <1>2, <1>3, <1>4, <1>5, <1>6, <1>7, <1>8, <1>9, <1>10, <1>11, <1>12

LEMMA PgfaultMapStep ==
  ASSUME IInv, NEW e \in Env, PgfaultMap(e)
  PROVE  IInv'
<1> USE DEF IInv
<1>1. TypeOK'
  <2>1. pa' \in [Env -> [Page -> Frame \cup {NoFrame}]]
    BY ZenonT(30) DEF TypeOK, TempInv, PgfaultMap, Perms, NoPage
  <2>2. perm' \in [Env -> [Page -> Perms]]
    BY DEF TypeOK, TempInv, PgfaultMap, Perms, NoPage
  <2>3. fault' \in [Env -> {"none", "alloc", "copy", "map", "unmap"}]
    BY DEF TypeOK, TempInv, PgfaultMap, Perms, NoPage
  <2>4. tlb' \in [Env -> SUBSET (Page \X Frame \X BOOLEAN)]
    BY <2>1, EnvRunType DEF PgfaultMap
  <2>5. QED  BY <2>1, <2>2, <2>3, <2>4 DEF TypeOK, PgfaultMap, space, forking, upcalls
<1>2. TlbInv'
  <2>1. \A x \in Env \ {e} : status'[x] = "live" => tlb[x] \subseteq Table(x)'
    BY SpaceSame DEF TlbInv, TypeOK, IdleInv, ChildInv, PgfaultMap, space, Mapped
  <2>2. QED  BY <2>1, EnvRunTlb DEF PgfaultMap
<1>3. IdleInv'
  BY SMT DEF TypeOK, IdleInv, PgfaultMap, space, forking, faulting, upcalls, Mapped
<1>4. ChildInv'
  BY SMT DEF TypeOK, ChildInv, IdleInv, PgfaultMap, space, forking, upcalls, Mapped
<1>5. StepInv'
  <2>1. fva[e] \in Page /\ Mapped(e, fva[e]) /\ perm[e][fva[e]] = "COW" /\ pftemp[e] # NoFrame
    BY DEF PgfaultMap, FaultInv, TempInv
  <2>2. \A x \in Env : \A q \in Page :
          /\ Mapped(x, q) => Mapped(x, q)'
          /\ perm[x][q] \in {"W", "COW"} <=> perm'[x][q] \in {"W", "COW"}
          /\ perm[x][q] = "SHARE" <=> perm'[x][q] = "SHARE"
    BY <2>1 DEF PgfaultMap, TypeOK, Mapped
  <2>3. step' = step /\ cur' = cur /\ left' = left
    BY DEF PgfaultMap, forking
  <2>4. \A x \in Env : step[x] \in Perms => cur[x] \in Page
    BY DEF StepInv, TypeOK
  <2>5. QED  BY <2>2, <2>3, <2>4 DEF StepInv
<1>6. SharedInv'
  BY SMT DEF TypeOK, FaultInv, TempInv, SharedInv, IdleInv, PgfaultMap, space, Mapped
<1>7. WriterInv'
  BY SMT DEF TypeOK, FaultInv, TempInv, WriterInv, PgfaultMap, forking, upcalls, Mapped
<1>8. EmbryoInv'
  BY SMT DEF TypeOK, EmbryoInv, IdleInv, PgfaultMap, space, faulting, upcalls, Mapped
<1>9. TempInv'
  BY SMT DEF TypeOK, TempInv, IdleInv, PgfaultMap, space, faulting, upcalls, Mapped
<1>10. FaultInv'
  BY SMT DEF TypeOK, FaultInv, IdleInv, PgfaultMap, space, faulting, upcalls, Mapped
<1>11. UpcallInv'
  BY SMT DEF TypeOK, UpcallInv, IdleInv, PgfaultMap, space, forking, upcalls, Mapped
<1>12. LeftInv'
  BY SMT DEF TypeOK, LeftInv, ChildInv, IdleInv, PgfaultMap, space, forking, Mapped
<1>q. QED  BY <1>1, <1>2, <1>3, <1>4, <1>5, <1>6, <1>7, <1>8, <1>9, <1>10, <1>11, <1>12

LEMMA PgfaultUnmapStep ==
  ASSUME IInv, NEW e \in Env, PgfaultUnmap(e)
  PROVE  IInv'
<1> USE DEF IInv
<1>1. TypeOK'
  <2>1. pftemp' \in [Env -> Frame \cup {NoFrame}]
    BY DEF TypeOK, PgfaultUnmap, Perms, NoPage
  <2>2. fault' \in [Env -> {"none", "alloc", "copy", "map", "unmap"}]
    BY DEF TypeOK, PgfaultUnmap, Perms, NoPage
  <2>3. fva' \in [Env -> Page \cup {NoPage}]
    BY DEF TypeOK, PgfaultUnmap, Perms, NoPage
  <2>4. tlb' \in [Env -> SUBSET (Page \X Frame \X BOOLEAN)]
    BY EnvRunType DEF TypeOK, PgfaultUnmap, space
  <2>5. QED  BY <2>1, <2>2, <2>3, <2>4 DEF TypeOK, PgfaultUnmap, space, forking, upcalls
<1>2. TlbInv'
  <2>1. \A x \in Env \ {e} : status'[x] = "live" => tlb[x] \subseteq Table(x)'
    BY SpaceSame DEF TlbInv, TypeOK, IdleInv, ChildInv, PgfaultUnmap, space, Mapped
  <2>2. QED  BY <2>1, EnvRunTlb DEF PgfaultUnmap
<1>3. IdleInv'
  BY SMT DEF TypeOK, IdleInv, PgfaultUnmap, space, forking, Mapped, Perms, NoPage
<1>4. ChildInv'
  BY SMT DEF TypeOK, ChildInv, IdleInv, PgfaultUnmap, space, forking, upcalls, Mapped
<1>5. StepInv'
  BY SMT DEF TypeOK, StepInv, IdleInv, PgfaultUnmap, space, forking, upcalls, Mapped
<1>6. SharedInv'
  BY SMT DEF TypeOK, SharedInv, IdleInv, PgfaultUnmap, space, forking, upcalls, Mapped
<1>7. WriterInv'
  BY SMT DEF TypeOK, WriterInv, IdleInv, PgfaultUnmap, space, forking, upcalls, Mapped
<1>8. EmbryoInv'
  BY SMT DEF TypeOK, EmbryoInv, IdleInv, PgfaultUnmap, space, faulting, upcalls, Mapped
<1>9. TempInv'
  BY SMT DEF TypeOK, TempInv, IdleInv, PgfaultUnmap, space, faulting, upcalls, Mapped
<1>10. FaultInv'
  BY SMT DEF TypeOK, FaultInv, IdleInv, PgfaultUnmap, space, faulting, upcalls, Mapped
<1>11. UpcallInv'
  BY SMT DEF TypeOK, UpcallInv, IdleInv, PgfaultUnmap, space, forking, upcalls, Mapped
<1>12. LeftInv'
  BY SMT DEF TypeOK, LeftInv, ChildInv, IdleInv, PgfaultUnmap, space, forking, Mapped
<1>q. QED  BY <1>1, <1>2, <1>3, <1>4, <1>5, <1>6, <1>7, <1>8, <1>9, <1>10, <1>11, <1>12

LEMMA SetPgfaultHandlerStep ==
  ASSUME IInv, NEW e \in Env, SetPgfaultHandler(e)
  PROVE  IInv'
<1> USE DEF IInv
<1>1. TypeOK'
  <2>1. handler' \subseteq Env
    BY DEF TypeOK, SetPgfaultHandler, InUser, Perms, NoPage
  <2>2. xstack' \subseteq Env
    BY DEF TypeOK, SetPgfaultHandler, InUser, Perms, NoPage
  <2>3. upcall' \subseteq Env
    BY DEF TypeOK, SetPgfaultHandler, InUser, Perms, NoPage
  <2>4. tlb' \in [Env -> SUBSET (Page \X Frame \X BOOLEAN)]
    BY EnvRunType DEF TypeOK, SetPgfaultHandler, InUser, space
  <2>5. QED  BY <2>1, <2>2, <2>3, <2>4 DEF TypeOK, SetPgfaultHandler, space, forking, faulting
<1>2. TlbInv'
  <2>1. \A x \in Env \ {e} : status'[x] = "live" => tlb[x] \subseteq Table(x)'
    BY SpaceSame DEF TlbInv, TypeOK, IdleInv, ChildInv, SetPgfaultHandler, InUser, space
  <2>2. QED  BY <2>1, EnvRunTlb DEF SetPgfaultHandler, InUser
<1>3. IdleInv'
  BY SMT DEF TypeOK, IdleInv, SetPgfaultHandler, InUser, space, forking, faulting
<1>4. ChildInv'
  BY SMT DEF TypeOK, ChildInv, IdleInv, SetPgfaultHandler, InUser, forking, Mapped
<1>5. StepInv'
  BY SMT DEF TypeOK, StepInv, IdleInv, SetPgfaultHandler, InUser, space, forking, Mapped
<1>6. SharedInv'
  BY SMT DEF TypeOK, SharedInv, SetPgfaultHandler, InUser, space, forking, Mapped
<1>7. WriterInv'
  BY SMT DEF TypeOK, WriterInv, SetPgfaultHandler, InUser, space, forking, Mapped
<1>8. EmbryoInv'
  BY SMT DEF TypeOK, EmbryoInv, IdleInv, SetPgfaultHandler, InUser, space, Mapped
<1>9. TempInv'
  BY SMT DEF TypeOK, TempInv, IdleInv, SetPgfaultHandler, InUser, space, faulting
<1>10. FaultInv'
  BY SMT DEF TypeOK, FaultInv, SetPgfaultHandler, InUser, space, faulting, Mapped
<1>11. UpcallInv'
  BY SMT DEF TypeOK, UpcallInv, IdleInv, SetPgfaultHandler, InUser, space, forking
<1>12. LeftInv'
  BY SMT DEF TypeOK, LeftInv, ChildInv, SetPgfaultHandler, InUser, space, forking
<1>q. QED  BY <1>1, <1>2, <1>3, <1>4, <1>5, <1>6, <1>7, <1>8, <1>9, <1>10, <1>11, <1>12

LEMMA SysExoforkStep ==
  ASSUME IInv, NEW e \in Env, NEW c \in Env, SysExofork(e, c)
  PROVE  IInv'
<1> USE DEF IInv
<1>1. TypeOK'
  <2>1. status' \in [Env -> {"free", "embryo", "live"}]
    BY DEF TypeOK, SysExofork, InUser, Perms, NoPage
  <2>2. handler' \subseteq Env
    BY DEF TypeOK, SysExofork, InUser, Perms, NoPage
  <2>3. parent' \in [Env -> Env \cup {NoEnv}]
    BY DEF TypeOK, SysExofork, InUser, Perms, NoPage
  <2>4. child' \in [Env -> Env \cup {NoEnv}]
    BY DEF TypeOK, SysExofork, InUser, Perms, NoPage
  <2>5. left' \in [Env -> SUBSET Page]
    BY DEF TypeOK, SysExofork, InUser, Perms, NoPage
  <2>6. step' \in [Env -> Perms \cup {"run", "walk", "own", "upcall", "start"}]
    BY DEF TypeOK, SysExofork, InUser, Perms, NoPage
  <2>7. tlb' \in [Env -> SUBSET (Page \X Frame \X BOOLEAN)]
    BY EnvRunType DEF TypeOK, SysExofork, InUser, space
  <2>8. QED  BY <2>1, <2>2, <2>3, <2>4, <2>5, <2>6, <2>7 DEF TypeOK, SysExofork, space, faulting
<1>2. TlbInv'
  <2>1. \A x \in Env \ {e} : status'[x] = "live" => tlb[x] \subseteq Table(x)'
    BY SpaceSame DEF TlbInv, TypeOK, IdleInv, ChildInv, SysExofork, InUser, space
  <2>2. QED  BY <2>1, EnvRunTlb DEF SysExofork, InUser
<1>3. IdleInv'
  BY SMT DEF TypeOK, IdleInv, SysExofork, InUser, space, faulting, upcalls, Mapped
<1>4. ChildInv'
  BY EnvAssumption, SMT DEF TypeOK, ChildInv, IdleInv, SysExofork, InUser, space, upcalls, Mapped
<1>5. StepInv'
  BY SMT DEF TypeOK, StepInv, IdleInv, SysExofork, InUser, space, upcalls, Mapped, Perms
<1>6. SharedInv'
  BY SMT DEF TypeOK, SharedInv, IdleInv, SysExofork, InUser, space, faulting, Mapped
<1>7. WriterInv'
  BY SMT DEF TypeOK, WriterInv, IdleInv, SysExofork, InUser, space, upcalls, Mapped
<1>8. EmbryoInv'
  <2>1. \A q \in Page : perm[c][q] # "W"
    BY DEF IdleInv, SysExofork
  <2>2. QED  BY <2>1 DEF EmbryoInv, TypeOK, SysExofork, space
<1>9. TempInv'
  BY SMT DEF TypeOK, TempInv, IdleInv, SysExofork, InUser, space, faulting, Mapped
<1>10. FaultInv'
  BY SMT DEF TypeOK, FaultInv, IdleInv, SysExofork, InUser, space, faulting, Mapped
<1>11. UpcallInv'
  BY SMT DEF TypeOK, UpcallInv, IdleInv, SysExofork, InUser, space, upcalls, Mapped
<1>12. LeftInv'
  BY SMT DEF TypeOK, LeftInv, ChildInv, IdleInv, SysExofork, InUser, space, Mapped
<1>q. QED  BY <1>1, <1>2, <1>3, <1>4, <1>5, <1>6, <1>7, <1>8, <1>9, <1>10, <1>11, <1>12

LEMMA WalkPastStep ==
  ASSUME IInv, NEW e \in Env, NEW p \in Page, WalkPast(e, p)
  PROVE  IInv'
<1> USE DEF IInv
<1>1. TypeOK'
  <2>1. left' \in [Env -> SUBSET Page]
    BY DEF TypeOK, WalkPast, Perms, NoPage
  <2>2. QED  BY <2>1 DEF TypeOK, WalkPast, space, faulting, upcalls
<1>2. TlbInv'
  <2>1. \A x \in Env : Table(x)' = Table(x)
    BY SpaceSame DEF WalkPast, space
  <2>2. QED  BY <2>1 DEF TlbInv, WalkPast
<1>3. IdleInv'
  BY SMT DEF TypeOK, IdleInv, WalkPast, InUser, space, faulting, upcalls, Mapped
<1>4. ChildInv'
  BY SMT DEF TypeOK, ChildInv, IdleInv, WalkPast, InUser, space, upcalls, Mapped
<1>5. StepInv'
  BY SMT DEF TypeOK, StepInv, IdleInv, WalkPast, InUser, space, upcalls, Mapped
<1>6. SharedInv'
  BY SMT DEF TypeOK, SharedInv, IdleInv, WalkPast, InUser, space, upcalls, Mapped
<1>7. WriterInv'
  BY SMT DEF TypeOK, WriterInv, IdleInv, WalkPast, InUser, space, upcalls, Mapped
<1>8. EmbryoInv'
  BY SMT DEF TypeOK, EmbryoInv, IdleInv, WalkPast, InUser, space, upcalls, Mapped
<1>9. TempInv'
  BY SMT DEF TypeOK, TempInv, IdleInv, WalkPast, InUser, space, faulting, Mapped
<1>10. FaultInv'
  BY SMT DEF TypeOK, FaultInv, IdleInv, WalkPast, InUser, space, faulting, Mapped
<1>11. UpcallInv'
  BY SMT DEF TypeOK, UpcallInv, IdleInv, WalkPast, InUser, space, upcalls, Mapped
<1>12. LeftInv'
  BY SMT DEF TypeOK, LeftInv, ChildInv, IdleInv, WalkPast, InUser, space, Mapped
<1>q. QED  BY <1>1, <1>2, <1>3, <1>4, <1>5, <1>6, <1>7, <1>8, <1>9, <1>10, <1>11, <1>12

LEMMA WalkStep ==
  ASSUME IInv, NEW e \in Env, NEW p \in Page, Walk(e, p)
  PROVE  IInv'
<1> USE DEF IInv
<1>c. perm[e][p] \in Perms
  BY DEF TypeOK
<1>1. TypeOK'
  <2>1. step' \in [Env -> Perms \cup {"run", "walk", "own", "upcall", "start"}]
    BY DEF TypeOK, Walk, Perms, NoPage
  <2>2. cur' \in [Env -> Page \cup {NoPage}]
    BY DEF TypeOK, Walk, Perms, NoPage
  <2>3. QED  BY <2>1, <2>2 DEF TypeOK, Walk, space, faulting, upcalls
<1>2. TlbInv'
  <2>1. \A x \in Env : Table(x)' = Table(x)
    BY SpaceSame DEF Walk, space
  <2>2. QED  BY <2>1 DEF TlbInv, Walk
<1>3. IdleInv'
  BY SMT DEF TypeOK, IdleInv, Walk, NextPage, InUser, space, faulting, upcalls, Mapped
<1>4. ChildInv'
  BY <1>c, SMT DEF TypeOK, ChildInv, IdleInv, Walk, NextPage, InUser, Mapped, Perms
<1>5. StepInv'
  BY <1>c, SMT DEF TypeOK, StepInv, Walk, NextPage, InUser, space, Mapped, Perms
<1>6. SharedInv'
  BY SMT DEF TypeOK, SharedInv, IdleInv, Walk, NextPage, InUser, space, upcalls, Mapped
<1>7. WriterInv'
  BY SMT DEF TypeOK, WriterInv, IdleInv, Walk, NextPage, InUser, space, upcalls, Mapped
<1>8. EmbryoInv'
  BY SMT DEF TypeOK, EmbryoInv, IdleInv, Walk, NextPage, InUser, space, upcalls, Mapped
<1>9. TempInv'
  BY SMT DEF TypeOK, TempInv, IdleInv, Walk, NextPage, InUser, space, faulting, Mapped
<1>10. FaultInv'
  BY SMT DEF TypeOK, FaultInv, IdleInv, Walk, NextPage, InUser, space, faulting, Mapped
<1>11. UpcallInv'
  BY <1>c, SMT DEF TypeOK, UpcallInv, Walk, NextPage, InUser, space, upcalls, Perms
<1>12. LeftInv'
  BY <1>c, SMT DEF TypeOK, LeftInv, ChildInv, IdleInv, Walk, NextPage, InUser, space
<1>q. QED  BY <1>1, <1>2, <1>3, <1>4, <1>5, <1>6, <1>7, <1>8, <1>9, <1>10, <1>11, <1>12

LEMMA DupAsIsStep ==
  ASSUME IInv, NEW e \in Env, DupAsIs(e)
  PROVE  IInv'
<1> USE DEF IInv
<1>c. /\ child[e] \in Env /\ child[e] # e /\ status[child[e]] = "embryo"
      /\ cur[e] \in Page /\ Mapped(e, cur[e]) /\ cur[e] \in left[e]
      /\ pa[e][cur[e]] \in Frame
  <2>1. /\ child[e] \in Env /\ child[e] # e /\ status[child[e]] = "embryo"
        /\ cur[e] \in Page /\ Mapped(e, cur[e]) /\ cur[e] \in left[e]
    BY DEF DupAsIs, ChildInv, StepInv, TypeOK, Perms, InUser
  <2>2. QED  BY <2>1, FrameType DEF Mapped
<1>1. TypeOK'
  <2>1. pa' \in [Env -> [Page -> Frame \cup {NoFrame}]]
    BY <1>c DEF TypeOK, DupAsIs, MapInChild, Perms, NoPage
  <2>2. perm' \in [Env -> [Page -> Perms]]
    BY <1>c DEF TypeOK, DupAsIs, MapInChild, Perms, NoPage
  <2>3. left' \in [Env -> SUBSET Page]
    BY <1>c DEF TypeOK, DupAsIs, MapInChild, Perms, NoPage
  <2>4. step' \in [Env -> Perms \cup {"run", "walk", "own", "upcall", "start"}]
    BY <1>c DEF TypeOK, DupAsIs, MapInChild, Perms, NoPage
  <2>5. cur' \in [Env -> Page \cup {NoPage}]
    BY <1>c DEF TypeOK, DupAsIs, MapInChild, Perms, NoPage
  <2>6. tlb' \in [Env -> SUBSET (Page \X Frame \X BOOLEAN)]
    BY <2>1, EnvRunType DEF DupAsIs, MapInChild
  <2>7. QED  BY <2>1, <2>2, <2>3, <2>4, <2>5, <2>6 DEF TypeOK, DupAsIs, MapInChild, faulting, upcalls
<1>2. TlbInv'
  <2>1. \A x \in Env \ {e} : status'[x] = "live" => tlb[x] \subseteq Table(x)'
    <3> SUFFICES ASSUME NEW x \in Env \ {e}, status'[x] = "live"  PROVE tlb[x] \subseteq Table(x)'
      OBVIOUS
    <3>1. x # child[e] /\ status[x] = "live"
      BY <1>c DEF DupAsIs, MapInChild
    <3>2. \A p \in Page : pa'[x][p] = pa[x][p] /\ perm'[x][p] = perm[x][p]
      BY <1>c, <3>1 DEF DupAsIs, MapInChild, TypeOK
    <3>3. QED  BY <3>1, <3>2, SpaceSame DEF TlbInv
  <2>2. QED  BY <2>1, EnvRunTlb DEF DupAsIs
<1>3. IdleInv'
  BY <1>c, SMT DEF TypeOK, IdleInv, DupAsIs, MapInChild, InUser, faulting, upcalls
<1>4. ChildInv'
  BY <1>c, SMT DEF TypeOK, ChildInv, IdleInv, DupAsIs, MapInChild, InUser, space, Mapped
<1>5. StepInv'
  BY <1>c, SMT DEF TypeOK, StepInv, IdleInv, DupAsIs, MapInChild, InUser, Mapped, Perms
<1>6. SharedInv'
  BY <1>c, SMT DEF TypeOK, StepInv, SharedInv, DupAsIs, MapInChild, Mapped, Perms
<1>7. WriterInv'
  <2>1. perm[e][cur[e]] \notin {"W", "COW"} /\ step[e] \in {"SHARE", "RO"}
    BY DEF DupAsIs, StepInv, Perms
  <2>2. \A x \in Env : \A q \in Page : perm'[x][q] = "W" => perm[x][q] = "W" /\ pa'[x][q] = pa[x][q]
    BY <1>c, <2>1 DEF DupAsIs, MapInChild, TypeOK
  <2>3. \A x \in Env : Mapped(x, cur[e]) /\ perm[x][cur[e]] = "W" => pa[x][cur[e]] # pa[e][cur[e]]
    <3> SUFFICES ASSUME NEW x \in Env, Mapped(x, cur[e]), perm[x][cur[e]] = "W",
                        pa[x][cur[e]] = pa[e][cur[e]]
                 PROVE  FALSE
      OBVIOUS
    <3>1. child[x] = e
      <4>1. x # e
        BY <2>1
      <4>2. cur[e] \in Page /\ WriterInv
        BY <1>c
      <4>3. QED  BY <4>1, <4>2, WriterIs, Zenon
    <3>2. QED  BY EnvAssumption, <3>1 DEF ChildInv, DupAsIs, InUser
  <2>4. \A x \in Env : \A q \in Page : pa'[x][q] # pa[x][q] => x = child[e] /\ q = cur[e] /\ pa'[x][q] = pa[e][q]
    BY <1>c DEF DupAsIs, MapInChild, TypeOK
  <2>5. \A x \in Env : step[x] = "own" => step'[x] = "own" /\ child'[x] = child[x] /\ cur'[x] = cur[x]
    BY <2>1 DEF DupAsIs, MapInChild, TypeOK
  <2>6. \A x, y \in Env : \A q \in Page :
          pa'[x][q] # NoFrame /\ perm'[x][q] = "W" /\ pa'[y][q] = pa'[x][q] /\ y # x
            => pa[y][q] = pa[x][q]
    BY <1>c, <2>2, <2>3, <2>4 DEF Mapped
  <2>7. \A x, y \in Env : \A q \in Page :
          Mapped(x, q)' /\ perm'[x][q] = "W" /\ pa'[y][q] = pa'[x][q] /\ y # x
            => step'[x] = "own" /\ child'[x] = y /\ cur'[x] = q
    <3> SUFFICES ASSUME NEW x \in Env, NEW y \in Env, NEW q \in Page, Mapped(x, q)',
                        perm'[x][q] = "W", pa'[y][q] = pa'[x][q], y # x
                 PROVE  step'[x] = "own" /\ child'[x] = y /\ cur'[x] = q
      OBVIOUS
    <3>1. Mapped(x, q) /\ perm[x][q] = "W" /\ pa[y][q] = pa[x][q]
      BY <2>2, <2>6 DEF Mapped
    <3>2. step[x] = "own" /\ child[x] = y /\ cur[x] = q
      BY <3>1 DEF WriterInv
    <3>3. QED  BY <2>5, <3>2
  <2>8. QED  BY <2>7, WriterNext
<1>8. EmbryoInv'
  BY <1>c, SMT DEF TypeOK, EmbryoInv, IdleInv, DupAsIs, MapInChild, InUser, Mapped
<1>9. TempInv'
  BY <1>c, SMT DEF TypeOK, TempInv, IdleInv, DupAsIs, MapInChild, InUser, faulting
<1>10. FaultInv'
  BY <1>c, SMT DEF FaultInv, IdleInv, DupAsIs, MapInChild, InUser, faulting, Mapped
<1>11. UpcallInv'
  BY <1>c, SMT DEF TypeOK, UpcallInv, IdleInv, DupAsIs, MapInChild, InUser, upcalls
<1>12. LeftInv'
  BY <1>c, SMT DEF TypeOK, LeftInv, ChildInv, IdleInv, DupAsIs, MapInChild, InUser
<1>q. QED  BY <1>1, <1>2, <1>3, <1>4, <1>5, <1>6, <1>7, <1>8, <1>9, <1>10, <1>11, <1>12

LEMMA DupCowStep ==
  ASSUME IInv, NEW e \in Env, DupCow(e)
  PROVE  IInv'
<1> USE DEF IInv
<1>c. /\ child[e] \in Env /\ child[e] # e /\ status[child[e]] = "embryo"
      /\ cur[e] \in Page /\ Mapped(e, cur[e]) /\ cur[e] \in left[e]
      /\ pa[e][cur[e]] \in Frame
  <2>1. /\ child[e] \in Env /\ child[e] # e /\ status[child[e]] = "embryo"
        /\ cur[e] \in Page /\ Mapped(e, cur[e]) /\ cur[e] \in left[e]
    BY DEF DupCow, ChildInv, StepInv, TypeOK, Perms, InUser
  <2>2. QED  BY <2>1, FrameType DEF Mapped
<1>1. TypeOK'
  <2>1. pa' \in [Env -> [Page -> Frame \cup {NoFrame}]]
    BY <1>c DEF TypeOK, DupCow, MapInChild, Perms, NoPage
  <2>2. perm' \in [Env -> [Page -> Perms]]
    BY <1>c DEF TypeOK, DupCow, MapInChild, Perms, NoPage
  <2>3. left' \in [Env -> SUBSET Page]
    BY <1>c DEF TypeOK, DupCow, MapInChild, Perms, NoPage
  <2>4. step' \in [Env -> Perms \cup {"run", "walk", "own", "upcall", "start"}]
    BY <1>c DEF TypeOK, DupCow, MapInChild, Perms, NoPage
  <2>5. cur' \in [Env -> Page \cup {NoPage}]
    BY <1>c DEF TypeOK, DupCow, MapInChild, Perms, NoPage
  <2>6. tlb' \in [Env -> SUBSET (Page \X Frame \X BOOLEAN)]
    BY <2>1, EnvRunType DEF DupCow, MapInChild
  <2>7. QED  BY <2>1, <2>2, <2>3, <2>4, <2>5, <2>6 DEF TypeOK, DupCow, MapInChild, faulting, upcalls
<1>2. TlbInv'
  <2>1. \A x \in Env \ {e} : status'[x] = "live" => tlb[x] \subseteq Table(x)'
    <3> SUFFICES ASSUME NEW x \in Env \ {e}, status'[x] = "live"  PROVE tlb[x] \subseteq Table(x)'
      OBVIOUS
    <3>1. x # child[e] /\ status[x] = "live"
      BY <1>c DEF DupCow, MapInChild
    <3>2. \A p \in Page : pa'[x][p] = pa[x][p] /\ perm'[x][p] = perm[x][p]
      BY <1>c, <3>1 DEF DupCow, MapInChild, TypeOK
    <3>3. QED  BY <3>1, <3>2, SpaceSame DEF TlbInv
  <2>2. QED  BY <2>1, EnvRunTlb DEF DupCow
<1>3. IdleInv'
  BY <1>c, SMT DEF TypeOK, IdleInv, DupCow, MapInChild, InUser, space, faulting, Mapped
<1>4. ChildInv'
  BY <1>c, SMT DEF TypeOK, ChildInv, IdleInv, DupCow, MapInChild, InUser, space, Mapped
<1>5. StepInv'
  BY <1>c, SMT DEF TypeOK, StepInv, IdleInv, DupCow, MapInChild, InUser, Mapped, Perms
<1>6. SharedInv'
  <2>1. perm[e][cur[e]] # "SHARE"
    BY <1>c DEF DupCow, StepInv, Perms
  <2>2. \A x \in Env : \A q \in Page :
          \/ pa'[x][q] = pa[x][q] /\ perm'[x][q] = perm[x][q]
          \/ x = child[e] /\ q = cur[e] /\ pa'[x][q] = pa[e][q] /\ perm'[x][q] = "COW"
    BY <1>c DEF DupCow, MapInChild, TypeOK
  <2>3. cur[e] \notin Shared
    BY <1>c, <2>1 DEF SharedInv
  <2>4. \A x \in Env : \A q \in Page :
          Mapped(x, q)' => /\ perm'[x][q] = "SHARE" <=> q \in Shared
                           /\ \E y \in Env : Mapped(y, q) /\ pa'[x][q] = pa[y][q]
                           /\ q \in Shared => Mapped(x, q) /\ pa'[x][q] = pa[x][q]
    BY <1>c, <2>2, <2>3 DEF SharedInv, Mapped
  <2>5. \A x \in Env : \A q \in Page :
          Mapped(x, q)' => (perm'[x][q] = "SHARE" <=> q \in Shared)
    BY <2>4
  <2>6. \A x, y \in Env : \A q \in Page :
          q \in Shared /\ Mapped(x, q)' /\ Mapped(y, q)' => pa'[x][q] = pa'[y][q]
    <3> SUFFICES ASSUME NEW x \in Env, NEW y \in Env, NEW q \in Page,
                        q \in Shared, Mapped(x, q)', Mapped(y, q)'
                 PROVE  pa'[x][q] = pa'[y][q]
      OBVIOUS
    <3>1. /\ Mapped(x, q) /\ pa'[x][q] = pa[x][q]
          /\ Mapped(y, q) /\ pa'[y][q] = pa[y][q]
      BY <2>4
    <3>2. pa[x][q] = pa[y][q]
      BY <3>1 DEF SharedInv
    <3>3. QED  BY <3>1, <3>2
  <2>7. ASSUME NEW x \in Env, NEW y \in Env, NEW q \in Page, NEW w \in Page,
               Mapped(x, q)', pa'[x][q] = pa'[y][w]
        PROVE  q = w
    <3>1. PICK z \in Env : Mapped(z, q) /\ pa'[x][q] = pa[z][q]
      BY <2>4, <2>7
    <3>2. PICK u \in Env : Mapped(u, w) /\ pa'[y][w] = pa[u][w]
      BY <2>4, <2>7 DEF Mapped
    <3>3. pa[z][q] = pa[u][w]
      BY <2>7, <3>1, <3>2
    <3>4. \A a, b \in Env : \A j, k \in Page : Mapped(a, j) /\ pa[a][j] = pa[b][k] => j = k
      BY DEF SharedInv
    <3>5. QED  BY <3>1, <3>3, <3>4
  <2>8. QED  BY <2>5, <2>6, <2>7 DEF SharedInv
<1>7. WriterInv'
  <2>1. \A x, y \in Env : \A q \in Page :
          Mapped(x, q)' /\ perm'[x][q] = "W" /\ pa'[y][q] = pa'[x][q] /\ y # x
            => step'[x] = "own" /\ child'[x] = y /\ cur'[x] = q
    <3>1. SUFFICES ASSUME NEW x \in Env, NEW y \in Env, NEW q \in Page, Mapped(x, q)',
                          perm'[x][q] = "W", pa'[y][q] = pa'[x][q], y # x
                   PROVE  step'[x] = "own" /\ child'[x] = y /\ cur'[x] = q
      OBVIOUS
    <3>2. perm[x][q] = "W" /\ pa[x][q] = pa'[x][q] /\ Mapped(x, q)
      BY <1>c, <3>1 DEF DupCow, MapInChild, TypeOK, Mapped
    <3>3. step'[e] = "own" /\ child' = child /\ cur' = cur /\ (x # e => step'[x] = step[x])
      BY DEF DupCow, MapInChild, TypeOK
    <3>4. CASE y = child[e] /\ q = cur[e]
      <4>1. pa[e][q] = pa[x][q]
        BY <1>c, <3>1, <3>2, <3>4 DEF DupCow, MapInChild, TypeOK
      <4>2. CASE x = e
        BY <3>3, <3>4, <4>2
      <4>3. CASE x # e
        <5>1. child[x] = e
          BY <3>2, <4>1, <4>3 DEF WriterInv
        <5>2. QED  BY EnvAssumption, <5>1 DEF ChildInv, DupCow, InUser
      <4>4. QED  BY <4>2, <4>3
    <3>5. CASE ~(y = child[e] /\ q = cur[e])
      <4>1. pa[y][q] = pa'[y][q]
        BY <1>c, <3>5 DEF DupCow, MapInChild, TypeOK
      <4>2. step[x] = "own" /\ child[x] = y /\ cur[x] = q
        BY <3>1, <3>2, <4>1 DEF WriterInv, Mapped
      <4>3. QED  BY <3>3, <4>2
    <3>6. QED  BY <3>4, <3>5
  <2>2. QED  BY <2>1, WriterNext
<1>8. EmbryoInv'
  BY <1>c, SMT DEF TypeOK, EmbryoInv, IdleInv, DupCow, MapInChild, InUser, space, Mapped
<1>9. TempInv'
  BY <1>c, SMT DEF TypeOK, TempInv, IdleInv, DupCow, MapInChild, InUser, faulting
<1>10. FaultInv'
  BY <1>c, SMT DEF FaultInv, IdleInv, DupCow, MapInChild, InUser, faulting, Mapped
<1>11. UpcallInv'
  BY <1>c, SMT DEF TypeOK, UpcallInv, IdleInv, DupCow, MapInChild, InUser, upcalls
<1>12. LeftInv'
  BY <1>c, SMT DEF TypeOK, LeftInv, ChildInv, IdleInv, DupCow, MapInChild, InUser
<1>q. QED  BY <1>1, <1>2, <1>3, <1>4, <1>5, <1>6, <1>7, <1>8, <1>9, <1>10, <1>11, <1>12

LEMMA DupOwnStep ==
  ASSUME IInv, NEW e \in Env, DupOwn(e)
  PROVE  IInv'
<1> USE DEF IInv
<1>1. TypeOK'
  <2>1. perm' \in [Env -> [Page -> Perms]]
    BY DEF TypeOK, DupOwn, InUser, Perms, NoPage
  <2>2. step' \in [Env -> Perms \cup {"run", "walk", "own", "upcall", "start"}]
    BY DEF TypeOK, DupOwn, InUser, Perms, NoPage
  <2>3. cur' \in [Env -> Page \cup {NoPage}]
    BY DEF TypeOK, DupOwn, InUser, Perms, NoPage
  <2>4. tlb' \in [Env -> SUBSET (Page \X Frame \X BOOLEAN)]
    BY EnvRunType DEF TypeOK, DupOwn, InUser, space
  <2>5. QED  BY <2>1, <2>2, <2>3, <2>4 DEF TypeOK, DupOwn, InUser, faulting, upcalls
<1>2. TlbInv'
  <2>1. \A x \in Env \ {e} : status'[x] = "live" => tlb[x] \subseteq Table(x)'
    BY SpaceSame DEF TlbInv, TypeOK, IdleInv, ChildInv, DupOwn, InUser, space, Mapped
  <2>2. QED  BY <2>1, EnvRunTlb DEF DupOwn, InUser
<1>3. IdleInv'
  BY SMT DEF TypeOK, IdleInv, DupOwn, InUser, faulting
<1>4. ChildInv'
  BY SMT DEF TypeOK, ChildInv, IdleInv, DupOwn, InUser, space, faulting, upcalls, Mapped
<1>5. StepInv'
  BY SMT DEF TypeOK, StepInv, IdleInv, DupOwn, InUser, space, upcalls, Mapped, Perms
<1>6. SharedInv'
  BY SMT DEF StepInv, SharedInv, IdleInv, DupOwn, InUser, upcalls, Mapped, NoPage
<1>7. WriterInv'
  BY SMT DEF TypeOK, WriterInv, IdleInv, DupOwn, InUser, faulting, upcalls, Mapped
<1>8. EmbryoInv'
  BY SMT DEF TypeOK, EmbryoInv, IdleInv, DupOwn, InUser, space, upcalls, Mapped
<1>9. TempInv'
  BY SMT DEF TypeOK, TempInv, IdleInv, DupOwn, InUser, space, faulting, upcalls, Mapped
<1>10. FaultInv'
  BY SMT DEF TypeOK, FaultInv, IdleInv, DupOwn, InUser, space, faulting, upcalls, Mapped
<1>11. UpcallInv'
  BY SMT DEF TypeOK, ChildInv, UpcallInv, IdleInv, DupOwn, InUser, upcalls, Mapped
<1>12. LeftInv'
  BY SMT DEF TypeOK, LeftInv, ChildInv, IdleInv, DupOwn, InUser, space, upcalls, Mapped
<1>q. QED  BY <1>1, <1>2, <1>3, <1>4, <1>5, <1>6, <1>7, <1>8, <1>9, <1>10, <1>11, <1>12

LEMMA ForkExceptionStackStep ==
  ASSUME IInv, NEW e \in Env, ForkExceptionStack(e)
  PROVE  IInv'
<1> USE DEF IInv
<1>1. TypeOK'
  <2>1. xstack' \subseteq Env
    BY DEF TypeOK, ChildInv, IdleInv, ForkExceptionStack, InUser, Perms, NoPage
  <2>2. step' \in [Env -> Perms \cup {"run", "walk", "own", "upcall", "start"}]
    BY DEF TypeOK, ChildInv, IdleInv, ForkExceptionStack, InUser, Perms, NoPage
  <2>3. tlb' \in [Env -> SUBSET (Page \X Frame \X BOOLEAN)]
    BY EnvRunType DEF TypeOK, ForkExceptionStack, InUser, space
  <2>4. QED  BY <2>1, <2>2, <2>3 DEF TypeOK, ForkExceptionStack, InUser, space, faulting
<1>2. TlbInv'
  <2>1. \A x \in Env \ {e} : status'[x] = "live" => tlb[x] \subseteq Table(x)'
    BY SpaceSame DEF TlbInv, TypeOK, ChildInv, ForkExceptionStack, InUser, space
  <2>2. QED  BY <2>1, EnvRunTlb DEF ForkExceptionStack, InUser
<1>3. IdleInv'
  BY SMT DEF TypeOK, IdleInv, ForkExceptionStack, InUser, space, faulting, Mapped
<1>4. ChildInv'
  BY SMT DEF TypeOK, ChildInv, IdleInv, ForkExceptionStack, InUser, space, Mapped
<1>5. StepInv'
  BY SMT DEF TypeOK, StepInv, IdleInv, ForkExceptionStack, InUser, space, Mapped, Perms
<1>6. SharedInv'
  BY SMT DEF SharedInv, ForkExceptionStack, space, Mapped
<1>7. WriterInv'
  BY SMT DEF TypeOK, WriterInv, IdleInv, ForkExceptionStack, InUser, space, Mapped
<1>8. EmbryoInv'
  BY SMT DEF TypeOK, EmbryoInv, IdleInv, ForkExceptionStack, InUser, space, Mapped
<1>9. TempInv'
  BY SMT DEF TypeOK, TempInv, IdleInv, ForkExceptionStack, InUser, space, faulting
<1>10. FaultInv'
  BY SMT DEF TypeOK, FaultInv, ForkExceptionStack, InUser, space, faulting, Mapped
<1>11. UpcallInv'
  BY SMT DEF TypeOK, UpcallInv, IdleInv, ForkExceptionStack, InUser, space, Mapped
<1>12. LeftInv'
  BY SMT DEF TypeOK, LeftInv, ChildInv, IdleInv, ForkExceptionStack, InUser, space
<1>q. QED  BY <1>1, <1>2, <1>3, <1>4, <1>5, <1>6, <1>7, <1>8, <1>9, <1>10, <1>11, <1>12

LEMMA ForkUpcallStep ==
  ASSUME IInv, NEW e \in Env, ForkUpcall(e)
  PROVE  IInv'
<1> USE DEF IInv
<1>1. TypeOK'
  <2>1. upcall' \subseteq Env
    BY DEF TypeOK, ChildInv, ForkUpcall, InUser, Perms, NoPage
  <2>2. step' \in [Env -> Perms \cup {"run", "walk", "own", "upcall", "start"}]
    BY DEF TypeOK, ChildInv, ForkUpcall, InUser, Perms, NoPage
  <2>3. tlb' \in [Env -> SUBSET (Page \X Frame \X BOOLEAN)]
    BY EnvRunType DEF TypeOK, ForkUpcall, InUser, space
  <2>4. QED  BY <2>1, <2>2, <2>3 DEF TypeOK, ForkUpcall, InUser, space, faulting
<1>2. TlbInv'
  <2>1. \A x \in Env \ {e} : status'[x] = "live" => tlb[x] \subseteq Table(x)'
    BY SpaceSame DEF TlbInv, TypeOK, IdleInv, ChildInv, ForkUpcall, InUser, space
  <2>2. QED  BY <2>1, EnvRunTlb DEF ForkUpcall, InUser
<1>3. IdleInv'
  BY SMT DEF TypeOK, IdleInv, ForkUpcall, InUser, space, faulting, upcalls, Mapped
<1>4. ChildInv'
  BY SMT DEF TypeOK, ChildInv, IdleInv, ForkUpcall, InUser, space, upcalls, Mapped
<1>5. StepInv'
  BY SMT DEF TypeOK, StepInv, IdleInv, ForkUpcall, InUser, space, upcalls, Mapped, Perms
<1>6. SharedInv'
  BY SMT DEF TypeOK, SharedInv, IdleInv, ForkUpcall, InUser, space, faulting, Mapped
<1>7. WriterInv'
  BY SMT DEF TypeOK, WriterInv, IdleInv, ForkUpcall, InUser, space, upcalls, Mapped
<1>8. EmbryoInv'
  BY SMT DEF TypeOK, EmbryoInv, IdleInv, ForkUpcall, InUser, space, upcalls, Mapped
<1>9. TempInv'
  BY SMT DEF TypeOK, TempInv, IdleInv, ForkUpcall, InUser, space, faulting, Mapped
<1>10. FaultInv'
  BY SMT DEF TypeOK, FaultInv, IdleInv, ForkUpcall, InUser, space, faulting, Mapped
<1>11. UpcallInv'
  BY SMT DEF TypeOK, UpcallInv, IdleInv, ForkUpcall, InUser, space, upcalls, Mapped
<1>12. LeftInv'
  BY SMT DEF TypeOK, LeftInv, ChildInv, IdleInv, ForkUpcall, InUser, space, Mapped
<1>q. QED  BY <1>1, <1>2, <1>3, <1>4, <1>5, <1>6, <1>7, <1>8, <1>9, <1>10, <1>11, <1>12

LEMMA ForkStartStep ==
  ASSUME IInv, NEW e \in Env, ForkStart(e)
  PROVE  IInv'
<1> USE DEF IInv
<1>1. TypeOK'
  <2>1. status' \in [Env -> {"free", "embryo", "live"}]
    BY DEF TypeOK, ChildInv, ForkStart, InUser, Perms, NoPage
  <2>2. child' \in [Env -> Env \cup {NoEnv}]
    BY DEF TypeOK, ChildInv, ForkStart, InUser, Perms, NoPage
  <2>3. step' \in [Env -> Perms \cup {"run", "walk", "own", "upcall", "start"}]
    BY DEF TypeOK, ChildInv, ForkStart, InUser, Perms, NoPage
  <2>4. tlb' \in [Env -> SUBSET (Page \X Frame \X BOOLEAN)]
    BY EnvRunType DEF TypeOK, ForkStart, InUser, space
  <2>5. QED  BY <2>1, <2>2, <2>3, <2>4 DEF TypeOK, ForkStart, space, faulting, upcalls
<1>2. TlbInv'
  <2>1. \A x \in Env \ {e} : status'[x] = "live" => tlb[x] \subseteq Table(x)'
    BY SpaceSame DEF TlbInv, TypeOK, IdleInv, ChildInv, ForkStart, InUser, space, Mapped
  <2>2. QED  BY <2>1, EnvRunTlb DEF ForkStart, InUser
<1>3. IdleInv'
  BY SMT DEF TypeOK, IdleInv, ForkStart, InUser, space, faulting, Mapped, Perms, NoPage
<1>4. ChildInv'
  BY SMT DEF TypeOK, ChildInv, IdleInv, ForkStart, InUser, space, upcalls, Mapped
<1>5. StepInv'
  BY SMT DEF TypeOK, StepInv, IdleInv, ForkStart, InUser, space, upcalls, Mapped, Perms
<1>6. SharedInv'
  BY SMT DEF TypeOK, SharedInv, IdleInv, ForkStart, InUser, space, upcalls, Mapped
<1>7. WriterInv'
  BY SMT DEF TypeOK, WriterInv, IdleInv, ForkStart, InUser, space, upcalls, Mapped
<1>8. EmbryoInv'
  BY SMT DEF TypeOK, EmbryoInv, IdleInv, ForkStart, InUser, space, upcalls, Mapped
<1>9. TempInv'
  BY SMT DEF TempInv, ForkStart, space, faulting
<1>10. FaultInv'
  BY SMT DEF TypeOK, FaultInv, IdleInv, ForkStart, InUser, space, faulting, Mapped
<1>11. UpcallInv'
  BY SMT DEF TypeOK, ChildInv, UpcallInv, IdleInv, ForkStart, InUser, space, upcalls
<1>12. LeftInv'
  BY SMT DEF TypeOK, LeftInv, ChildInv, IdleInv, ForkStart, InUser, space, Mapped
<1>q. QED  BY <1>1, <1>2, <1>3, <1>4, <1>5, <1>6, <1>7, <1>8, <1>9, <1>10, <1>11, <1>12

LEMMA ExitStep ==
  ASSUME IInv, NEW e \in Env, Exit(e)
  PROVE  IInv'
<1> USE DEF IInv
<1>1. TypeOK'
  <2>1. status' \in [Env -> {"free", "embryo", "live"}]
    BY DEF TypeOK, Exit, Perms, NoPage
  <2>2. pa' \in [Env -> [Page -> Frame \cup {NoFrame}]]
    BY DEF TypeOK, Exit, Perms, NoPage
  <2>3. perm' \in [Env -> [Page -> Perms]]
    BY DEF TypeOK, Exit, Perms, NoPage
  <2>4. pftemp' \in [Env -> Frame \cup {NoFrame}]
    BY DEF TypeOK, Exit, Perms, NoPage
  <2>5. handler' \subseteq Env
    BY DEF TypeOK, Exit, Perms, NoPage
  <2>6. xstack' \subseteq Env
    BY DEF TypeOK, Exit, Perms, NoPage
  <2>7. upcall' \subseteq Env
    BY DEF TypeOK, Exit, Perms, NoPage
  <2>8. child' \in [Env -> Env \cup {NoEnv}]
    BY DEF TypeOK, Exit, Perms, NoPage
  <2>9. step' \in [Env -> Perms \cup {"run", "walk", "own", "upcall", "start"}]
    BY DEF TypeOK, Exit, Perms, NoPage
  <2>10. left' \in [Env -> SUBSET Page]
    BY DEF TypeOK, Exit, Perms, NoPage
  <2>11. cur' \in [Env -> Page \cup {NoPage}]
    BY DEF TypeOK, Exit, Perms, NoPage
  <2>12. fault' \in [Env -> {"none", "alloc", "copy", "map", "unmap"}]
    BY DEF TypeOK, Exit, Perms, NoPage
  <2>13. fva' \in [Env -> Page \cup {NoPage}]
    BY DEF TypeOK, Exit, Perms, NoPage
  <2>14. tlb' \in [Env -> SUBSET (Page \X Frame \X BOOLEAN)]
    BY <2>2, EnvRunType DEF Exit
  <2>15. QED  BY <2>1, <2>2, <2>3, <2>4, <2>5, <2>6, <2>7, <2>8, <2>9, <2>10, <2>11, <2>12, <2>13, <2>14 DEF TypeOK, Exit
<1>2. TlbInv'
  <2>1. \A x \in Env \ {e} : status'[x] = "live" => tlb[x] \subseteq Table(x)'
    BY SpaceSame DEF TlbInv, TypeOK, IdleInv, ChildInv, Exit, space, upcalls, Mapped
  <2>2. QED  BY <2>1, EnvRunTlb DEF Exit
<1>3. IdleInv'
  BY SMT DEF TypeOK, IdleInv, Exit, space, faulting, upcalls, Mapped, Perms, NoPage
<1>4. ChildInv'
  BY SMT DEF TypeOK, ChildInv, IdleInv, Exit, space, forking, faulting, upcalls, Mapped
<1>5. StepInv'
  BY SMT DEF TypeOK, StepInv, IdleInv, Exit, space, faulting, upcalls, Mapped, Perms
<1>6. SharedInv'
  BY SMT DEF TypeOK, SharedInv, IdleInv, Exit, space, forking, faulting, upcalls, Mapped
<1>7. WriterInv'
  BY SMT DEF TypeOK, WriterInv, IdleInv, Exit, space, forking, faulting, upcalls, Mapped
<1>8. EmbryoInv'
  BY SMT DEF TypeOK, EmbryoInv, IdleInv, Exit, space, forking, faulting, upcalls, Mapped
<1>9. TempInv'
  BY SMT DEF TypeOK, TempInv, IdleInv, Exit, space, forking, faulting, upcalls, Mapped
<1>10. FaultInv'
  BY SMT DEF TypeOK, FaultInv, IdleInv, Exit, space, forking, faulting, upcalls, Mapped
<1>11. UpcallInv'
  BY SMT DEF TypeOK, ChildInv, UpcallInv, IdleInv, Exit, space, upcalls, Mapped
<1>12. LeftInv'
  BY SMT DEF TypeOK, LeftInv, ChildInv, IdleInv, Exit, space, faulting, upcalls, Mapped
<1>q. QED  BY <1>1, <1>2, <1>3, <1>4, <1>5, <1>6, <1>7, <1>8, <1>9, <1>10, <1>11, <1>12

LEMMA InitInv == Init => IInv
<1> SUFFICES ASSUME Init  PROVE IInv
  OBVIOUS
<1> USE EnvAssumption, PageAssumption, FrameAssumption, ValueAssumption DEF Init
<1>1. TypeOK
  BY DEF TypeOK, Perms, NoPage
<1>2. TlbInv
  BY DEF TlbInv, Table, Mapped
<1>3. IdleInv /\ ChildInv /\ LeftInv
  BY DEF IdleInv, ChildInv, LeftInv
<1>4. StepInv /\ SharedInv /\ WriterInv /\ EmbryoInv
  BY DEF StepInv, SharedInv, WriterInv, EmbryoInv, Perms, Mapped
<1>5. TempInv /\ FaultInv /\ UpcallInv
  BY DEF TempInv, FaultInv, UpcallInv
<1>6. QED  BY <1>1, <1>2, <1>3, <1>4, <1>5 DEF IInv

LEMMA StutterInv == IInv /\ UNCHANGED vars => IInv'
<1> SUFFICES ASSUME IInv, UNCHANGED vars  PROVE IInv'
  OBVIOUS
<1> USE DEF IInv, vars, space, forking, faulting, upcalls
<1>1. TypeOK'  BY DEF TypeOK
<1>2. TlbInv'  BY DEF TlbInv, Table, Mapped, Writable
<1>3. IdleInv' /\ ChildInv' /\ LeftInv'  BY DEF IdleInv, ChildInv, LeftInv
<1>4. StepInv'  BY DEF StepInv, Mapped
<1>5. SharedInv' /\ WriterInv' /\ EmbryoInv'  BY DEF SharedInv, WriterInv, EmbryoInv, Mapped
<1>6. TempInv' /\ FaultInv'  BY DEF TempInv, FaultInv, Mapped
<1>7. UpcallInv'  BY DEF UpcallInv
<1>8. QED  BY <1>1, <1>2, <1>3, <1>4, <1>5, <1>6, <1>7

LEMMA NextInv == IInv /\ Next => IInv'
<1> SUFFICES ASSUME IInv, NEW e \in Env,
                    \/ \E p \in Page :
                         \/ Fault(e, p) \/ WalkPast(e, p) \/ Walk(e, p)
                         \/ Protect(e, p) \/ SysPageUnmap(e, p)
                         \/ \E v \in Value : Store(e, p, v)
                         \/ \E bits \in {"W", "RO", "SHARE"} : SysPageAlloc(e, p, bits)
                    \/ PgfaultAlloc(e) \/ PgfaultCopy(e) \/ PgfaultMap(e) \/ PgfaultUnmap(e)
                    \/ SetPgfaultHandler(e)
                    \/ \E c \in Env : SysExofork(e, c)
                    \/ DupAsIs(e) \/ DupCow(e) \/ DupOwn(e)
                    \/ ForkExceptionStack(e) \/ ForkUpcall(e) \/ ForkStart(e)
                    \/ Exit(e)
             PROVE  IInv'
  BY DEF Next
<1> QED  BY StoreStep, SysPageAllocStep, ProtectStep, SysPageUnmapStep, FaultStep, WalkPastStep, WalkStep, PgfaultAllocStep,
            PgfaultCopyStep, PgfaultMapStep, PgfaultUnmapStep, SetPgfaultHandlerStep, SysExoforkStep, DupAsIsStep,
            DupCowStep, DupOwnStep, ForkExceptionStackStep, ForkUpcallStep, ForkStartStep, ExitStep

LEMMA Invariance == Spec => []IInv
BY InitInv, NextInv, StutterInv, PTL DEF Spec

\* Every variable has its type, in every state of a system of any size.
THEOREM TypeCorrect == Spec => []TypeOK
<1>1. IInv => TypeOK  BY DEF IInv
<1>2. QED  BY <1>1, Invariance, PTL

\* The TLB of a CPU is never behind the page table it runs on, although
\* tlb_invalidate flushes no other CPU's: fork() changes only the table of a
\* child that does not run.
THEOREM TlbStaysCoherent == Spec => []TlbCoherent
<1>1. IInv => TlbCoherent  BY DEF IInv, TlbInv, TlbCoherent
<1>2. QED  BY <1>1, Invariance, PTL

\* Whoever runs with a page marked copy-on-write has the upcall and the
\* exception stack that the fault on it needs.
THEOREM FaultsCanBeTaken == Spec => []CanFault
<1>1. IInv => CanFault  BY DEF IInv, UpcallInv, CanFault
<1>2. QED  BY <1>1, Invariance, PTL

-----------------------------------------------------------------------------
(***************************************************************************)
(* CowFork implements ForkMemory.                                          *)
(***************************************************************************)
\* Whose page an environment that is being forked sees.
LEMMA ViewOf ==
  ASSUME IInv, NEW e \in Env, NEW p \in Page
  PROVE  /\ status[e] = "live" => View(e, p) = Content(e, p)
         /\ status[e] # "live" /\ ~Forked(e) => View(e, p) = NoValue
         /\ child[e] # NoEnv =>
              View(child[e], p) = IF p \in left[e] THEN Content(e, p) ELSE Content(child[e], p)
<1>1. child[e] # NoEnv => /\ child[e] \in Env /\ status[child[e]] # "live"
                          /\ Forked(child[e]) /\ parent[child[e]] = e
  BY DEF IInv, ChildInv, TypeOK, Forked
<1>2. QED  BY <1>1 DEF View

LEMMA ContentSame ==
  ASSUME NEW e \in Env, NEW p \in Page, pa'[e][p] = pa[e][p],
         pa[e][p] # NoFrame => mem'[pa[e][p]] = mem[pa[e][p]]
  PROVE  Content(e, p)' = Content(e, p)
BY DEF Content, Mapped

\* A step that leaves all contents as they are and starts, forks and ends no
\* environment is none of ForkMemory's.
LEMMA ViewSame ==
  ASSUME \A x \in Env : \A q \in Page : Content(x, q)' = Content(x, q),
         status' = status, parent' = parent, child' = child, left' = left
  PROVE  UNCHANGED Memory!fmVars
<1>1. \A x \in Env : \A q \in Page : View(x, q)' = View(x, q)
  BY DEF View, Forked, NoValue
<1>2. QED  BY <1>1 DEF Memory!fmVars

LEMMA SpaceSameStep ==
  ASSUME pa' = pa, mem' = mem, status' = status, parent' = parent, child' = child, left' = left
  PROVE  UNCHANGED Memory!fmVars
<1>1. \A x \in Env : \A q \in Page : Content(x, q)' = Content(x, q)
  BY DEF Content, Mapped
<1>2. QED  BY <1>1, ViewSame

LEMMA QuietSteps ==
  ASSUME IInv, NEW e \in Env,
         \/ \E p \in Page : Protect(e, p) \/ Fault(e, p) \/ Walk(e, p)
         \/ PgfaultUnmap(e) \/ SetPgfaultHandler(e) \/ DupOwn(e)
         \/ ForkExceptionStack(e) \/ ForkUpcall(e)
  PROVE  UNCHANGED Memory!fmVars
<1>1. pa' = pa /\ mem' = mem /\ status' = status /\ parent' = parent /\ child' = child /\ left' = left
  BY DEF Protect, Fault, Walk, PgfaultUnmap, SetPgfaultHandler, DupOwn, ForkExceptionStack,
         ForkUpcall, space, forking
<1>2. QED  BY <1>1, SpaceSameStep

\* The copy of a page is made where nobody looks, and is the page when it
\* takes its place.
LEMMA PgfaultSteps ==
  ASSUME IInv, NEW e \in Env, PgfaultAlloc(e) \/ PgfaultCopy(e) \/ PgfaultMap(e)
  PROVE  UNCHANGED Memory!fmVars
<1>1. status' = status /\ parent' = parent /\ child' = child /\ left' = left
  BY DEF PgfaultAlloc, PgfaultCopy, PgfaultMap, forking
<1>2. SUFFICES ASSUME NEW x \in Env, NEW q \in Page  PROVE Content(x, q)' = Content(x, q)
  BY <1>1, ViewSame
<1>3. CASE PgfaultAlloc(e)
  <2>1. pa' = pa /\ mem' = [mem EXCEPT ![page_alloc] = Zero] /\ ~NoMemory
    BY <1>3 DEF PgfaultAlloc
  <2>2. pa[x][q] # NoFrame => mem'[pa[x][q]] = mem[pa[x][q]]
    BY <2>1, PageAllocFresh, FrameType DEF IInv, TypeOK
  <2>3. QED  BY <2>1, <2>2, ContentSame
<1>4. CASE PgfaultCopy(e)
  <2>1. PICK t \in tlb[e] : mem' = [mem EXCEPT ![pftemp[e]] = mem[t[2]]]
    BY <1>4 DEF PgfaultCopy
  <2>2. pftemp[e] # NoFrame /\ fault[e] # "unmap" /\ pa' = pa
    BY <1>4 DEF PgfaultCopy, IInv, TempInv, space
  <2>3. pa[x][q] # pftemp[e]
    BY <2>2 DEF IInv, TempInv
  <2>4. pa[x][q] # NoFrame => mem'[pa[x][q]] = mem[pa[x][q]]
    BY <2>1, <2>3, FrameType DEF IInv, TypeOK
  <2>5. QED  BY <2>2, <2>4, ContentSame
<1>5. CASE PgfaultMap(e)
  <2>1. /\ fva[e] \in Page /\ pa[e][fva[e]] # NoFrame /\ pftemp[e] # NoFrame
        /\ mem[pftemp[e]] = mem[pa[e][fva[e]]]
    BY <1>5 DEF PgfaultMap, IInv, FaultInv, TempInv, Mapped
  <2>2. pa' = [pa EXCEPT ![e][fva[e]] = pftemp[e]] /\ mem' = mem
    BY <1>5 DEF PgfaultMap
  <2>3. CASE x = e /\ q = fva[e]
    <3>1. pa'[x][q] = pftemp[e]
      BY <2>1, <2>2, <2>3 DEF IInv, TypeOK
    <3>2. QED  BY <2>1, <2>2, <2>3, <3>1 DEF Content, Mapped
  <2>4. CASE ~(x = e /\ q = fva[e])
    <3>1. pa'[x][q] = pa[x][q]
      BY <2>2, <2>4 DEF IInv, TypeOK
    <3>2. QED  BY <2>2, <3>1, ContentSame
  <2>5. QED  BY <2>3, <2>4
<1>6. QED  BY <1>3, <1>4, <1>5

\* Where the loop passes, the child goes on seeing what it saw.
LEMMA LoopSteps ==
  ASSUME IInv, NEW e \in Env, (\E p \in Page : WalkPast(e, p)) \/ DupAsIs(e) \/ DupCow(e)
  PROVE  UNCHANGED Memory!fmVars
<1>1. /\ status' = status /\ parent' = parent /\ child' = child /\ mem' = mem
      /\ status[e] = "live" /\ child[e] \in Env /\ child[e] # e /\ status[child[e]] = "embryo"
  BY DEF WalkPast, DupAsIs, DupCow, MapInChild, InUser, IInv, ChildInv, TypeOK, space
<1>2. PICK p \in Page :
        /\ p \in left[e] /\ left' = [left EXCEPT ![e] = @ \ {p}]
        /\ \/ pa' = pa /\ pa[e][p] = NoFrame /\ pa[child[e]][p] = NoFrame
           \/ pa' = [pa EXCEPT ![child[e]][p] = pa[e][p]]
  <2>1. ASSUME NEW p \in Page, WalkPast(e, p)
        PROVE  p \in left[e] /\ left' = [left EXCEPT ![e] = @ \ {p}]
               /\ pa' = pa /\ pa[e][p] = NoFrame /\ pa[child[e]][p] = NoFrame
    BY <1>1, <2>1, EnvAssumption DEF WalkPast, NextPage, Mapped, space, IInv, LeftInv
  <2>2. DupAsIs(e) \/ DupCow(e) =>
          /\ cur[e] \in Page /\ cur[e] \in left[e] /\ left' = [left EXCEPT ![e] = @ \ {cur[e]}]
          /\ pa' = [pa EXCEPT ![child[e]][cur[e]] = pa[e][cur[e]]]
    BY DEF DupAsIs, DupCow, MapInChild, IInv, StepInv, TypeOK, Perms
  <2>3. QED  BY <2>1, <2>2
<1>3. \A x \in Env : \A q \in Page :
        (x # child[e] \/ q # p) => pa'[x][q] = pa[x][q] /\ Content(x, q)' = Content(x, q)
  <2>1. \A x \in Env : \A q \in Page : (x # child[e] \/ q # p) => pa'[x][q] = pa[x][q]
    BY <1>1, <1>2 DEF IInv, TypeOK
  <2>2. QED  BY <1>1, <2>1 DEF Content, Mapped
<1>4. Content(child[e], p)' = Content(e, p)
  <2>1. pa'[child[e]][p] = pa[e][p]
    BY <1>1, <1>2 DEF IInv, TypeOK
  <2>2. QED  BY <1>1, <2>1 DEF Content, Mapped
<1>5. \A x \in Env : \A q \in Page : View(x, q)' = View(x, q)
  <2> SUFFICES ASSUME NEW x \in Env, NEW q \in Page  PROVE View(x, q)' = View(x, q)
    OBVIOUS
  <2>1. CASE status[x] = "live"
    <3>1. x # child[e]
      BY <1>1, <2>1
    <3>2. QED  BY <1>1, <1>3, <2>1, <3>1 DEF View
  <2>2. CASE status[x] # "live" /\ ~Forked(x)
    BY <1>1, <2>2 DEF View, Forked, NoValue
  <2>3. CASE x = child[e]
    <3>1. parent[x] = e /\ Forked(x) /\ status[x] # "live"
      BY <1>1, <2>3, EnvAssumption DEF IInv, ChildInv, Forked
    <3>2. CASE q = p
      <4>1. View(x, q) = Content(e, q)
        BY <1>2, <3>1, <3>2 DEF View
      <4>2. q \notin left'[e]
        BY <1>2, <3>2 DEF IInv, TypeOK
      <4>3. View(x, q)' = Content(x, q)'
        BY <1>1, <3>1, <4>2 DEF View, Forked
      <4>4. QED  BY <1>1, <1>4, <2>3, <3>2, <4>1, <4>3 DEF Content, Mapped
    <3>3. CASE q # p
      <4>1. q \in left'[e] <=> q \in left[e]
        BY <1>2, <3>3 DEF IInv, TypeOK
      <4>2. Content(x, q)' = Content(x, q) /\ Content(e, q)' = Content(e, q)
        BY <1>3, <3>3
      <4>3. QED  BY <1>1, <3>1, <4>1, <4>2 DEF View, Forked
    <3>4. QED  BY <3>2, <3>3
  <2>4. CASE status[x] # "live" /\ Forked(x) /\ x # child[e]
    <3>1. parent[x] \in Env /\ parent[x] # e /\ parent[x] # child[e]
      BY <1>1, <2>4, EnvAssumption DEF Forked, IInv, IdleInv
    <3>2. left'[parent[x]] = left[parent[x]]
      BY <1>2, <3>1 DEF IInv, TypeOK
    <3>3. pa'[x][q] = pa[x][q] /\ pa'[parent[x]][q] = pa[parent[x]][q]
      BY <1>3, <2>4, <3>1
    <3>4. QED  BY <1>1, <2>4, <3>1, <3>2, <3>3 DEF View, Forked, Content, Mapped
  <2>5. QED  BY <2>1, <2>2, <2>3, <2>4
<1>6. QED  BY <1>1, <1>5 DEF Memory!fmVars

\* A write changes the page of its writer, everyone's if it is shared, and
\* between the two calls of duppage() the child's.
LEMMA StoreRefines ==
  ASSUME IInv, NEW e \in Env, NEW p \in Page, NEW v \in Value, Store(e, p, v)
  PROVE  Memory!Store(e, p, v)
<1> DEFINE f == pa[e][p]
<1> USE EnvAssumption, ValueAssumption
<1>1. /\ status[e] = "live" /\ f # NoFrame /\ f \in Frame /\ Writable(e, p)
      /\ mem' = [mem EXCEPT ![f] = v] /\ (step[e] # "run" => p \in Stack)
      /\ pa' = pa /\ status' = status /\ parent' = parent /\ child' = child /\ left' = left
  <2>1. PICK t \in tlb[e] : t[1] = p /\ t[3] /\ mem' = [mem EXCEPT ![t[2]] = v]
    BY DEF Store
  <2>2. t[2] = f /\ f # NoFrame /\ Writable(e, p)
    BY <2>1, InTlb DEF IInv, Mapped
  <2>3. QED  BY <2>1, <2>2, FrameType DEF IInv, Store, MayTouch, InUser, space, forking
<1>2. \A x \in Env : \A q \in Page :
        Content(x, q)' = IF pa[x][q] = f THEN v ELSE Content(x, q)
  <2> SUFFICES ASSUME NEW x \in Env, NEW q \in Page
               PROVE  Content(x, q)' = IF pa[x][q] = f THEN v ELSE Content(x, q)
    OBVIOUS
  <2>1. pa[x][q] # NoFrame => pa[x][q] \in Frame
    BY FrameType DEF IInv
  <2>2. QED  BY <1>1, <2>1 DEF Content, Mapped, IInv, TypeOK
<1>3. \A x \in Env : \A q \in Page : pa[x][q] = f => q = p
  BY <1>1 DEF IInv, SharedInv, Mapped
<1>4. e \in {x \in Env : status[x] = "live"} /\ View(e, p) # NoValue
  BY <1>1, ViewOf DEF Content, Mapped, NoValue, IInv, TypeOK
<1>5. child[e] # NoEnv => p \in Stack
  BY <1>1 DEF IInv, ChildInv
<1>6. \E readers \in Memory!Readers(e, p) : \A x \in Env : \A q \in Page :
        View(x, q)' = IF x \in readers /\ q = p THEN v ELSE View(x, q)
  <2>1. CASE p \in Shared
    <3>1. perm[e][p] = "SHARE"
      BY <1>1, <2>1 DEF IInv, SharedInv, Mapped
    <3>2. \A x \in Env : pa[x][p] = f <=> pa[x][p] # NoFrame
      BY <1>1, <2>1 DEF IInv, SharedInv, Mapped
    <3>3. \A x \in Env : Content(x, p) # NoValue <=> pa[x][p] # NoFrame
      <4> SUFFICES ASSUME NEW x \in Env
                   PROVE  Content(x, p) # NoValue <=> pa[x][p] # NoFrame
        OBVIOUS
      <4>1. pa[x][p] # NoFrame => pa[x][p] \in Frame
        BY FrameType DEF IInv
      <4>2. \A g \in Frame : mem[g] # NoFrame
        BY DEF IInv, TypeOK
      <4>3. QED  BY <4>1, <4>2 DEF Content, Mapped, NoValue
    <3>4. \A x \in Env : \A q \in Page :
            Content(x, q)' = IF q = p /\ Content(x, q) # NoValue THEN v ELSE Content(x, q)
      BY <1>2, <1>3, <3>2, <3>3
    <3>5. \A x \in Env : \A q \in Page :
            View(x, q)' = IF q = p /\ View(x, q) # NoValue THEN v ELSE View(x, q)
      BY <1>1, <3>4 DEF View, Forked
    <3>6. {x \in Env : View(x, p) # NoValue} \in Memory!Readers(e, p)
      BY <2>1 DEF Memory!Readers
    <3>7. QED  BY <3>5, <3>6
  <2>2. CASE p \notin Shared
    <3>1. perm[e][p] = "W"
      BY <1>1, <2>2 DEF IInv, SharedInv, Writable, Mapped
    <3>2. \A x \in Env : pa[x][p] = f => x = e \/ x = child[e]
      BY <1>1, <3>1 DEF IInv, WriterInv, Mapped
    <3>3. \A x \in Env : \A q \in Page :
            x # e /\ x # child[e] => Content(x, q)' = Content(x, q)
      BY <1>2, <1>3, <3>2
    <3>4. \A x \in Env : \A q \in Page :
            x # e /\ x # child[e] => View(x, q)' = View(x, q)
      <4> SUFFICES ASSUME NEW x \in Env, NEW q \in Page, x # e, x # child[e]
                   PROVE  View(x, q)' = View(x, q)
        OBVIOUS
      <4>1. Forked(x) => parent[x] \in Env /\ parent[x] # e /\ parent[x] # child[e]
        <5>1. Forked(x) => status[parent[x]] = "live"
          BY DEF Forked, IInv, IdleInv
        <5>2. child[e] # NoEnv => status[child[e]] = "embryo"
          BY DEF IInv, ChildInv
        <5>3. QED  BY <5>1, <5>2 DEF Forked
      <4>2. \A y \in Env : y # e /\ y # child[e] => Content(y, q)' = Content(y, q)
        BY <3>3
      <4>3. QED  BY <1>1, <4>1, <4>2 DEF View, Forked
    <3>5. \A q \in Page : View(e, q)' = IF q = p THEN v ELSE View(e, q)
      BY <1>1, <1>2, <1>3 DEF View
    <3>6. CASE child[e] = NoEnv
      <4>1. {e} \in Memory!Readers(e, p)
        BY <2>2 DEF Memory!Readers
      <4>2. QED  BY <3>4, <3>5, <3>6, <4>1
    <3>7. CASE child[e] # NoEnv
      <4>1. PICK c \in Env : /\ c = child[e] /\ c # e /\ parent[c] = e /\ Forked(c)
                            /\ status[c] # "live"
        BY <1>1, <3>7 DEF IInv, ChildInv, TypeOK, Forked
      <4>2. \A q \in Page : \E o \in Env :
              /\ View(c, q) = Content(o, q)
              /\ View(c, q)' = IF pa[o][q] = f THEN v ELSE Content(o, q)
        <5> SUFFICES ASSUME NEW q \in Page
                     PROVE  \E o \in Env :
                              /\ View(c, q) = Content(o, q)
                              /\ View(c, q)' = IF pa[o][q] = f THEN v ELSE Content(o, q)
          OBVIOUS
        <5>1. CASE q \in left[e]
          <6>1. View(c, q) = Content(e, q) /\ View(c, q)' = Content(e, q)'
            BY <1>1, <4>1, <5>1 DEF View, Forked
          <6>2. QED  BY <1>2, <6>1
        <5>2. CASE q \notin left[e]
          <6>1. View(c, q) = Content(c, q) /\ View(c, q)' = Content(c, q)'
            BY <1>1, <4>1, <5>2 DEF View, Forked
          <6>2. QED  BY <1>2, <6>1
        <5>3. QED  BY <5>1, <5>2
      <4>3. {e} \in Memory!Readers(e, p) /\ {e, c} \in Memory!Readers(e, p)
        BY <2>2, <3>7, <4>1 DEF Memory!Readers
      <4>4. \A q \in Page : q # p => View(c, q)' = View(c, q)
        BY <1>3, <4>2
      <4>5. View(c, p)' = v \/ View(c, p)' = View(c, p)
        BY <4>2
      <4>6. \A x \in Env : \A q \in Page : x # e /\ x # c => View(x, q)' = View(x, q)
        BY <3>4, <4>1
      <4>7. CASE View(c, p)' = v
        BY <3>5, <4>1, <4>3, <4>4, <4>6, <4>7
      <4>8. CASE View(c, p)' = View(c, p)
        BY <3>5, <4>1, <4>3, <4>4, <4>6, <4>8
      <4>9. QED  BY <4>5, <4>7, <4>8
    <3>8. QED  BY <3>6, <3>7
  <2>3. QED  BY <2>1, <2>2
<1>7. QED  BY <1>1, <1>4, <1>5, <1>6 DEF Memory!Store

LEMMA AllocRefines ==
  ASSUME IInv, NEW e \in Env, NEW p \in Page, NEW bits \in {"W", "RO", "SHARE"},
         SysPageAlloc(e, p, bits)
  PROVE  Memory!Alloc(e, p)
<1> USE EnvAssumption, ValueAssumption
<1>1. /\ status[e] = "live" /\ child[e] = NoEnv /\ ~NoMemory
      /\ (p \in Shared => \A x \in Env : ~Mapped(x, p))
      /\ mem' = [mem EXCEPT ![page_alloc] = Zero] /\ pa' = [pa EXCEPT ![e][p] = page_alloc]
      /\ status' = status /\ parent' = parent /\ child' = child /\ left' = left
  BY DEF SysPageAlloc, InUser, IInv, ChildInv, forking
<1>2. \A x \in Env : \A q \in Page :
        Content(x, q)' = IF x = e /\ q = p THEN Zero ELSE Content(x, q)
  <2> SUFFICES ASSUME NEW x \in Env, NEW q \in Page
               PROVE  Content(x, q)' = IF x = e /\ q = p THEN Zero ELSE Content(x, q)
    OBVIOUS
  <2>1. CASE x = e /\ q = p
    <3>1. pa'[x][q] = page_alloc /\ mem'[page_alloc] = Zero /\ page_alloc # NoFrame
      BY <1>1, <2>1, PageAllocFresh, FrameAssumption DEF IInv, TypeOK
    <3>2. QED  BY <2>1, <3>1 DEF Content, Mapped
  <2>2. CASE ~(x = e /\ q = p)
    <3>1. pa'[x][q] = pa[x][q] /\ pa[x][q] # page_alloc
      BY <1>1, <2>2, PageAllocFresh DEF IInv, TypeOK
    <3>2. pa[x][q] # NoFrame => mem'[pa[x][q]] = mem[pa[x][q]]
      BY <1>1, <3>1, PageAllocFresh, FrameType DEF IInv, TypeOK
    <3>3. QED  BY <2>2, <3>1, <3>2, ContentSame
  <2>3. QED  BY <2>1, <2>2
<1>3. \A x \in Env : \A q \in Page : View(x, q)' = IF x = e /\ q = p THEN Zero ELSE View(x, q)
  BY <1>1, <1>2 DEF View, Forked
<1>4. p \in Shared => \A x \in Env : View(x, p) = NoValue
  BY <1>1 DEF View, Forked, Content
<1>5. QED  BY <1>1, <1>3, <1>4, ZenonT(30) DEF Memory!Alloc

LEMMA UnmapRefines ==
  ASSUME IInv, NEW e \in Env, NEW p \in Page, SysPageUnmap(e, p)
  PROVE  Memory!Unmap(e, p)
<1> USE EnvAssumption
<1>1. /\ status[e] = "live" /\ child[e] = NoEnv /\ mem' = mem /\ pa' = [pa EXCEPT ![e][p] = NoFrame]
      /\ status' = status /\ parent' = parent /\ child' = child /\ left' = left
  BY DEF SysPageUnmap, InUser, IInv, ChildInv, forking
<1>2. \A x \in Env : \A q \in Page : pa'[x][q] = IF x = e /\ q = p THEN NoFrame ELSE pa[x][q]
  BY <1>1 DEF IInv, TypeOK
<1>3. \A x \in Env : \A q \in Page :
        Content(x, q)' = IF x = e /\ q = p THEN NoValue ELSE Content(x, q)
  BY <1>1, <1>2 DEF Content, Mapped
<1>4. \A x \in Env : \A q \in Page :
        View(x, q)' = IF x = e /\ q = p THEN NoValue ELSE View(x, q)
  BY <1>1, <1>3 DEF View, Forked
<1>5. QED  BY <1>1, <1>4 DEF Memory!Unmap

LEMMA ExoforkRefines ==
  ASSUME IInv, NEW e \in Env, NEW c \in Env, SysExofork(e, c)
  PROVE  Memory!Fork(e, c)
<1> USE EnvAssumption
<1>1. /\ status[e] = "live" /\ child[e] = NoEnv /\ status[c] = "free" /\ mem' = mem /\ pa' = pa
      /\ status' = [status EXCEPT ![c] = "embryo"] /\ parent' = [parent EXCEPT ![c] = e]
      /\ child' = [child EXCEPT ![e] = c] /\ left' = [left EXCEPT ![e] = Page]
  BY DEF SysExofork, InUser, IInv, ChildInv, space
<1>2. \A x \in Env : child[x] # c
  BY <1>1 DEF IInv, ChildInv
<1>3. \A x \in Env : \A q \in Page : Content(x, q)' = Content(x, q)
  BY <1>1 DEF Content, Mapped
<1>4. \A q \in Page : View(c, q)' = View(e, q)
  <2>1. status'[c] = "embryo" /\ parent'[c] = e /\ child'[e] = c /\ left'[e] = Page
    BY <1>1 DEF IInv, TypeOK
  <2>2. \A q \in Page : View(c, q)' = Content(e, q)'
    BY <2>1 DEF View, Forked
  <2>3. QED  BY <1>1, <1>3, <2>2 DEF View
<1>5. \A x \in Env : \A q \in Page : x # c => View(x, q)' = View(x, q)
  <2> SUFFICES ASSUME NEW x \in Env, NEW q \in Page, x # c  PROVE View(x, q)' = View(x, q)
    OBVIOUS
  <2>1. status'[x] = status[x] /\ parent'[x] = parent[x]
    BY <1>1 DEF IInv, TypeOK
  <2>2. CASE parent[x] = e
    <3>1. ~Forked(x) /\ ~Forked(x)'
      BY <1>1, <2>1, <2>2 DEF Forked, IInv, TypeOK
    <3>2. QED  BY <1>3, <2>1, <3>1 DEF View, NoValue
  <2>3. CASE parent[x] # e
    <3>1. parent[x] \in Env => child'[parent[x]] = child[parent[x]] /\ left'[parent[x]] = left[parent[x]]
      BY <1>1, <2>3 DEF IInv, TypeOK
    <3>2. QED  BY <1>1, <2>1, <3>1 DEF View, Forked, Content, Mapped, NoValue
  <2>4. QED  BY <2>2, <2>3
<1>6. {x \in Env : status[x] = "live"}' = {x \in Env : status[x] = "live"}
  BY <1>1 DEF IInv, TypeOK
<1> DEFINE view == [x \in Env |-> [q \in Page |-> View(x, q)]]
           live == {x \in Env : status[x] = "live"}
<1>7. view' = [view EXCEPT ![c] = view[e]]
  <2>1. view'[c] = view[e]
    BY <1>4
  <2>2. \A x \in Env : x # c => view'[x] = view[x]
    BY <1>5
  <2>3. QED  BY <2>1, <2>2
<1>8. e \in live /\ c \notin live
  BY <1>1
<1>9. live' = live
  BY <1>6
<1> HIDE DEF view, live
<1>10. Memory!Fork(e, c) <=>
         /\ e \in live /\ c \notin live /\ child[e] = NoEnv
         /\ \A x \in Env : child[x] # c
         /\ view' = [view EXCEPT ![c] = view[e]]
         /\ child' = [child EXCEPT ![e] = c]
         /\ live' = live
  BY DEF Memory!Fork, view, live
<1>11. QED  BY <1>1, <1>2, <1>7, <1>8, <1>9, <1>10

LEMMA StartRefines ==
  ASSUME IInv, NEW e \in Env, ForkStart(e)
  PROVE  Memory!Start(e)
<1> USE EnvAssumption
<1>1. PICK c \in Env : /\ c = child[e] /\ c # e /\ status[e] = "live" /\ status[c] = "embryo"
                      /\ parent[c] = e /\ left[e] = {}
  BY DEF ForkStart, InUser, IInv, ChildInv, StepInv, TypeOK
<1>2. /\ mem' = mem /\ pa' = pa /\ status' = [status EXCEPT ![c] = "live"] /\ parent' = parent
      /\ child' = [child EXCEPT ![e] = NoEnv] /\ left' = left
  BY <1>1 DEF ForkStart, space
<1>3. \A x \in Env : \A q \in Page : View(x, q)' = View(x, q)
  <2> SUFFICES ASSUME NEW x \in Env, NEW q \in Page  PROVE View(x, q)' = View(x, q)
    OBVIOUS
  <2>1. Content(x, q)' = Content(x, q)
    BY <1>2 DEF Content, Mapped
  <2>2. CASE x = c
    <3>1. View(x, q) = Content(x, q)
      BY <1>1, <2>2 DEF View, Forked
    <3>2. View(x, q)' = Content(x, q)'
      BY <1>2, <2>2 DEF View, IInv, TypeOK
    <3>3. QED  BY <2>1, <3>1, <3>2
  <2>3. CASE x # c
    <3>1. status'[x] = status[x]
      BY <1>2, <2>3 DEF IInv, TypeOK
    <3>2. Forked(x)' <=> Forked(x)
      BY <1>1, <1>2, <2>3 DEF Forked, IInv, TypeOK
    <3>3. QED  BY <1>2, <2>1, <3>1, <3>2 DEF View, Forked, Content, Mapped, NoValue
  <2>4. QED  BY <2>2, <2>3
<1>4. {x \in Env : status[x] = "live"}' = {x \in Env : status[x] = "live"} \cup {c}
  BY <1>1, <1>2 DEF IInv, TypeOK
<1>5. QED  BY <1>1, <1>2, <1>3, <1>4 DEF Memory!Start

LEMMA ExitRefines ==
  ASSUME IInv, NEW e \in Env, Exit(e)
  PROVE  Memory!Exit(e)
<1> USE EnvAssumption
<1>1. /\ status[e] = "live" /\ mem' = mem /\ pa' = [pa EXCEPT ![e] = [p \in Page |-> NoFrame]]
      /\ status' = [status EXCEPT ![e] = "free"] /\ parent' = parent
      /\ child' = [child EXCEPT ![e] = NoEnv] /\ left' = [left EXCEPT ![e] = {}]
  BY DEF Exit
<1>2. \A x \in Env : \A q \in Page : x # e => Content(x, q)' = Content(x, q)
  BY <1>1 DEF Content, Mapped, IInv, TypeOK
<1>3. \A x \in Env : \A q \in Page :
        View(x, q)' = IF x = e \/ x = child[e] THEN NoValue ELSE View(x, q)
  <2> SUFFICES ASSUME NEW x \in Env, NEW q \in Page
               PROVE  View(x, q)' = IF x = e \/ x = child[e] THEN NoValue ELSE View(x, q)
    OBVIOUS
  <2>1. CASE x = e
    <3>1. status'[e] # "live"
      BY <1>1 DEF IInv, TypeOK
    <3>2. ~Forked(x)'
      <4>1. \A y \in Env : child[y] # e
        BY <1>1 DEF IInv, ChildInv
      <4>2. \A y \in Env : child'[y] # e
        BY <1>1, <4>1 DEF IInv, TypeOK
      <4>3. QED  BY <1>1, <2>1, <4>2 DEF Forked
    <3>3. QED  BY <2>1, <3>1, <3>2 DEF View
  <2>2. CASE x = child[e] /\ x # e
    <3>1. status'[x] # "live" /\ parent'[x] = e /\ child'[e] = NoEnv
      BY <1>1, <2>2 DEF IInv, ChildInv, TypeOK
    <3>2. QED  BY <2>2, <3>1 DEF View, Forked
  <2>3. CASE x # e /\ x # child[e]
    <3>1. status'[x] = status[x] /\ parent'[x] = parent[x]
      BY <1>1, <2>3 DEF IInv, TypeOK
    <3>2. CASE parent[x] = e
      <4>1. ~Forked(x) /\ ~Forked(x)'
        BY <1>1, <2>3, <3>1, <3>2 DEF Forked, IInv, TypeOK
      <4>2. QED  BY <1>2, <2>3, <3>1, <4>1 DEF View, NoValue
    <3>3. CASE parent[x] # e
      <4>1. parent[x] \in Env => child'[parent[x]] = child[parent[x]] /\ left'[parent[x]] = left[parent[x]]
        BY <1>1, <3>3 DEF IInv, TypeOK
      <4>2. pa'[x][q] = pa[x][q] /\ (parent[x] \in Env => pa'[parent[x]][q] = pa[parent[x]][q])
        BY <1>1, <2>3, <3>3 DEF IInv, TypeOK
      <4>3. QED  BY <1>1, <2>3, <3>1, <4>1, <4>2 DEF View, Forked, Content, Mapped, NoValue
    <3>4. QED  BY <3>2, <3>3
  <2>4. QED  BY <2>1, <2>2, <2>3
<1>4. {x \in Env : status[x] = "live"}' = {x \in Env : status[x] = "live"} \ {e}
  BY <1>1 DEF IInv, TypeOK
<1>5. QED  BY <1>1, <1>3, <1>4 DEF Memory!Exit, Memory!Nothing

LEMMA InitRefines == Init => Memory!Init
<1> SUFFICES ASSUME Init  PROVE Memory!Init
  OBVIOUS
<1>1. \A x \in Env : \A q \in Page : View(x, q) = NoValue
  BY EnvAssumption DEF Init, View, Forked, Content, Mapped
<1>2. {x \in Env : status[x] = "live"} = {Root}
  BY EnvAssumption DEF Init
<1>3. QED  BY <1>1, <1>2 DEF Init, Memory!Init, Memory!Nothing

LEMMA NextRefines == IInv /\ [Next]_vars => [Memory!Next]_(Memory!fmVars)
<1>1. ASSUME IInv, NEW e \in Env, NEW p \in Page,
             \/ \E v \in Value : Store(e, p, v)
             \/ \E bits \in {"W", "RO", "SHARE"} : SysPageAlloc(e, p, bits)
             \/ SysPageUnmap(e, p)
      PROVE  Memory!Next
  BY <1>1, StoreRefines, AllocRefines, UnmapRefines DEF Memory!Next
<1>2. ASSUME IInv, NEW e \in Env,
             (\E c \in Env : SysExofork(e, c)) \/ ForkStart(e) \/ Exit(e)
      PROVE  Memory!Next
  BY <1>2, ExoforkRefines, StartRefines, ExitRefines DEF Memory!Next
<1>3. ASSUME IInv, NEW e \in Env,
             \/ \E p \in Page : Fault(e, p) \/ WalkPast(e, p) \/ Walk(e, p) \/ Protect(e, p)
             \/ PgfaultAlloc(e) \/ PgfaultCopy(e) \/ PgfaultMap(e) \/ PgfaultUnmap(e)
             \/ SetPgfaultHandler(e) \/ DupAsIs(e) \/ DupCow(e) \/ DupOwn(e)
             \/ ForkExceptionStack(e) \/ ForkUpcall(e)
      PROVE  UNCHANGED Memory!fmVars
  BY <1>3, QuietSteps, PgfaultSteps, LoopSteps
<1>4. ASSUME UNCHANGED vars  PROVE UNCHANGED Memory!fmVars
  BY <1>4, SpaceSameStep DEF vars, space, forking
<1>5. QED  BY <1>1, <1>2, <1>3, <1>4 DEF Next

\* fork() with copy on write is a fork() that copies: what an environment
\* finds in its memory is what ForkMemory says, for any number of environments
\* and pages, however their faults and calls are interleaved.
THEOREM ForkCopiesMemory == Spec => ImplementsForkMemory
<1>1. Spec => Memory!Spec
  BY Invariance, InitRefines, NextRefines, PTL DEF Spec, Memory!Spec
<1>2. QED  BY <1>1 DEF ImplementsForkMemory

-----------------------------------------------------------------------------
(***************************************************************************)
(* UserFault: the stacks of code interrupted by page faults, of any size   *)
(* and for faults nested to any depth.                                     *)
(*                                                                         *)
(* The inductive invariant.  Code of context i is what runs (0) or was     *)
(* interrupted; that of i handles the fault of i + 1, whose frame is       *)
(* FrameOf(i + 1), and the last is user code.                              *)
(***************************************************************************)
Context(i) == IF i = 0 THEN cpu ELSE saved[i].cpu
FrameOf(i) == FrameAt(Context(i).esp)

Stacks == UNION {[D -> Nat] : D \in SUBSET Words}
Interrupted == [cpu : Registers, stack : Stacks]

Types ==
  /\ alive \in BOOLEAN
  /\ cpu \in Registers
  /\ word \in [Words -> Nat]
  /\ saved \in Seq(Interrupted)
  /\ \A i \in 1 .. Len(saved) : saved[i].stack \in [Live(saved[i].cpu) -> Nat]

\* How far its code is, and where that has the stack.
Handles(c, utf) ==
  \/ c.eip = Upcall /\ c.esp = utf
  \/ c.eip = Handler /\ c.esp + c.eax + 2 = utf /\ word[utf - 2] = Back
  \/ c.eip = Back /\ c.esp = utf - 1
  \/ c.eip = Write /\ c.esp = utf

\* What of the interrupted code's registers is in the frame, and what the last
\* part of the upcall has loaded of it.
HasRegisters(c, s, utf) ==
  /\ word[utf + REGS] = s.eax /\ word[utf + REGS + 1] = s.edx
  /\ word[utf + EIP] = s.eip /\ word[utf + EFLAGS] = s.eflags
  /\ IF c.eip = Write
     THEN word[utf + ESP] = s.esp - 1 /\ c.eax = s.esp - 1 /\ c.edx = s.eip
     ELSE word[utf + ESP] = s.esp

Chain ==
  \A i \in 0 .. Len(saved) - 1 :
    /\ OnXStack(Context(i).esp) /\ OnXStack(FrameOf(i + 1))
    /\ Handles(Context(i), FrameOf(i + 1))
    /\ HasRegisters(Context(i), Context(i + 1), FrameOf(i + 1))

UserLast ==
  /\ Context(Len(saved)).eip \in User
  /\ Context(Len(saved)).esp \in 1 .. USTACKTOP

\* What handles a fault is below its frame, and so is all that handles faults
\* in that.
Nested == \A i, j \in 0 .. Len(saved) : i < j => Context(i).esp <= FrameOf(j)

Kept == \A i \in 1 .. Len(saved) : \A a \in Live(saved[i].cpu) : word[a] = saved[i].stack[a]

StacksInv == Types /\ Chain /\ UserLast /\ Nested /\ Kept

USE StackAssumption, GapAssumption, UserAssumption
DEF USTACKTOP, XBOTTOM, UXSTACKTOP, OnXStack, OnUStack, SIZE, REGS, EIP, EFLAGS, ESP,
    Upcall, Handler, Back, Write

-----------------------------------------------------------------------------
(***************************************************************************)
(* Lemmas                                                                  *)
(***************************************************************************)
LEMMA Lengths == ASSUME Types PROVE Len(saved) \in Nat
  BY LenProperties DEF Types

LEMMA Contexts ==
  ASSUME Types
  PROVE  /\ \A i \in 0 .. Len(saved) : Context(i) \in Registers
         /\ \A i \in 1 .. Len(saved) : Context(i) = saved[i].cpu
  <1>1. Len(saved) \in Nat
    BY Lengths
  <1>2. \A i \in 1 .. Len(saved) : saved[i] \in Interrupted
    BY ElementOfSeq DEF Types
  <1>3. \A i \in 1 .. Len(saved) : saved[i].cpu \in Registers
    BY <1>2 DEF Interrupted
  <1>4. \A i \in 1 .. Len(saved) : Context(i) = saved[i].cpu
    BY <1>1 DEF Context
  <1>5. Context(0) \in Registers
    BY DEF Context, Types
  <1>6. \A i \in 0 .. Len(saved) : i = 0 \/ i \in 1 .. Len(saved)
    BY <1>1
  <1> QED
    BY <1>3, <1>4, <1>5, <1>6

\* Where the contexts and their frames are.
LEMMA Apart ==
  ASSUME StacksInv
  PROVE  /\ \A i \in 0 .. Len(saved) - 1 : OnXStack(Context(i).esp)
         /\ \A i \in 1 .. Len(saved) - 1 : FrameOf(i) = Context(i).esp - SIZE - 1
         /\ Len(saved) > 0 => FrameOf(Len(saved)) = UXSTACKTOP - SIZE
         /\ \A i \in 1 .. Len(saved) : FrameOf(i) \in XBOTTOM .. UXSTACKTOP - SIZE
         /\ \A i, j \in 0 .. Len(saved) :
              i < j => Context(i).esp <= FrameOf(j) /\ (j < Len(saved) => Context(i).esp < Context(j).esp)
  <1>1. Len(saved) \in Nat /\ \A i \in 0 .. Len(saved) : Context(i).esp \in Nat
    BY Lengths, Contexts DEF StacksInv, Registers
  <1>2. \A i \in 0 .. Len(saved) - 1 : OnXStack(Context(i).esp)
    BY DEF StacksInv, Chain
  <1>3. \A i \in 1 .. Len(saved) - 1 : FrameOf(i) = Context(i).esp - SIZE - 1
    BY <1>1, <1>2 DEF FrameOf, FrameAt
  <1>4. Len(saved) > 0 => FrameOf(Len(saved)) = UXSTACKTOP - SIZE
    BY <1>1 DEF FrameOf, FrameAt, StacksInv, UserLast
  <1>5. \A i \in 1 .. Len(saved) : OnXStack(FrameOf(i))
    <2> SUFFICES ASSUME NEW i \in 1 .. Len(saved) PROVE OnXStack(FrameOf(i))
      OBVIOUS
    <2>1. i - 1 \in 0 .. Len(saved) - 1 /\ (i - 1) + 1 = i
      BY <1>1
    <2> QED
      BY <2>1 DEF StacksInv, Chain
  <1>6. \A i \in 1 .. Len(saved) : FrameOf(i) \in XBOTTOM .. UXSTACKTOP - SIZE
    <2> SUFFICES ASSUME NEW i \in 1 .. Len(saved) PROVE FrameOf(i) \in XBOTTOM .. UXSTACKTOP - SIZE
      OBVIOUS
    <2>1. OnXStack(FrameOf(i)) /\ i \in 0 .. Len(saved)
      BY <1>1, <1>5
    <2>2. CASE i = Len(saved)
      BY <1>1, <1>4, <2>1, <2>2
    <2>3. CASE i < Len(saved)
      <3>1. i \in 1 .. Len(saved) - 1 /\ i \in 0 .. Len(saved) - 1
        BY <1>1, <2>3
      <3>2. FrameOf(i) = Context(i).esp - SIZE - 1 /\ OnXStack(Context(i).esp) /\ Context(i).esp \in Nat
        BY <1>1, <1>2, <1>3, <2>1, <3>1
      <3> QED
        BY <2>1, <3>2
    <2> QED
      BY <1>1, <2>2, <2>3
  <1>7. \A i, j \in 0 .. Len(saved) : i < j => Context(i).esp <= FrameOf(j)
    BY DEF StacksInv, Nested
  <1>8. \A i, j \in 0 .. Len(saved) : i < j /\ j < Len(saved) => Context(i).esp < Context(j).esp
    BY <1>1, <1>3, <1>7
  <1> QED
    BY <1>2, <1>3, <1>4, <1>6, <1>7, <1>8

\* What is on the stack of the exception stack's code, and of user code.
LEMMA LiveWords ==
  ASSUME NEW c, c.esp \in Nat
  PROVE  /\ Live(c) \subseteq Words
         /\ OnXStack(c.esp) => Live(c) = c.esp .. UXSTACKTOP - 1
         /\ c.esp \in 1 .. USTACKTOP => Live(c) = c.esp .. USTACKTOP - 1
  BY DEF Live, Words

LEMMA TypesGiveTypeOK == Types => FaultTypeOK
  <1> SUFFICES ASSUME Types PROVE FaultTypeOK
    OBVIOUS
  <1>1. DOMAIN saved = 1 .. Len(saved)
    BY LenProperties DEF Types
  <1>2. \A i \in 1 .. Len(saved) : saved[i].cpu \in Registers
    BY Lengths, Contexts
  <1> QED
    BY <1>1, <1>2 DEF Types, FaultTypeOK

\* A word of the stacks that Kept or the frames of the contexts above the
\* first speak of.
Fixed(a) == a \in Live(Context(1)) \/ OnUStack(a)

LEMMA LiveIsFixed ==
  ASSUME StacksInv, NEW i \in 1 .. Len(saved), NEW a \in Live(saved[i].cpu)
  PROVE  Fixed(a) /\ a \in Words
  <1>1. Len(saved) \in Nat /\ Context(i) = saved[i].cpu /\ Context(i) \in Registers
         /\ 1 \in 1 .. Len(saved) /\ Context(1) \in Registers
    BY Lengths, Contexts DEF StacksInv
  <1>2. a \in Words
    BY <1>1, LiveWords DEF Registers
  <1>3. CASE i = Len(saved)
    BY SMTT(40), <1>1, <1>3, LiveWords DEF StacksInv, UserLast, Registers, Fixed
  <1>4. CASE i < Len(saved) /\ i # 1
    <2>1. OnXStack(Context(i).esp) /\ OnXStack(Context(1).esp) /\ Context(1).esp < Context(i).esp
      BY <1>1, <1>4, Apart
    <2>2. Live(Context(i)) = Context(i).esp .. UXSTACKTOP - 1 /\ Live(Context(1)) = Context(1).esp .. UXSTACKTOP - 1
      BY <1>1, <2>1, LiveWords DEF Registers
    <2> QED
      BY SMTT(40), <1>1, <1>2, <2>1, <2>2 DEF Fixed, Registers
  <1>5. CASE i = 1
    BY <1>1, <1>2, <1>5 DEF Fixed
  <1> QED
    BY <1>1, <1>3, <1>4, <1>5

LEMMA FromFirst ==
  ASSUME StacksInv, NEW i \in 1 .. Len(saved) - 1, NEW a \in Context(i).esp .. UXSTACKTOP - 1
  PROVE  Fixed(a) /\ a \in Words
  <1>1. Len(saved) \in Nat /\ Context(i) \in Registers /\ Context(i) = saved[i].cpu
    BY Lengths, Contexts DEF StacksInv
  <1>2. OnXStack(Context(i).esp)
    BY <1>1, Apart
  <1>3. a \in Live(saved[i].cpu)
    BY <1>1, <1>2, LiveWords DEF Registers
  <1>4. i \in 1 .. Len(saved)
    BY <1>1
  <1> QED
    BY <1>3, <1>4, LiveIsFixed

LEMMA FrameIsFixed ==
  ASSUME StacksInv, NEW i \in 1 .. Len(saved) - 1, NEW w \in FrameOf(i + 1) .. FrameOf(i + 1) + ESP
  PROVE  Fixed(w) /\ w \in Words
  <1>1. Len(saved) \in Nat /\ Context(i).esp \in Nat
    BY Lengths, Contexts DEF StacksInv, Registers
  <1>2. i \in 0 .. Len(saved) /\ i + 1 \in 0 .. Len(saved) /\ i + 1 \in 1 .. Len(saved) /\ i < i + 1
    BY <1>1
  <1>3. FrameOf(i + 1) \in XBOTTOM .. UXSTACKTOP - SIZE /\ Context(i).esp <= FrameOf(i + 1)
    BY <1>2, Apart
  <1> QED
    BY <1>1, <1>3, FromFirst

LEMMA ReturnIsFixed ==
  ASSUME StacksInv, NEW i \in 1 .. Len(saved) - 1, Context(i).eip = Handler
  PROVE  Fixed(FrameOf(i + 1) - 2) /\ FrameOf(i + 1) - 2 \in Words
  <1>1. Len(saved) \in Nat /\ Context(i).esp \in Nat /\ Context(i).eax \in Nat
    BY SMTT(40), Lengths, Contexts DEF StacksInv, Registers
  <1>2. Context(i).esp + Context(i).eax + 2 = FrameOf(i + 1)
    BY DEF StacksInv, Chain, Handles
  <1>3. FrameOf(i + 1) \in XBOTTOM .. UXSTACKTOP - SIZE
    BY <1>1, Apart
  <1> QED
    BY <1>1, <1>2, <1>3, FromFirst

\* Steps of a handler and of the upcall.
LEMMA WithinHandler ==
  ASSUME StacksInv, Len(saved) > 0, saved' = saved, alive' \in BOOLEAN,
         cpu' \in Registers, word' \in [Words -> Nat],
         OnXStack(cpu'.esp), cpu'.esp <= FrameOf(1),
         Handles(cpu, FrameOf(1))', HasRegisters(cpu, Context(1), FrameOf(1))',
         \A a \in Words : Fixed(a) => word'[a] = word[a]
  PROVE  StacksInv'
  <1> DEFINE n == Len(saved)
  <1>1. n \in Nat /\ n > 0
    BY Lengths DEF StacksInv
  <1>2. Context(0)' = cpu' /\ \A i \in 1 .. n : Context(i)' = Context(i) /\ FrameOf(i)' = FrameOf(i)
    BY <1>1 DEF Context, FrameOf
  <1>3. Types'
    BY DEF StacksInv, Types
  <1>4. Nested'
    <2> SUFFICES ASSUME NEW i \in 0 .. n, NEW j \in 0 .. n, i < j
                 PROVE  Context(i).esp' <= FrameOf(j)'
      BY DEF Nested
    <2>1. j \in 1 .. n /\ FrameOf(j)' = FrameOf(j)
      BY <1>1, <1>2
    <2>2. CASE i # 0
      BY <1>1, <1>2, <2>1, <2>2 DEF StacksInv, Nested
    <2>3. CASE i = 0
      <3>1. 1 \in 0 .. n /\ 1 \in 1 .. n /\ cpu'.esp \in Nat
        BY <1>1 DEF Registers
      <3>4. Context(1).esp \in Nat
        BY <3>1, Contexts DEF StacksInv, Registers
      <3>2. j = 1 \/ (FrameOf(1) < Context(1).esp /\ Context(1).esp <= FrameOf(j))
        <4>1. CASE j > 1
          <5>1. 1 \in 1 .. n - 1 /\ j \in 0 .. n
            BY <1>1, <2>1, <4>1
          <5> QED
            BY <3>1, <3>4, <4>1, <5>1, Apart
        <4> QED
          BY <2>1, <4>1
      <3>3. FrameOf(1) \in Nat /\ FrameOf(j) \in Nat
        BY <1>1, <2>1, Apart
      <3> QED
        BY <1>2, <2>1, <2>3, <3>1, <3>2, <3>3, <3>4
    <2> QED
      BY <2>2, <2>3
  <1>5. UserLast'
    BY <1>1, <1>2 DEF StacksInv, UserLast
  <1>6. Kept'
    <2> SUFFICES ASSUME NEW i \in 1 .. n, NEW a \in Live(saved[i].cpu)
                 PROVE  word'[a] = saved[i].stack[a]
      BY DEF Kept
    <2>1. Fixed(a) /\ a \in Words
      BY LiveIsFixed
    <2> QED
      BY <2>1 DEF StacksInv, Kept
  <1>7. Chain'
    <2> SUFFICES ASSUME NEW i \in 0 .. n - 1
                 PROVE  /\ OnXStack(Context(i).esp)' /\ OnXStack(FrameOf(i + 1))'
                        /\ Handles(Context(i), FrameOf(i + 1))'
                        /\ HasRegisters(Context(i), Context(i + 1), FrameOf(i + 1))'
      BY DEF Chain
    <2>1. CASE i = 0
      <3>1. OnXStack(FrameOf(1))
        BY <1>1, Apart
      <3> QED
        BY <2>1, <3>1, <1>1, <1>2 DEF Handles, HasRegisters
    <2>2. CASE i # 0
      <3>1. /\ OnXStack(Context(i).esp) /\ OnXStack(FrameOf(i + 1))
            /\ Handles(Context(i), FrameOf(i + 1))
            /\ HasRegisters(Context(i), Context(i + 1), FrameOf(i + 1))
        BY DEF StacksInv, Chain
      <3>2. i \in 1 .. n - 1 /\ i + 1 \in 1 .. n
        BY <1>1, <2>2
      <3>3. Context(i)' = Context(i) /\ Context(i + 1)' = Context(i + 1) /\ FrameOf(i + 1)' = FrameOf(i + 1)
        BY <1>2, <3>2
      <3>4. \A w \in FrameOf(i + 1) .. FrameOf(i + 1) + ESP : word'[w] = word[w]
        BY <3>2, FrameIsFixed
      <3>5. Context(i).eip = Handler => word'[FrameOf(i + 1) - 2] = word[FrameOf(i + 1) - 2]
        BY <3>1, <3>2, ReturnIsFixed
      <3>6. FrameOf(i + 1) \in Nat
        BY <3>1
      <3>7. Handles(Context(i), FrameOf(i + 1))'
        BY <3>1, <3>3, <3>5 DEF Handles
      <3>8. HasRegisters(Context(i), Context(i + 1), FrameOf(i + 1))'
        <4> DEFINE utf == FrameOf(i + 1)
        <4>1. /\ word'[utf + REGS] = word[utf + REGS] /\ word'[utf + REGS + 1] = word[utf + REGS + 1]
              /\ word'[utf + EIP] = word[utf + EIP] /\ word'[utf + EFLAGS] = word[utf + EFLAGS]
              /\ word'[utf + ESP] = word[utf + ESP]
          <5>1. {utf + REGS, utf + REGS + 1, utf + EIP, utf + EFLAGS, utf + ESP} \subseteq utf .. utf + ESP
            BY SMTT(40), <3>6
          <5> QED
            BY <3>4, <5>1
        <4> QED
          BY <3>1, <3>3, <4>1 DEF HasRegisters
      <3> QED
        BY <3>1, <3>3, <3>7, <3>8
    <2> QED
      BY <2>1, <2>2
  <1> QED
    BY <1>3, <1>4, <1>5, <1>6, <1>7 DEF StacksInv

\* A fault: what runs becomes the first of what is interrupted.
LEMMA Interrupts ==
  ASSUME StacksInv, PushFrame, saved' = <<Now>> \o saved, UNCHANGED alive
  PROVE  StacksInv'
  <1> DEFINE n == Len(saved)
             utf == FrameAt(cpu.esp)
  <1>1. /\ n \in Nat /\ cpu \in Registers /\ cpu.esp \in Nat /\ Context(0) = cpu
        /\ word \in [Words -> Nat]
    BY Lengths DEF StacksInv, Types, Registers, Context
  <1>2. IF n = 0 THEN cpu.esp \in 1 .. USTACKTOP ELSE OnXStack(cpu.esp)
    <2>1. CASE n = 0
      BY <1>1, <2>1 DEF StacksInv, UserLast
    <2>2. CASE n > 0
      <3>1. 0 \in 0 .. n - 1
        BY <1>1, <2>2
      <3> QED
        BY <1>1, <2>2, <3>1, Apart
    <2> QED
      BY <1>1, <2>1, <2>2
  <1>3. /\ utf \in XBOTTOM .. UXSTACKTOP - SIZE
        /\ n > 0 => utf + SIZE < cpu.esp
    <2>1. OnXStack(utf)
      BY DEF PushFrame
    <2>2. CASE OnXStack(cpu.esp)
      BY <1>1, <2>1, <2>2 DEF FrameAt
    <2>3. CASE n = 0 /\ cpu.esp \in 1 .. USTACKTOP
      <3>1. utf = UXSTACKTOP - SIZE
        BY <1>1, <2>3 DEF FrameAt
      <3> QED
        BY <2>1, <2>3, <3>1
    <2> QED
      BY <1>1, <1>2, <2>2, <2>3
  <1>4. utf .. utf + ESP \subseteq Words
    BY <1>3 DEF Words
  <1>5. /\ word' \in [Words -> Nat] /\ cpu' \in Registers
        /\ cpu'.eip = Upcall /\ cpu'.esp = utf
        /\ \A a \in Words \ (utf .. utf + ESP) : word'[a] = word[a]
        /\ word'[utf + REGS] = cpu.eax /\ word'[utf + REGS + 1] = cpu.edx
        /\ word'[utf + EIP] = cpu.eip /\ word'[utf + EFLAGS] = cpu.eflags
        /\ word'[utf + ESP] = cpu.esp
    <2>1. {utf + REGS, utf + REGS + 1, utf + EIP, utf + EFLAGS, utf + ESP} \subseteq Words
          /\ utf \in Nat
      BY <1>3, <1>4
    <2>2. cpu.eax \in Nat /\ cpu.edx \in Nat /\ cpu.eip \in Nat /\ cpu.eflags \in Nat
      BY <1>1 DEF Registers
    <2>3. cpu' = [cpu EXCEPT !.eip = Upcall, !.esp = utf]
      BY DEF PushFrame
    <2>4. word' = [word EXCEPT ![utf + REGS] = cpu.eax, ![utf + REGS + 1] = cpu.edx,
                             ![utf + EIP] = cpu.eip, ![utf + EFLAGS] = cpu.eflags,
                             ![utf + ESP] = cpu.esp]
      BY DEF PushFrame
    <2> HIDE DEF utf
    <2>5. cpu' \in Registers /\ cpu'.eip = Upcall /\ cpu'.esp = utf
      BY <1>1, <2>1, <2>3 DEF Registers
    <2>6. word' \in [Words -> Nat]
      BY <1>1, <2>2, <2>4
    <2>7. /\ \A a \in Words \ (utf .. utf + ESP) : word'[a] = word[a]
          /\ word'[utf + REGS] = cpu.eax /\ word'[utf + REGS + 1] = cpu.edx
          /\ word'[utf + EIP] = cpu.eip /\ word'[utf + EFLAGS] = cpu.eflags
          /\ word'[utf + ESP] = cpu.esp
      BY SMTT(40), <1>1, <2>1, <2>4
    <2> QED
      BY <2>5, <2>6, <2>7
  <1>6. /\ Now \in Interrupted /\ Now.cpu = cpu
        /\ Now.stack \in [Live(cpu) -> Nat]
        /\ \A a \in Live(cpu) : Now.stack[a] = word[a] /\ a \in Words
    <2>1. Live(cpu) \in SUBSET Words
      BY <1>1, LiveWords
    <2>2. [a \in Live(cpu) |-> word[a]] \in [Live(cpu) -> Nat]
      BY <1>1, <2>1
    <2>3. [a \in Live(cpu) |-> word[a]] \in Stacks
      BY <2>1, <2>2 DEF Stacks
    <2> QED
      BY <1>1, <2>1, <2>2, <2>3 DEF Now, Interrupted
  <1>7. /\ saved' \in Seq(Interrupted) /\ Len(saved') = n + 1
        /\ saved'[1] = Now /\ \A i \in 1 .. n : saved'[i + 1] = saved[i]
    <2>1. <<Now>> \in Seq(Interrupted) /\ Len(<<Now>>) = 1 /\ <<Now>>[1] = Now
      BY <1>6
    <2>2. saved \in Seq(Interrupted)
      BY DEF StacksInv, Types
    <2>3. /\ <<Now>> \o saved \in Seq(Interrupted)
          /\ Len(<<Now>> \o saved) = 1 + n
          /\ \A i \in 1 .. 1 + n : (<<Now>> \o saved)[i] = IF i <= 1 THEN <<Now>>[i] ELSE saved[i - 1]
      BY <2>1, <2>2, ConcatProperties
    <2> QED
      BY <1>1, <2>1, <2>3
  <1>8. /\ Context(0)' = cpu' /\ Context(1)' = cpu
        /\ \A i \in 0 .. n : Context(i + 1)' = Context(i)
    BY <1>1, <1>6, <1>7 DEF Context
  <1>9. /\ FrameOf(1)' = utf /\ \A i \in 1 .. n : FrameOf(i + 1)' = FrameOf(i)
    BY <1>1, <1>8 DEF FrameOf
  <1>10. Types'
    <2>1. ASSUME NEW i \in 1 .. n + 1 PROVE saved'[i].stack \in [Live(saved'[i].cpu) -> Nat]
      <3>1. CASE i = 1
        BY <1>6, <1>7, <3>1
      <3>2. CASE i # 1
        <4>1. i - 1 \in 1 .. n /\ (i - 1) + 1 = i
          BY <1>1, <3>2
        <4>2. saved'[i] = saved[i - 1]
          BY <1>7, <4>1
        <4> QED
          BY <4>1, <4>2 DEF StacksInv, Types
      <3> QED
        BY <3>1, <3>2
    <2> QED
      BY <1>5, <1>7, <2>1 DEF StacksInv, Types, Live
  <1>11. ASSUME NEW j \in 0 .. n - 1
         PROVE  /\ \A a \in FrameOf(j + 1) .. FrameOf(j + 1) + ESP : word'[a] = word[a]
                /\ Context(j).eip = Handler => word'[FrameOf(j + 1) - 2] = word[FrameOf(j + 1) - 2]
    <2>1. /\ j + 1 \in 1 .. n /\ 0 \in 0 .. n /\ j \in 0 .. n /\ j + 1 \in 0 .. n /\ n > 0
      BY <1>1
    <2>2. Context(j).esp \in Nat /\ Context(j).eax \in Nat
      BY <2>1, Contexts DEF StacksInv, Registers
    <2>3. FrameOf(j + 1) \in XBOTTOM .. UXSTACKTOP - SIZE /\ cpu.esp <= FrameOf(j + 1)
      BY <1>1, <2>1, Apart
    <2>4. cpu.esp <= Context(j).esp
      <3>1. CASE j = 0
        BY <1>1, <3>1
      <3>2. CASE j > 0
        BY SMTT(40), <1>1, <2>1, <2>2, <3>2, Apart
      <3> QED
        BY <3>1, <3>2
    <2>5. Context(j).eip = Handler => Context(j).esp + Context(j).eax + 2 = FrameOf(j + 1)
      BY DEF StacksInv, Chain, Handles
    <2>6. \A a \in cpu.esp .. UXSTACKTOP - 1 : a \in Words \ (utf .. utf + ESP)
      BY <1>1, <1>2, <1>3, <2>1 DEF Words
    <2>7. \A a \in cpu.esp .. UXSTACKTOP - 1 : word'[a] = word[a]
      BY <1>5, <2>6
    <2>8. FrameOf(j + 1) .. FrameOf(j + 1) + ESP \subseteq cpu.esp .. UXSTACKTOP - 1
      BY <1>1, <2>3
    <2>9. Context(j).eip = Handler => FrameOf(j + 1) - 2 \in cpu.esp .. UXSTACKTOP - 1
      <3>1. Context(j).eip = Handler => FrameOf(j + 1) - 2 >= Context(j).esp
        BY <2>2, <2>3, <2>5
      <3> QED
        BY SMTT(40), <1>1, <2>2, <2>3, <2>4, <3>1
    <2> QED
      BY <2>7, <2>8, <2>9
  <1>12. Chain'
    <2> SUFFICES ASSUME NEW i \in 0 .. n
                 PROVE  /\ OnXStack(Context(i).esp)' /\ OnXStack(FrameOf(i + 1))'
                        /\ Handles(Context(i), FrameOf(i + 1))'
                        /\ HasRegisters(Context(i), Context(i + 1), FrameOf(i + 1))'
      <3>1. 0 .. Len(saved') - 1 = 0 .. n
        BY <1>1, <1>7
      <3> QED
        BY <3>1 DEF Chain
    <2>1. CASE i = 0
      BY SMTT(40), <1>3, <1>5, <1>8, <1>9, <2>1 DEF Handles, HasRegisters
    <2>2. CASE i # 0
      <3> DEFINE j == i - 1
      <3>1. j \in 0 .. n - 1 /\ j \in 0 .. n /\ j + 1 \in 1 .. n /\ j + 1 = i
        BY <1>1, <2>2
      <3>2. /\ Context(i)' = Context(j) /\ Context(i + 1)' = Context(j + 1)
            /\ FrameOf(i + 1)' = FrameOf(j + 1)
        BY <1>8, <1>9, <3>1
      <3>3. /\ OnXStack(Context(j).esp) /\ OnXStack(FrameOf(j + 1))
            /\ Handles(Context(j), FrameOf(j + 1))
            /\ HasRegisters(Context(j), Context(j + 1), FrameOf(j + 1))
        BY <3>1 DEF StacksInv, Chain
      <3>4. FrameOf(j + 1) \in Nat
        BY <3>3
      <3> HIDE DEF j
      <3>5. Handles(Context(i), FrameOf(i + 1))'
        BY <1>11, <3>1, <3>2, <3>3 DEF Handles
      <3>6. HasRegisters(Context(i), Context(i + 1), FrameOf(i + 1))'
        <4> DEFINE F == FrameOf(j + 1)
        <4>1. {F + REGS, F + REGS + 1, F + EIP, F + EFLAGS, F + ESP} \subseteq F .. F + ESP
          BY <3>4
        <4>2. /\ word'[F + REGS] = word[F + REGS] /\ word'[F + REGS + 1] = word[F + REGS + 1]
              /\ word'[F + EIP] = word[F + EIP] /\ word'[F + EFLAGS] = word[F + EFLAGS]
              /\ word'[F + ESP] = word[F + ESP]
          BY <1>11, <3>1, <4>1
        <4> QED
          BY <3>2, <3>3, <4>2 DEF HasRegisters
      <3> QED
        BY <3>2, <3>3, <3>5, <3>6
    <2> QED
      BY <2>1, <2>2
  <1>13. UserLast'
    <2>1. PICK m \in 0 .. n : m = n
      BY <1>1
    <2>2. Context(m + 1)' = Context(m)
      BY <1>8
    <2>3. saved'[m + 1].cpu = Context(m) /\ m + 1 # 0
      BY <2>2 DEF Context
    <2> QED
      BY <1>7, <2>1, <2>3 DEF StacksInv, UserLast, Context
  <1>14. Nested'
    <2> SUFFICES ASSUME NEW i \in 0 .. n + 1, NEW j \in 0 .. n + 1, i < j
                 PROVE  Context(i)'.esp <= FrameOf(j)'
      BY <1>7 DEF Nested
    <2>1. CASE i > 0
      <3>1. i - 1 \in 0 .. n /\ j - 1 \in 1 .. n /\ j - 1 \in 0 .. n /\ i - 1 < j - 1
            /\ (i - 1) + 1 = i /\ (j - 1) + 1 = j
        BY <1>1, <2>1
      <3>2. Context(i)' = Context(i - 1) /\ FrameOf(j)' = FrameOf(j - 1)
        BY <1>8, <1>9, <3>1
      <3> QED
        BY <3>1, <3>2 DEF StacksInv, Nested
    <2>2. CASE i = 0 /\ j = 1
      BY <1>3, <1>5, <1>8, <1>9, <2>2
    <2>3. CASE i = 0 /\ j > 1
      <3>1. j - 1 \in 1 .. n /\ 0 < j - 1 /\ (j - 1) + 1 = j /\ 0 \in 0 .. n /\ j - 1 \in 0 .. n /\ n > 0
        BY <1>1, <2>3
      <3>2. FrameOf(j)' = FrameOf(j - 1) /\ cpu.esp <= FrameOf(j - 1) /\ FrameOf(j - 1) \in Nat
        BY <1>1, <1>9, <3>1, Apart
      <3>3. utf \in Nat /\ utf < cpu.esp
        BY <1>1, <1>3, <3>1
      <3>4. Context(i)'.esp = utf
        BY <1>5, <1>8, <2>3
      <3> HIDE DEF utf
      <3> QED
        BY <1>1, <3>2, <3>3, <3>4
    <2> QED
      BY <1>1, <2>1, <2>2, <2>3
  <1>15. Kept'
    <2> SUFFICES ASSUME NEW i \in 1 .. n + 1, NEW a \in Live(saved'[i].cpu)
                 PROVE  word'[a] = saved'[i].stack[a]
      BY <1>7 DEF Kept, Live
    <2>1. CASE i = 1
      <3>1. a \in Live(cpu)
        BY <1>6, <1>7, <2>1
      <3>2. a \notin utf .. utf + ESP
        <4> HIDE DEF utf
        <4>1. CASE n = 0
          BY <1>1, <1>2, <1>3, <3>1, <4>1, LiveWords
        <4>2. CASE n > 0
          BY <1>1, <1>2, <1>3, <3>1, <4>2, LiveWords
        <4> QED
          BY <1>1, <4>1, <4>2
      <3> QED
        BY <1>5, <1>6, <1>7, <2>1, <3>1, <3>2
    <2>2. CASE i # 1
      <3> DEFINE j == i - 1
      <3>1. j \in 1 .. n /\ j \in 0 .. n /\ j + 1 = i /\ n > 0 /\ 0 \in 0 .. n
        BY <1>1, <2>2
      <3>2. saved'[i] = saved[j] /\ Context(j) = saved[j].cpu /\ Context(j).esp \in Nat
        BY <1>7, <3>1, Contexts DEF StacksInv, Registers
      <3> HIDE DEF j
      <3>3. a \in Live(saved[j].cpu) /\ a \in Words
        BY <3>1, <3>2, LiveIsFixed
      <3>4. CASE j < n
        <4>1. cpu.esp < Context(j).esp /\ OnXStack(Context(j).esp)
          BY <1>1, <3>1, <3>4, Apart
        <4>2. a \in Context(j).esp .. UXSTACKTOP - 1
          BY <3>2, <3>3, <4>1, LiveWords
        <4>3. a \notin utf .. utf + ESP
          BY SMTT(40), <1>1, <1>3, <3>1, <3>2, <4>1, <4>2
        <4>4. word'[a] = word[a]
          BY <1>5, <3>3, <4>3
        <4>5. word[a] = saved[j].stack[a]
          BY <3>1, <3>3 DEF StacksInv, Kept
        <4> QED
          BY <3>2, <4>4, <4>5
      <3>5. CASE j = n
        <4>1. Context(j).esp \in 1 .. USTACKTOP
          BY <3>5 DEF StacksInv, UserLast
        <4>2. a < USTACKTOP /\ a \in Nat
          BY <3>2, <3>3, <4>1, LiveWords
        <4>3. a \notin utf .. utf + ESP
          BY <1>3, <4>2
        <4>4. word'[a] = word[a]
          BY <1>5, <3>3, <4>3
        <4>5. word[a] = saved[j].stack[a]
          BY <3>1, <3>3 DEF StacksInv, Kept
        <4> QED
          BY <3>2, <4>4, <4>5
      <3> QED
        BY <1>1, <3>1, <3>4, <3>5
    <2> QED
      BY <2>1, <2>2
  <1> QED
    BY <1>10, <1>12, <1>13, <1>14, <1>15 DEF StacksInv

\* The way back: what was interrupted last runs again.
LEMMA Resumed ==
  ASSUME StacksInv, Return
  PROVE  /\ StacksInv'
         /\ saved # <<>> /\ saved' = Tail(saved) /\ Now' = Head(saved)
  <1> DEFINE n == Len(saved)
  <1>1. n \in Nat /\ n > 0 /\ 1 \in 1 .. n /\ 0 \in 0 .. n - 1 /\ n \in 0 .. n
    BY Lengths DEF StacksInv, UserLast, Return, At, Context
  <1> DEFINE c1 == Context(1)
             F  == FrameOf(1)
             a0 == c1.esp - 1
  <1>2. c1 \in Registers /\ c1 = saved[1].cpu /\ cpu \in Registers
    BY <1>1, Contexts DEF StacksInv, Types
  <1>3. /\ cpu.esp = F /\ cpu.eax = a0 /\ cpu.edx = c1.eip
        /\ word[F + REGS] = c1.eax /\ word[F + REGS + 1] = c1.edx
        /\ word[F + EFLAGS] = c1.eflags /\ word[F + ESP] = a0
    <2>1. Context(0) = cpu /\ cpu.eip = Write
      BY DEF Context, Return, At
    <2>2. Handles(cpu, F) /\ HasRegisters(cpu, c1, F)
      BY <1>1, <2>1 DEF StacksInv, Chain
    <2> QED
      BY <2>1, <2>2 DEF Handles, HasRegisters
  <1>4. F \in XBOTTOM .. UXSTACKTOP - SIZE
    BY <1>1, Apart
  <1>5. a0 \in Words /\ a0 \notin F .. F + ESP
    <2>1. CASE n = 1
      BY <1>2, <1>4, <2>1 DEF StacksInv, UserLast, Words
    <2>2. CASE n > 1
      <3>1. 1 \in 1 .. n - 1 /\ 1 \in 0 .. n - 1
        BY <1>1, <2>2
      <3>2. F = c1.esp - SIZE - 1 /\ OnXStack(c1.esp)
        BY <3>1, Apart
      <3> QED
        <4> HIDE DEF c1, F
        <4> QED
          BY <1>4, <3>2 DEF Words
    <2> HIDE DEF n, c1, F, a0
    <2> QED
      BY <1>1, <2>1, <2>2
  <1>6. /\ word \in [Words -> Nat] /\ word' \in [Words -> Nat] /\ word'[a0] = c1.eip
        /\ \A a \in Words \ {a0} : word'[a] = word[a]
    BY <1>2, <1>3, <1>5 DEF StacksInv, Types, Return, Registers
  <1>7. cpu' = c1
    <2>1. {F + REGS, F + REGS + 1, F + EFLAGS, F + ESP} \subseteq Words \ {a0}
      <3>1. F .. F + ESP \subseteq Words
        BY <1>4 DEF Words
      <3>2. {F + REGS, F + REGS + 1, F + EFLAGS, F + ESP} \subseteq F .. F + ESP
        BY <1>4
      <3> QED
        BY <1>5, <3>1, <3>2
    <2>2. /\ word'[F + REGS] = c1.eax /\ word'[F + REGS + 1] = c1.edx
          /\ word'[F + EFLAGS] = c1.eflags /\ word'[F + ESP] = a0
      BY <1>3, <1>6, <2>1
    <2>3. cpu' = [eip |-> word'[a0], esp |-> a0 + 1, eax |-> c1.eax, edx |-> c1.edx, eflags |-> c1.eflags]
      BY <1>3, <2>2 DEF Return
    <2>4. a0 + 1 = c1.esp
      BY <1>2 DEF Registers
    <2> QED
      BY <1>2, <1>6, <2>3, <2>4 DEF Registers
  <1>8. /\ saved \in Seq(Interrupted) /\ saved # <<>>
        /\ saved' = Tail(saved) /\ saved' \in Seq(Interrupted) /\ Head(saved) = saved[1]
        /\ Len(saved') = n - 1
        /\ \A i \in 1 .. n - 1 : saved'[i] = saved[i + 1]
    <2>1. saved \in Seq(Interrupted) /\ saved # <<>>
      BY <1>1 DEF StacksInv, Types
    <2>2. saved' = Tail(saved)
      BY DEF Return
    <2> QED
      BY <1>1, <2>1, <2>2, HeadTailProperties
  <1>9. /\ \A i \in 0 .. n - 1 : Context(i)' = Context(i + 1)
        /\ \A i \in 1 .. n - 1 : FrameOf(i)' = FrameOf(i + 1)
    <2>1. ASSUME NEW i \in 0 .. n - 1 PROVE Context(i)' = Context(i + 1)
      <3>1. CASE i = 0
        BY <1>7, <3>1 DEF Context
      <3>2. CASE i # 0
        BY <1>1, <1>8, <3>2 DEF Context
      <3> QED
        BY <3>1, <3>2
    <2> QED
      BY <2>1 DEF FrameOf
  <1>10. ASSUME NEW i \in 1 .. n, NEW a \in Live(saved[i].cpu) PROVE a \in Words \ {a0}
    <2>1. Context(i) = saved[i].cpu /\ Context(i).esp \in Nat
      BY Contexts, <1>1 DEF StacksInv, Registers
    <2>2. a \in Words
      BY <1>1, LiveIsFixed
    <2>3. CASE i = n
      <3>1. Context(i).esp \in 1 .. USTACKTOP
        BY <2>3 DEF StacksInv, UserLast
      <3>2. a \in Context(i).esp .. USTACKTOP - 1
        BY <2>1, <3>1, LiveWords
      <3>3. CASE n = 1
        BY <2>2, <2>3, <3>1, <3>2, <3>3
      <3>4. CASE n > 1
        <4>1. 1 \in 0 .. n - 1 /\ 1 \in 1 .. n - 1
          BY <1>1, <3>4
        <4>2. F = c1.esp - SIZE - 1 /\ c1.esp \in Nat
          BY <1>2, <4>1, Apart DEF Registers
        <4>3. a0 >= XBOTTOM
          <5> HIDE DEF F, c1
          <5> QED
            BY <1>4, <4>2
        <4> HIDE DEF a0
        <4> QED
          BY <2>2, <3>1, <3>2, <4>3
      <3> HIDE DEF n, c1, F, a0
      <3> QED
        BY <1>1, <3>3, <3>4
    <2>4. CASE i < n
      <3>1. i \in 0 .. n - 1 /\ 1 \in 0 .. n /\ i \in 0 .. n
        BY <1>1, <2>4
      <3>2. OnXStack(Context(i).esp) /\ c1.esp <= Context(i).esp
        <4>1. OnXStack(Context(i).esp)
          BY <3>1, Apart
        <4>2. CASE i = 1
          BY <2>1, <4>1, <4>2
        <4>3. CASE i > 1
          <5>1. Context(1).esp < Context(i).esp
            BY <2>4, <3>1, <4>3, Apart
          <5>2. Context(1).esp \in Nat
            BY <1>2 DEF Registers
          <5> QED
            BY <2>1, <4>1, <5>1, <5>2
        <4> HIDE DEF n, c1, F, a0
        <4> QED
          BY <3>1, <4>2, <4>3
      <3>3. a \in Context(i).esp .. UXSTACKTOP - 1
        BY <2>1, <3>2, LiveWords
      <3>4. c1.esp \in Nat
        BY <1>2 DEF Registers
      <3> HIDE DEF c1
      <3> QED
        BY SMTT(40), <2>1, <2>2, <3>2, <3>3, <3>4
    <2> QED
      BY <1>1, <2>3, <2>4
  <1>11. ASSUME NEW i \in 1 .. n - 1, NEW a \in Context(i).esp .. UXSTACKTOP - 1
         PROVE  word'[a] = word[a]
    <2>1. i \in 1 .. n /\ i \in 0 .. n - 1
      BY <1>1
    <2>2. Context(i) = saved[i].cpu /\ OnXStack(Context(i).esp)
      BY <2>1, Contexts, Apart DEF StacksInv
    <2>4. Context(i).esp \in Nat
      BY <2>2
    <2>3. a \in Live(saved[i].cpu)
      BY <2>2, <2>4, LiveWords
    <2> QED
      BY <1>6, <1>10, <2>1, <2>3
  <1>12. Types'
    <2>1. ASSUME NEW i \in 1 .. n - 1 PROVE saved'[i].stack \in [Live(saved'[i].cpu) -> Nat]
      <3>1. i + 1 \in 1 .. n /\ saved'[i] = saved[i + 1]
        BY <1>1, <1>8
      <3> QED
        BY <3>1 DEF StacksInv, Types
    <2> QED
      BY <1>2, <1>6, <1>7, <1>8, <2>1 DEF StacksInv, Types, Return, Live
  <1>13. Chain'
    <2> SUFFICES ASSUME NEW i \in 0 .. n - 2
                 PROVE  /\ OnXStack(Context(i).esp)' /\ OnXStack(FrameOf(i + 1))'
                        /\ Handles(Context(i), FrameOf(i + 1))'
                        /\ HasRegisters(Context(i), Context(i + 1), FrameOf(i + 1))'
      <3>1. 0 .. Len(saved') - 1 = 0 .. n - 2
        BY <1>1, <1>8
      <3> QED
        BY <3>1 DEF Chain
    <2> DEFINE j == i + 1
    <2>1. /\ j \in 1 .. n - 1 /\ j \in 0 .. n - 1 /\ j \in 0 .. n /\ j + 1 \in 0 .. n
          /\ j + 1 \in 1 .. n /\ i \in 0 .. n - 1 /\ j < j + 1
      BY <1>1
    <2>2. /\ Context(i)' = Context(j) /\ Context(i + 1)' = Context(j + 1)
          /\ FrameOf(i + 1)' = FrameOf(j + 1)
      BY <1>9, <2>1
    <2>3. /\ OnXStack(Context(j).esp) /\ OnXStack(FrameOf(j + 1))
          /\ Handles(Context(j), FrameOf(j + 1))
          /\ HasRegisters(Context(j), Context(j + 1), FrameOf(j + 1))
      BY <2>1 DEF StacksInv, Chain
    <2> DEFINE G == FrameOf(j + 1)
    <2>4. G \in XBOTTOM .. UXSTACKTOP - SIZE /\ Context(j).esp <= G /\ Context(j) \in Registers
      BY <2>1, Apart, Contexts DEF StacksInv
    <2>5. {G + REGS, G + REGS + 1, G + EIP, G + EFLAGS, G + ESP} \subseteq Context(j).esp .. UXSTACKTOP - 1
      <3> HIDE DEF G
      <3> QED
        BY <2>4 DEF Registers
    <2>6. Context(j).eip = Handler => G - 2 \in Context(j).esp .. UXSTACKTOP - 1
      <3>1. Context(j).eip = Handler => Context(j).esp + Context(j).eax + 2 = G
        BY <2>3 DEF Handles
      <3> HIDE DEF G
      <3> QED
        BY <2>4, <3>1 DEF Registers
    <2>7. /\ word'[G + REGS] = word[G + REGS] /\ word'[G + REGS + 1] = word[G + REGS + 1]
          /\ word'[G + EIP] = word[G + EIP] /\ word'[G + EFLAGS] = word[G + EFLAGS]
          /\ word'[G + ESP] = word[G + ESP]
          /\ Context(j).eip = Handler => word'[G - 2] = word[G - 2]
      BY <1>11, <2>1, <2>5, <2>6
    <2>8. Handles(Context(i), FrameOf(i + 1))'
      BY <2>2, <2>3, <2>7 DEF Handles
    <2>9. HasRegisters(Context(i), Context(i + 1), FrameOf(i + 1))'
      BY <2>2, <2>3, <2>7 DEF HasRegisters
    <2> QED
      BY <2>2, <2>3, <2>8, <2>9
  <1>14. UserLast'
    <2>1. PICK m \in 0 .. n - 1 : m = n - 1
      BY <1>1
    <2>2. Context(m)' = Context(n)
      BY <1>1, <1>9, <2>1
    <2>3. Len(saved') = m
      BY <1>8, <2>1
    <2> QED
      BY <2>2, <2>3 DEF StacksInv, UserLast, Context
  <1>15. Nested'
    <2> SUFFICES ASSUME NEW i \in 0 .. n - 1, NEW j \in 0 .. n - 1, i < j
                 PROVE  Context(i)'.esp <= FrameOf(j)'
      BY <1>8 DEF Nested
    <2>1. i + 1 \in 0 .. n /\ j + 1 \in 0 .. n /\ i + 1 < j + 1 /\ j \in 1 .. n - 1
      BY <1>1
    <2> QED
      BY <1>9, <2>1 DEF StacksInv, Nested
  <1>16. Kept'
    <2> SUFFICES ASSUME NEW i \in 1 .. n - 1, NEW a \in Live(saved'[i].cpu)
                 PROVE  word'[a] = saved'[i].stack[a]
      BY <1>8 DEF Kept, Live
    <2>1. i + 1 \in 1 .. n /\ saved'[i] = saved[i + 1]
      BY <1>1, <1>8
    <2>2. word'[a] = word[a]
      BY <1>6, <1>10, <2>1
    <2> QED
      BY <2>1, <2>2 DEF StacksInv, Kept
  <1>17. Now' = saved[1]
    <2>1. saved[1] \in Interrupted /\ saved[1].stack \in [Live(c1) -> Nat]
      BY <1>1, <1>2, <1>8, ElementOfSeq DEF StacksInv, Types
    <2>2. \A a \in Live(c1) : word'[a] = saved[1].stack[a]
      BY <1>1, <1>2, <1>6, <1>10 DEF StacksInv, Kept
    <2>3. [a \in Live(c1) |-> word'[a]] = saved[1].stack
      BY <2>1, <2>2
    <2>4. saved[1] = [cpu |-> c1, stack |-> saved[1].stack]
      BY <1>2, <2>1 DEF Interrupted
    <2>5. Live(cpu)' = Live(c1)
      BY <1>7 DEF Live
    <2> QED
      BY <1>7, <2>3, <2>4, <2>5 DEF Now
  <1> QED
    BY <1>8, <1>12, <1>13, <1>14, <1>15, <1>16, <1>17 DEF StacksInv

\* What handles a fault has only the part of its stack below what was
\* interrupted to itself.
LEMMA InHandler ==
  ASSUME StacksInv, cpu.eip \notin User
  PROVE  /\ Len(saved) > 0 /\ Context(1) \in Registers /\ cpu \in Registers
         /\ Handles(cpu, FrameOf(1)) /\ HasRegisters(cpu, Context(1), FrameOf(1))
         /\ FrameOf(1) \in XBOTTOM .. UXSTACKTOP - SIZE
         /\ OnXStack(cpu.esp) /\ cpu.esp <= FrameOf(1)
         /\ \A a \in Words : Fixed(a) => OnUStack(a) \/ a > FrameOf(1) + ESP
  <1> DEFINE n == Len(saved)
  <1>1. /\ n \in Nat /\ n > 0 /\ 1 \in 1 .. n /\ 0 \in 0 .. n - 1 /\ 1 \in 0 .. n /\ 0 \in 0 .. n
        /\ Context(0) = cpu
    BY Lengths DEF StacksInv, UserLast, Context
  <1>2. Context(1) \in Registers /\ cpu \in Registers
    BY <1>1, Contexts DEF StacksInv, Types
  <1>3. Handles(cpu, FrameOf(1)) /\ HasRegisters(cpu, Context(1), FrameOf(1)) /\ OnXStack(cpu.esp)
    BY <1>1 DEF StacksInv, Chain
  <1>4. FrameOf(1) \in XBOTTOM .. UXSTACKTOP - SIZE /\ cpu.esp <= FrameOf(1)
    BY <1>1, Apart
  <1>5. ASSUME NEW a \in Words, Fixed(a) PROVE OnUStack(a) \/ a > FrameOf(1) + ESP
    <2>1. CASE n = 1
      <3>1. Context(1).esp \in 1 .. USTACKTOP
        BY <2>1 DEF StacksInv, UserLast
      <3> QED
        BY <1>5, <3>1, LiveWords DEF Fixed
    <2>2. CASE n > 1
      <3>1. FrameOf(1) = Context(1).esp - SIZE - 1 /\ OnXStack(Context(1).esp)
        BY <1>1, <2>2, Apart
      <3>2. Context(1).esp \in Nat
        BY <3>1
      <3>3. a \in Context(1).esp .. UXSTACKTOP - 1 \/ OnUStack(a)
        BY <1>5, <3>1, <3>2, LiveWords DEF Fixed
      <3> QED
        BY <3>1, <3>2, <3>3
    <2> HIDE DEF n
    <2> QED
      BY <1>1, <2>1, <2>2
  <1> QED
    BY <1>1, <1>2, <1>3, <1>4, <1>5

LEMMA UserContexts ==
  ASSUME NEW c, NEW m, UserContext(c, m)
  PROVE  /\ c \in Registers /\ c.eip \in User /\ c.esp \in 1 .. USTACKTOP
         /\ m \in [Words -> Nat]
  <1>1. PICK eip \in User, esp \in 1 .. USTACKTOP, eax \in Contents, edx \in Contents, eflags \in Contents :
          /\ c = [eip |-> eip, esp |-> esp, eax |-> eax, edx |-> edx, eflags |-> eflags]
          /\ \E stack \in [esp .. USTACKTOP - 1 -> Contents] :
               m = [a \in Words |-> IF a \in DOMAIN stack THEN stack[a] ELSE 0]
    BY DEF UserContext
  <1>2. PICK stack \in [esp .. USTACKTOP - 1 -> Contents] :
          m = [a \in Words |-> IF a \in DOMAIN stack THEN stack[a] ELSE 0]
    BY <1>1
  <1>3. \A a \in Words : (IF a \in DOMAIN stack THEN stack[a] ELSE 0) \in Nat
    OBVIOUS
  <1> QED
    BY <1>1, <1>2, <1>3 DEF Registers

LEMMA StacksInvInit == FaultInit => StacksInv
  <1> SUFFICES ASSUME FaultInit PROVE StacksInv
    OBVIOUS
  <1>1. Len(saved) = 0 /\ saved \in Seq(Interrupted) /\ Context(0) = cpu
    BY DEF FaultInit, Context
  <1>2. /\ cpu \in Registers /\ cpu.eip \in User /\ cpu.esp \in 1 .. USTACKTOP
        /\ word \in [Words -> Nat]
    BY UserContexts DEF FaultInit
  <1>3. Types
    BY <1>1, <1>2 DEF Types, FaultInit
  <1> QED
    BY <1>1, <1>2, <1>3 DEF StacksInv, Chain, UserLast, Nested, Kept

LEMMA StacksInvUser ==
  ASSUME StacksInv, UserRuns
  PROVE  StacksInv' /\ saved' = saved
  <1>1. Len(saved) = 0 /\ saved \in Seq(Interrupted) /\ Context(0)' = cpu' /\ saved' = saved
    <2>1. CASE Len(saved) > 0
      <3>1. 0 \in 0 .. Len(saved) - 1 /\ Context(0) = cpu
        BY <2>1, Lengths DEF StacksInv, Context
      <3>2. Handles(cpu, FrameOf(1))
        BY <3>1 DEF StacksInv, Chain
      <3> QED
        BY <3>2 DEF Handles, UserRuns
    <2> QED
      BY <2>1, Lengths DEF StacksInv, Types, Context, UserRuns
  <1>2. /\ cpu' \in Registers /\ cpu'.eip \in User /\ cpu'.esp \in 1 .. USTACKTOP
        /\ word' \in [Words -> Nat]
    BY UserContexts DEF UserRuns
  <1>3. Types'
    BY <1>1, <1>2 DEF Types, StacksInv, UserRuns
  <1>4. Len(saved') = 0
    BY <1>1
  <1>5. UserLast'
    BY <1>2, <1>4 DEF UserLast, Context
  <1> QED
    BY <1>1, <1>2, <1>3, <1>4, <1>5 DEF StacksInv, Chain, Nested, Kept

LEMMA StacksInvSame ==
  ASSUME StacksInv, UNCHANGED <<cpu, word, saved>>, alive' \in BOOLEAN
  PROVE  StacksInv'
  <1>1. \A i : Context(i)' = Context(i) /\ FrameOf(i)' = FrameOf(i)
    BY DEF Context, FrameOf
  <1>2. Types'
    BY DEF StacksInv, Types
  <1>3. Chain'
    BY <1>1 DEF StacksInv, Chain, Handles, HasRegisters
  <1>4. UserLast'
    BY DEF StacksInv, UserLast, Context
  <1>5. Nested'
    BY <1>1 DEF StacksInv, Nested
  <1>6. Kept'
    BY DEF StacksInv, Kept
  <1> QED
    BY <1>2, <1>3, <1>4, <1>5, <1>6 DEF StacksInv

LEMMA StacksInvFault == StacksInv /\ PageFault => StacksInv'
  <1> SUFFICES ASSUME StacksInv, PageFault PROVE StacksInv'
    OBVIOUS
  <1>1. CASE PushFrame /\ saved' = <<Now>> \o saved /\ UNCHANGED alive
    BY <1>1, Interrupts
  <1>2. CASE alive' = FALSE /\ UNCHANGED <<cpu, word, saved>>
    BY <1>2, StacksInvSame DEF StacksInv, Types
  <1> QED
    BY <1>1, <1>2 DEF PageFault

\* The frame, while its handler is on its way.
FrameWords(utf) == {utf + REGS, utf + REGS + 1, utf + EIP, utf + EFLAGS, utf + ESP}

LEMMA StillHas ==
  ASSUME NEW utf, FrameOf(1)' = utf, Context(1)' = Context(1),
         HasRegisters(cpu, Context(1), utf), cpu.eip # Write, cpu'.eip # Write,
         \A a \in FrameWords(utf) : word'[a] = word[a]
  PROVE  HasRegisters(cpu, Context(1), FrameOf(1))'
  <1>1. /\ word[utf + REGS] = Context(1).eax /\ word[utf + REGS + 1] = Context(1).edx
        /\ word[utf + EIP] = Context(1).eip /\ word[utf + EFLAGS] = Context(1).eflags
        /\ word[utf + ESP] = Context(1).esp
    BY DEF HasRegisters
  <1>2. /\ word'[utf + REGS] = Context(1).eax /\ word'[utf + REGS + 1] = Context(1).edx
        /\ word'[utf + EIP] = Context(1).eip /\ word'[utf + EFLAGS] = Context(1).eflags
        /\ word'[utf + ESP] = Context(1).esp
    BY <1>1 DEF FrameWords
  <1> QED
    BY <1>2 DEF HasRegisters

LEMMA FrameIsOwn ==
  ASSUME NEW utf \in XBOTTOM .. UXSTACKTOP - SIZE,
         \A a \in Words : Fixed(a) => OnUStack(a) \/ a > utf + ESP
  PROVE  /\ FrameWords(utf) \subseteq utf .. utf + ESP
         /\ \A a \in XBOTTOM .. utf + ESP : a \in Words /\ ~Fixed(a)
  <1>1. \A a \in XBOTTOM .. utf + ESP : a \in Words
    BY DEF Words
  <1> QED
    BY <1>1 DEF FrameWords

LEMMA SetRegisters ==
  ASSUME NEW c \in Registers, NEW i \in Nat, NEW s \in Nat, NEW a \in Nat,
         NEW d \in Nat, NEW f \in Nat
  PROVE  /\ [c EXCEPT !.eip = i, !.esp = s, !.eax = a] \in Registers
         /\ [c EXCEPT !.eip = i, !.esp = s, !.eax = a, !.edx = d, !.eflags = f] \in Registers
         /\ [c EXCEPT !.eip = i, !.esp = s, !.edx = d, !.eax = a, !.eflags = f] \in Registers
         /\ [c EXCEPT !.esp = s, !.eax = a] \in Registers
  BY DEF Registers

LEMMA StacksInvCall ==
  ASSUME StacksInv, CallHandler
  PROVE  StacksInv'
  <1>1. CASE OnXStack(cpu.esp - 2)
    <2>1. cpu.eip = Upcall /\ cpu.eip \notin User
      BY DEF CallHandler, At
    <2>2. PICK utf : utf = FrameOf(1)
      OBVIOUS
    <2>3. /\ Len(saved) > 0 /\ cpu \in Registers /\ Context(1) \in Registers
          /\ utf \in XBOTTOM .. UXSTACKTOP - SIZE /\ cpu.esp = utf
          /\ HasRegisters(cpu, Context(1), utf)
          /\ \A a \in Words : Fixed(a) => OnUStack(a) \/ a > utf + ESP
      BY <2>1, <2>2, InHandler DEF Handles
    <2>4. /\ word \in [Words -> Nat] /\ alive' = alive /\ saved' = saved
          /\ word' = [word EXCEPT ![utf - 1] = utf, ![utf - 2] = Back]
          /\ cpu' = [cpu EXCEPT !.eip = Handler, !.esp = utf - 2, !.eax = 0]
      BY <1>1, <2>3 DEF CallHandler, StacksInv, Types
    <2>5. Context(1)' = Context(1) /\ FrameOf(1)' = utf
      BY <2>2, <2>3, <2>4 DEF FrameOf, Context
    <2>6. utf - 2 >= XBOTTOM
      BY <1>1, <2>3
    <2>7. /\ \A a \in utf - 2 .. utf + ESP : a \in Words /\ ~Fixed(a)
          /\ FrameWords(utf) \subseteq utf .. utf + ESP
      BY <2>3, <2>6, FrameIsOwn
    <2>8. /\ cpu' \in Registers /\ cpu'.eip = Handler /\ cpu'.esp = utf - 2 /\ cpu'.eax = 0
      <3>1. utf - 2 \in Nat /\ 0 \in Nat /\ Handler \in Nat
        BY <2>3, <2>6
      <3>2. cpu' \in Registers
        BY <2>3, <2>4, <3>1, SetRegisters
      <3> QED
        BY <2>3, <2>4, <3>2 DEF Registers
    <2>9. /\ word' \in [Words -> Nat] /\ word'[utf - 2] = Back
          /\ \A a \in Words \ {utf - 1, utf - 2} : word'[a] = word[a]
      <3>1. utf \in Nat /\ Back \in Nat /\ utf - 1 # utf - 2 /\ {utf - 1, utf - 2} \subseteq utf - 2 .. utf + ESP
        BY <2>3
      <3>2. utf - 1 \in Words /\ utf - 2 \in Words
        BY <2>7, <3>1
      <3> QED
        BY <2>4, <3>1, <3>2
    <2>10. HasRegisters(cpu, Context(1), FrameOf(1))'
      <3>1. \A a \in FrameWords(utf) : a \in Words \ {utf - 1, utf - 2}
        BY <2>3, <2>7
      <3> QED
        BY <2>1, <2>3, <2>5, <2>8, <2>9, <3>1, StillHas
    <2>11. Handles(cpu, FrameOf(1))'
      BY <2>3, <2>5, <2>8, <2>9 DEF Handles
    <2>12. OnXStack(cpu'.esp) /\ cpu'.esp <= utf
      BY <2>3, <2>6, <2>8
    <2>13. \A a \in Words : Fixed(a) => word'[a] = word[a]
      BY <2>3, <2>7, <2>9
    <2> QED
      BY <2>2, <2>3, <2>4, <2>8, <2>9, <2>10, <2>11, <2>12, <2>13, WithinHandler DEF StacksInv, Types
  <1>2. CASE PageFault
    BY <1>2, StacksInvFault
  <1> QED
    BY <1>1, <1>2 DEF CallHandler

LEMMA StacksInvHandler ==
  ASSUME StacksInv,
         \/ \E i \in 0 .. MaxUse - 1, v \in Contents : HandlerWrites(i, v)
         \/ \E n \in 1 .. MaxUse : OnXStack(cpu.esp - n) /\ HandlerExtends(n)
         \/ HandlerReturns
  PROVE  StacksInv' /\ saved' = saved
  <1>1. cpu.eip = Handler /\ cpu.eip \notin User
    BY DEF HandlerWrites, HandlerExtends, HandlerReturns, At
  <1>2. PICK utf : utf = FrameOf(1)
    OBVIOUS
  <1>3. /\ Len(saved) > 0 /\ cpu \in Registers /\ Context(1) \in Registers
        /\ utf \in XBOTTOM .. UXSTACKTOP - SIZE
        /\ cpu.esp + cpu.eax + 2 = utf /\ word[utf - 2] = Back /\ OnXStack(cpu.esp)
        /\ HasRegisters(cpu, Context(1), utf)
        /\ \A a \in Words : Fixed(a) => OnUStack(a) \/ a > utf + ESP
    BY <1>1, <1>2, InHandler DEF Handles
  <1>4. word \in [Words -> Nat] /\ alive' = alive /\ saved' = saved
    BY DEF HandlerWrites, HandlerExtends, HandlerReturns, StacksInv, Types
  <1>5. Context(1)' = Context(1) /\ FrameOf(1)' = utf
    BY <1>2, <1>3, <1>4 DEF FrameOf, Context
  <1>6. cpu.esp \in Nat /\ cpu.eax \in Nat
    BY <1>3 DEF Registers
  <1>7. /\ \A a \in cpu.esp .. utf + ESP : a \in Words /\ ~Fixed(a)
        /\ FrameWords(utf) \subseteq utf .. utf + ESP
    <2>1. cpu.esp .. utf + ESP \subseteq XBOTTOM .. utf + ESP
      BY <1>3
    <2> QED
      BY <1>3, <2>1, FrameIsOwn
  <1>10. cpu.esp <= utf
    BY <1>3, <1>6
  <1>8. ASSUME NEW i \in 0 .. MaxUse - 1, NEW v \in Contents, HandlerWrites(i, v) PROVE StacksInv'
    <2>1. cpu.esp + i \in Words /\ cpu.esp + i < utf - 2 /\ ~Fixed(cpu.esp + i)
      BY SMTT(40), <1>3, <1>6, <1>7, <1>8 DEF HandlerWrites
    <2>2. /\ word' \in [Words -> Nat] /\ cpu' = cpu
          /\ \A a \in Words \ {cpu.esp + i} : word'[a] = word[a]
      <3>1. v \in Nat
        OBVIOUS
      <3>2. word' = [word EXCEPT ![cpu.esp + i] = v] /\ cpu' = cpu
        BY <1>8 DEF HandlerWrites
      <3> QED
        BY <1>4, <2>1, <3>1, <3>2
    <2>3. \A a \in utf - 2 .. utf + ESP : word'[a] = word[a]
      <3>1. \A a \in utf - 2 .. utf + ESP : a \in cpu.esp .. utf + ESP /\ a # cpu.esp + i
        BY SMTT(40), <1>3, <1>6, <2>1
      <3> QED
        BY <1>7, <2>2, <3>1
    <2>4. HasRegisters(cpu, Context(1), FrameOf(1))'
      <3>1. utf .. utf + ESP \subseteq utf - 2 .. utf + ESP
        BY <1>3
      <3> QED
        BY <1>1, <1>3, <1>5, <1>7, <2>2, <2>3, <3>1, StillHas
    <2>5. Handles(cpu, FrameOf(1))'
      BY <1>1, <1>3, <1>5, <2>2, <2>3 DEF Handles
    <2>6. \A a \in Words : Fixed(a) => word'[a] = word[a]
      BY <2>1, <2>2
    <2> QED
      BY <1>2, <1>3, <1>4, <1>10, <2>2, <2>4, <2>5, <2>6, WithinHandler DEF StacksInv, Types
  <1>9. ASSUME NEW n \in 1 .. MaxUse, OnXStack(cpu.esp - n), HandlerExtends(n) PROVE StacksInv'
    <2>1. /\ cpu' = [cpu EXCEPT !.esp = cpu.esp - n, !.eax = cpu.eax + n]
          /\ word' = word
      BY <1>9 DEF HandlerExtends
    <2>2. /\ cpu' \in Registers /\ cpu'.eip = Handler /\ cpu'.esp = cpu.esp - n
          /\ cpu'.eax = cpu.eax + n
      <3>1. cpu.esp - n \in Nat /\ cpu.eax + n \in Nat
        BY <1>6, <1>9
      <3>2. cpu' \in Registers
        BY <1>3, <2>1, <3>1, SetRegisters
      <3> QED
        BY <1>1, <1>3, <2>1, <3>2 DEF Registers
    <2>3. HasRegisters(cpu, Context(1), FrameOf(1))'
      BY <1>1, <1>3, <1>5, <2>1, <2>2, StillHas
    <2>4. Handles(cpu, FrameOf(1))'
      <3>1. cpu'.esp + cpu'.eax + 2 = utf
        BY <1>3, <1>6, <2>2
      <3> QED
        BY <1>3, <1>5, <2>1, <2>2, <3>1 DEF Handles
    <2>5. cpu'.esp <= utf /\ OnXStack(cpu'.esp)
      BY <1>3, <1>6, <1>9, <2>2
    <2> QED
      BY <1>2, <1>3, <1>4, <2>1, <2>2, <2>3, <2>4, <2>5, WithinHandler DEF StacksInv, Types
  <1>11. ASSUME HandlerReturns PROVE StacksInv'
    <2>1. cpu.esp + cpu.eax = utf - 2
      BY SMTT(40), <1>3, <1>6
    <2>2. PICK v \in Contents :
            cpu' = [cpu EXCEPT !.eip = Back, !.esp = utf - 1, !.eax = v, !.edx = v, !.eflags = v]
      <3>0. utf \in Nat
        BY <1>3
      <3>1. cpu.esp + cpu.eax + 1 = utf - 1
        BY <1>6, <2>1, <3>0
      <3> QED
        BY <1>3, <1>11, <2>1, <3>1 DEF HandlerReturns
    <2>3. cpu' \in Registers /\ cpu'.eip = Back /\ cpu'.esp = utf - 1 /\ word' = word
      <3>1. utf - 1 \in Nat /\ v \in Nat /\ Back \in Nat
        BY <1>3
      <3>2. cpu' \in Registers
        BY <1>3, <2>2, <3>1, SetRegisters
      <3> QED
        BY <1>3, <1>11, <2>2, <3>2 DEF Registers, HandlerReturns
    <2>4. HasRegisters(cpu, Context(1), FrameOf(1))'
      BY <1>1, <1>3, <1>5, <2>3, StillHas
    <2>5. Handles(cpu, FrameOf(1))'
      BY <1>5, <2>3 DEF Handles
    <2>6. cpu'.esp <= utf /\ OnXStack(cpu'.esp)
      BY <1>3, <1>6, <2>3
    <2> QED
      BY <1>2, <1>3, <1>4, <2>3, <2>4, <2>5, <2>6, WithinHandler DEF StacksInv, Types
  <1> QED
    BY <1>4, <1>8, <1>9, <1>11

LEMMA StacksInvAdjust ==
  ASSUME StacksInv, Adjust
  PROVE  StacksInv' /\ saved' = saved
  <1>1. cpu.eip = Back /\ cpu.eip \notin User
    BY DEF Adjust, At
  <1>2. PICK utf : utf = FrameOf(1)
    OBVIOUS
  <1>3. /\ Len(saved) > 0 /\ cpu \in Registers /\ Context(1) \in Registers
        /\ utf \in XBOTTOM .. UXSTACKTOP - SIZE /\ cpu.esp = utf - 1 /\ OnXStack(cpu.esp)
        /\ HasRegisters(cpu, Context(1), utf)
        /\ \A a \in Words : Fixed(a) => OnUStack(a) \/ a > utf + ESP
    BY <1>1, <1>2, InHandler DEF Handles
  <1>4. /\ word \in [Words -> Nat] /\ alive' = alive /\ saved' = saved
        /\ cpu.esp + 1 = utf
    BY SMTT(40), <1>3 DEF Adjust, StacksInv, Types
  <1>5. Context(1)' = Context(1) /\ FrameOf(1)' = utf
    BY <1>2, <1>3, <1>4 DEF FrameOf, Context
  <1>6. /\ \A a \in utf .. utf + ESP : a \in Words /\ ~Fixed(a)
        /\ FrameWords(utf) \subseteq utf .. utf + ESP
    BY <1>3, FrameIsOwn
  <1>7. /\ word[utf + ESP] = Context(1).esp /\ word[utf + EIP] = Context(1).eip
        /\ Context(1).esp \in Nat \ {0} /\ Context(1).eip \in Nat
    <2>1. CASE Len(saved) = 1
      BY <1>1, <1>3, <2>1 DEF HasRegisters, StacksInv, UserLast, Registers
    <2>2. CASE Len(saved) > 1
      <3>1. 1 \in 0 .. Len(saved) - 1
        BY <2>2, Lengths DEF StacksInv
      <3>2. OnXStack(Context(1).esp)
        BY <3>1, Apart
      <3> QED
        BY SMTT(40), <1>1, <1>3, <3>2 DEF HasRegisters, Registers
    <2>3. Len(saved) \in Nat /\ Len(saved) > 0
      BY <1>3, Lengths DEF StacksInv
    <2>4. Len(saved) = 1 \/ Len(saved) > 1
      <3>1. \A n \in Nat : n > 0 => n = 1 \/ n > 1
        OBVIOUS
      <3> QED
        BY <2>3, <3>1
    <2> QED
      BY <2>1, <2>2, <2>4
  <1>8. word' = [word EXCEPT ![utf + ESP] = Context(1).esp - 1]
    BY <1>4, <1>6, <1>7 DEF Adjust
  <1>9. /\ word' \in [Words -> Nat] /\ word'[utf + ESP] = Context(1).esp - 1
        /\ \A a \in Words \ {utf + ESP} : word'[a] = word[a]
    BY <1>3, <1>4, <1>6, <1>7, <1>8
  <1>10. cpu' = [cpu EXCEPT !.eip = Write, !.esp = utf, !.edx = Context(1).eip,
                            !.eax = Context(1).esp - 1, !.eflags = 0]
    BY <1>4, <1>7, <1>9 DEF Adjust
  <1>11. /\ cpu' \in Registers /\ cpu'.eip = Write /\ cpu'.esp = utf
         /\ cpu'.edx = Context(1).eip /\ cpu'.eax = Context(1).esp - 1
    <2>1. utf \in Nat /\ Write \in Nat /\ Context(1).esp - 1 \in Nat /\ 0 \in Nat
      BY <1>3, <1>7
    <2>2. cpu' \in Registers
      BY <1>3, <1>7, <1>10, <2>1, SetRegisters
    <2> QED
      BY <1>3, <1>10, <2>2 DEF Registers
  <1>12. HasRegisters(cpu, Context(1), FrameOf(1))'
    <2>1. /\ word[utf + REGS] = Context(1).eax /\ word[utf + REGS + 1] = Context(1).edx
          /\ word[utf + EIP] = Context(1).eip /\ word[utf + EFLAGS] = Context(1).eflags
      BY <1>1, <1>3 DEF HasRegisters
    <2>2. {utf + REGS, utf + REGS + 1, utf + EIP, utf + EFLAGS} \subseteq Words \ {utf + ESP}
      BY <1>3, <1>6 DEF FrameWords
    <2>3. /\ word'[utf + REGS] = Context(1).eax /\ word'[utf + REGS + 1] = Context(1).edx
          /\ word'[utf + EIP] = Context(1).eip /\ word'[utf + EFLAGS] = Context(1).eflags
      BY <1>9, <2>1, <2>2
    <2> QED
      BY <1>5, <1>9, <1>11, <2>3 DEF HasRegisters
  <1>13. Handles(cpu, FrameOf(1))'
    BY <1>5, <1>11 DEF Handles
  <1>14. \A a \in Words : Fixed(a) => word'[a] = word[a]
    BY <1>3, <1>6, <1>9
  <1>15. OnXStack(cpu'.esp) /\ cpu'.esp <= utf
    BY <1>3, <1>11
  <1> QED
    BY <1>2, <1>3, <1>4, <1>9, <1>11, <1>12, <1>13, <1>14, <1>15, WithinHandler DEF StacksInv, Types

LEMMA StacksInvStep == StacksInv /\ [CareNext]_faultVars => StacksInv'
  <1> SUFFICES ASSUME StacksInv, [CareNext]_faultVars PROVE StacksInv'
    OBVIOUS
  <1>1. CASE UNCHANGED faultVars
    BY <1>1, StacksInvSame DEF faultVars, StacksInv, Types
  <1>2. CASE CareNext
    BY <1>2, StacksInvFault, StacksInvUser, StacksInvCall, StacksInvHandler, StacksInvAdjust, Resumed
       DEF CareNext, Common, UserFaults, HandlerFaults, WriteFaults
  <1> QED
    BY <1>1, <1>2

LEMMA LongerByOne ==
  ASSUME saved \in Seq(Interrupted), NEW x
  PROVE  Len(<<x>> \o saved) = Len(saved) + 1
  <1> DEFINE S == Interrupted \cup {x}
  <1>1. saved \in Seq(S)
    BY SeqMonotonic
  <1>2. <<x>> \in Seq(S) /\ Len(<<x>>) = 1
    OBVIOUS
  <1>3. Len(<<x>> \o saved) = Len(<<x>>) + Len(saved)
    BY <1>1, <1>2, ConcatProperties
  <1>4. Len(saved) \in Nat
    BY LenProperties
  <1> QED
    BY <1>2, <1>3, <1>4

LEMMA StacksInvAlways == CareSpec => []StacksInv
  BY StacksInvInit, StacksInvStep, PTL DEF CareSpec

\* For stacks of any size and faults nested to any depth, as long as a handler
\* does not go beyond its stack: frames and the word pushed for the return are
\* apart from the stacks of all interrupted code (trap.c:453-482, pfentry.S).
THEOREM StacksStay == CareSpec => []StacksKept
  <1>1. StacksInv => StacksKept
    <2> SUFFICES ASSUME StacksInv PROVE StacksKept
      OBVIOUS
    <2>1. FaultTypeOK
      BY TypesGiveTypeOK DEF StacksInv
    <2>2. DOMAIN saved = 1 .. Len(saved)
      BY LenProperties DEF StacksInv, Types
    <2>3. \A i \in 1 .. Len(saved) : DOMAIN saved[i].stack = Live(saved[i].cpu)
      BY DEF StacksInv, Types
    <2> QED
      BY <2>1, <2>2, <2>3 DEF StacksKept, StacksInv, Kept
  <1> QED
    BY <1>1, StacksInvAlways, PTL

\* However many faults came in between, the upcall returns to the latest code
\* interrupted, with its registers and its stack (pfentry.S:52-86).
THEOREM ReturnsResume == CareSpec => Resumes
  <1> DEFINE Resume == saved' # saved /\ Len(saved') <= Len(saved) =>
                         saved # <<>> /\ Now' = Head(saved) /\ saved' = Tail(saved)
  <1>1. ASSUME StacksInv, CareNext PROVE Resume
    <2>1. ASSUME PageFault PROVE Resume
      <3>1. CASE saved' = <<Now>> \o saved
        <4>1. saved \in Seq(Interrupted) /\ Len(saved) \in Nat
          BY <1>1, Lengths DEF StacksInv, Types
        <4>2. Len(saved') = Len(saved) + 1
          BY <3>1, <4>1, LongerByOne
        <4> QED
          BY <4>1, <4>2
      <3>2. CASE saved' = saved
        BY <3>2
      <3> QED
        BY <2>1, <3>1, <3>2 DEF PageFault
    <2>2. ASSUME Return PROVE Resume
      BY <1>1, <2>2, Resumed
    <2>3. ASSUME saved' = saved PROVE Resume
      BY <2>3
    <2> HIDE DEF Resume
    <2>4. ASSUME CallHandler PROVE Resume
      BY <2>1, <2>3, <2>4 DEF CallHandler
    <2>5. CASE \/ UserRuns \/ Adjust \/ HandlerReturns
               \/ \E i \in 0 .. MaxUse - 1, v \in Contents : HandlerWrites(i, v)
               \/ \E n \in 1 .. MaxUse : OnXStack(cpu.esp - n) /\ HandlerExtends(n)
      BY <2>3, <2>5 DEF UserRuns, Adjust, HandlerReturns, HandlerWrites, HandlerExtends
    <2> QED
      BY <1>1, <2>1, <2>2, <2>4, <2>5
         DEF CareNext, Common, UserFaults, HandlerFaults, WriteFaults
  <1>2. StacksInv /\ [CareNext]_faultVars => [Resume]_faultVars
    <2> HIDE DEF Resume
    <2> QED
      BY <1>1
  <1> QED
    BY <1>2, StacksInvAlways, PTL DEF CareSpec, Resumes
=============================================================================
