------------------------------ MODULE PageMap ------------------------------
(***************************************************************************)
(* Physical pages and user address spaces: the page allocator and the page *)
(* table functions of kern/pmap.c, env_setup_vm and env_free of kern/env.c *)
(* and the page system calls of kern/syscall.c, at any lack of memory.     *)
(*                                                                         *)
(* A call is one step: it runs under the kernel lock (KernEnv).  One that  *)
(* fails leaves everything as it was and is left out, except where it has  *)
(* to undo something.  Who may call is KernEnv's envid2env; here any       *)
(* environment's address space may change.  The free list is a set, so     *)
(* that page_alloc may return any free page.  Mappings above UTOP are the  *)
(* kernel's, the same for all, and not counted.                            *)
(***************************************************************************)
EXTENDS Naturals, FiniteSets

CONSTANTS
  Pages,     \* the physical pages page_init put on the free list
  NoPage,    \* an entry without PTE_P, a null pointer
  Envs,      \* slots of envs[]
  Pds, Pts,  \* page directory indices below UTOP, page table indices
  RefMod     \* pp_ref counts modulo this: 2^16

ASSUME PagesAssumption == IsFiniteSet(Pages) /\ NoPage \notin Pages
ASSUME IndexAssumption == IsFiniteSet(Envs) /\ IsFiniteSet(Pds) /\ IsFiniteSet(Pts)
ASSUME RefModAssumption == RefMod \in Nat /\ RefMod > 1

VARIABLES
  page_free_list,
  pp_ref,
  env_pgdir,  \* the page each environment's page directory is in
  pde,        \* <<environment, directory index>> -> the page of the page table
  pte,        \* <<table, table index>> -> the page mapped
  pte_w       \* the entries of pte with PTE_W

vars == <<page_free_list, pp_ref, env_pgdir, pde, pte, pte_w>>

Tables == Envs \X Pds
Leaves == Tables \X Pts
TableOf(l) == l[1]
EnvOf(l)   == l[1][1]

TypeOK ==
  /\ page_free_list \subseteq Pages
  /\ pp_ref \in [Pages -> 0 .. RefMod - 1]
  /\ env_pgdir \in [Envs -> Pages \cup {NoPage}]
  /\ pde \in [Tables -> Pages \cup {NoPage}]
  /\ pte \in [Leaves -> Pages \cup {NoPage}]
  /\ pte_w \subseteq Leaves

\* After page_init and before the first environment.
Init ==
  /\ page_free_list = Pages
  /\ pp_ref = [p \in Pages |-> 0]
  /\ env_pgdir = [e \in Envs |-> NoPage]
  /\ pde = [t \in Tables |-> NoPage]
  /\ pte = [l \in Leaves |-> NoPage]
  /\ pte_w = {}

-----------------------------------------------------------------------------
(***************************************************************************)
(* pmap.c                                                                  *)
(***************************************************************************)
Same(p, q) == IF p = q THEN 1 ELSE 0

\* How many of the entries S of table f hold page p.
Count(f, S, p) == Cardinality({x \in S : f[x] = p})

\* The page pgdir_walk(..., 1) takes off the free list for the page table of
\* leaf l, or NoPage when the table exists; none of them means E_NO_MEM.
PgdirWalk(l, free) == IF pde[TableOf(l)] # NoPage THEN {NoPage} ELSE free

\* Mutant: the old page is removed before the new reference is counted.
PageInsertRemovesFirst(l, p, w, t, free) ==
  LET old == pte[l]
      ref == [q \in Pages |->
                (pp_ref[q] + Same(q, p) + Same(q, t) - Same(q, old)) % RefMod]
  IN  /\ pp_ref' = ref
      /\ page_free_list' =
           (free \ {t}) \cup {q \in Pages : q = old /\ pp_ref[q] = 1}
      /\ pde' = IF t = NoPage THEN pde ELSE [pde EXCEPT ![TableOf(l)] = t]
      /\ pte' = [pte EXCEPT ![l] = p]
      /\ pte_w' = IF w THEN pte_w \cup {l} ELSE pte_w \ {l}
      /\ UNCHANGED env_pgdir

\* page_insert of page p at leaf l once pgdir_walk has found a table, or has
\* taken page t for one, with free the free list before: count the new
\* reference, drop the old one and free its page if it was the last.
PageInsert(l, p, w, t, free) ==
  LET old == pte[l]
      ref == [q \in Pages |->
                (pp_ref[q] + Same(q, p) + Same(q, t) - Same(q, old)) % RefMod]
  IN  /\ pp_ref' = ref
      /\ page_free_list' =
           (free \ {t}) \cup {q \in Pages : q = old /\ ref[q] = 0}
      /\ pde' = IF t = NoPage THEN pde ELSE [pde EXCEPT ![TableOf(l)] = t]
      /\ pte' = [pte EXCEPT ![l] = p]
      /\ pte_w' = IF w THEN pte_w \cup {l} ELSE pte_w \ {l}
      /\ UNCHANGED env_pgdir

\* page_remove of the page that leaf l maps.
PageRemove(l) ==
  LET ref == [q \in Pages |-> (pp_ref[q] - Same(q, pte[l])) % RefMod]
  IN  /\ pp_ref' = ref
      /\ page_free_list' =
           page_free_list \cup {q \in Pages : q = pte[l] /\ ref[q] = 0}
      /\ pte' = [pte EXCEPT ![l] = NoPage]
      /\ pte_w' = pte_w \ {l}
      /\ UNCHANGED <<env_pgdir, pde>>

-----------------------------------------------------------------------------
(***************************************************************************)
(* Address spaces and the page system calls                                *)
(***************************************************************************)
Exists(e) == env_pgdir[e] # NoPage

EnvSetupVm(e) ==
  /\ ~Exists(e)
  /\ \E p \in page_free_list :
       /\ page_free_list' = page_free_list \ {p}
       /\ pp_ref' = [pp_ref EXCEPT ![p] = (@ + 1) % RefMod]
       /\ env_pgdir' = [env_pgdir EXCEPT ![e] = p]
  /\ UNCHANGED <<pde, pte, pte_w>>

\* Also each page of region_alloc, which panics when this fails.
SysPageAlloc(l, w) ==
  /\ Exists(EnvOf(l))
  /\ \E p \in page_free_list : \E t \in PgdirWalk(l, page_free_list \ {p}) :
       PageInsert(l, p, w, t, page_free_list \ {p})

\* Mutant: the page is not given back.
PageAllocFailsLeaks(p) == page_free_list' = page_free_list \ {p}

\* page_alloc took page p, pgdir_walk found none left: page_free(p).
PageAllocFails(p) == page_free_list' = (page_free_list \ {p}) \cup {p}

SysPageAllocFails(l) ==
  /\ Exists(EnvOf(l))
  /\ \E p \in page_free_list : /\ PgdirWalk(l, page_free_list \ {p}) = {}
                               /\ PageAllocFails(p)
  /\ UNCHANGED <<pp_ref, env_pgdir, pde, pte, pte_w>>

\* Mutant: a read-only page may be mapped writable.
MayMapAny(l, w) == pte[l] # NoPage

\* What may be mapped elsewhere: a page that is there, writable if it is.
MayMap(l, w) == pte[l] # NoPage /\ (w => l \in pte_w)

\* Also the page sys_ipc_try_send maps for its receiver.
SysPageMap(src, dst, w) ==
  /\ Exists(EnvOf(src)) /\ Exists(EnvOf(dst))
  /\ MayMap(src, w)
  /\ \E t \in PgdirWalk(dst, page_free_list) :
       PageInsert(dst, pte[src], w, t, page_free_list)

\* An address that maps nothing is left alone.
SysPageUnmap(l) ==
  /\ Exists(EnvOf(l)) /\ pte[l] # NoPage
  /\ PageRemove(l)

\* Mutant: the page tables themselves are not dropped.
DroppedButTables(e, q) ==
  Count(pte, {l \in Leaves : EnvOf(l) = e}, q)
  + Same(env_pgdir[e], q)

\* How many references of environment e to page q env_free drops.
Dropped(e, q) ==
  Count(pte, {l \in Leaves : EnvOf(l) = e}, q)
  + Count(pde, {t \in Tables : t[1] = e}, q)
  + Same(env_pgdir[e], q)

\* The pages whose count gets to 0 on the way.
Freed(e) ==
  {q \in Pages : \E i \in 1 .. Dropped(e, q) : (pp_ref[q] - i) % RefMod = 0}

\* page_remove each mapping, page_decref each table and the directory.
EnvFree(e) ==
  /\ Exists(e)
  /\ pp_ref' = [q \in Pages |-> (pp_ref[q] - Dropped(e, q)) % RefMod]
  /\ page_free_list' = page_free_list \cup Freed(e)
  /\ env_pgdir' = [env_pgdir EXCEPT ![e] = NoPage]
  /\ pde' = [t \in Tables |-> IF t[1] = e THEN NoPage ELSE pde[t]]
  /\ pte' = [l \in Leaves |-> IF EnvOf(l) = e THEN NoPage ELSE pte[l]]
  /\ pte_w' = {l \in pte_w : EnvOf(l) # e}

Next ==
  \/ \E e \in Envs : EnvSetupVm(e) \/ EnvFree(e)
  \/ \E l \in Leaves :
       \/ SysPageAllocFails(l) \/ SysPageUnmap(l)
       \/ \E w \in BOOLEAN : \/ SysPageAlloc(l, w)
                             \/ \E dst \in Leaves : SysPageMap(l, dst, w)

Spec == Init /\ [][Next]_vars

(***************************************************************************)
(* Properties                                                              *)
(***************************************************************************)

\* The pointers to page p.
References(p) ==
  Count(pte, Leaves, p) + Count(pde, Tables, p) + Count(env_pgdir, Envs, p)

\* What keeps pp_ref from overflowing: fewer entries than it can count.
CountsFit == Cardinality(Leaves) + Cardinality(Tables) + Cardinality(Envs) < RefMod

\* memlayout.h:182: pp_ref is the count of pointers to the page.
RefCounts == \A p \in Pages : pp_ref[p] = References(p)

\* A page is free exactly when nothing points to it: no page in use is given
\* out again, and none is lost, whatever calls fail halfway.
FreeListSound == page_free_list = {p \in Pages : References(p) = 0}

\* A page that is a page table or a page directory is only that, for one
\* environment: no user program can write to it or take it from another.
TablesPrivate ==
  \A p \in Pages :
    (\E t \in Tables : pde[t] = p) \/ (\E e \in Envs : env_pgdir[e] = p)
      => References(p) = 1

\* Mappings hang in page tables, and page tables in a page directory.
Hierarchy ==
  /\ \A l \in Leaves : pte[l] # NoPage => pde[TableOf(l)] # NoPage
  /\ \A t \in Tables : pde[t] # NoPage => Exists(t[1])
  /\ \A l \in pte_w : pte[l] # NoPage

\* A page that nobody may write stays so until it is free again: permission
\* to write is passed on, never gained.
WriteNotGained ==
  [][\A p \in Pages \ page_free_list :
       (\A l \in pte_w : pte[l] # p) => \A l \in pte_w' : pte'[l] # p]_vars
=============================================================================
