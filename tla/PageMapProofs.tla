--------------------------- MODULE PageMapProofs ---------------------------
(***************************************************************************)
(* PageMap for any number of pages, environments and table entries: page   *)
(* counts are exact and the free list holds what nothing points to, as     *)
(* long as there are fewer entries than pp_ref can count.                  *)
(***************************************************************************)
EXTENDS PageMap, FiniteSetTheorems, TLAPS

-----------------------------------------------------------------------------
(***************************************************************************)
(* Counting                                                                *)
(***************************************************************************)
LEMMA Finite ==
  /\ IsFiniteSet(Tables) /\ IsFiniteSet(Leaves)
  /\ \A e : IsFiniteSet({l \in Leaves : EnvOf(l) = e})
  /\ \A e : IsFiniteSet({t \in Tables : t[1] = e})
<1>1. IsFiniteSet(Tables)
  BY IndexAssumption, FS_Product DEF Tables
<1>2. IsFiniteSet(Leaves)
  BY <1>1, IndexAssumption, FS_Product DEF Leaves
<1>3. \A e : {l \in Leaves : EnvOf(l) = e} \in SUBSET Leaves
  OBVIOUS
<1>4. \A e : {t \in Tables : t[1] = e} \in SUBSET Tables
  OBVIOUS
<1> QED BY <1>1, <1>2, <1>3, <1>4, FS_Subset

LEMMA CountBound ==
  ASSUME NEW S, IsFiniteSet(S), NEW f, NEW p
  PROVE  /\ IsFiniteSet({x \in S : f[x] = p})
         /\ Count(f, S, p) \in Nat
         /\ Count(f, S, p) \in 0 .. Cardinality(S)
         /\ Count(f, S, p) = 0 <=> \A x \in S : f[x] # p
<1>1. {x \in S : f[x] = p} \in SUBSET S
  OBVIOUS
<1>2. /\ IsFiniteSet({x \in S : f[x] = p})
      /\ Cardinality({x \in S : f[x] = p}) <= Cardinality(S)
  BY <1>1, FS_Subset
<1>3. Cardinality({x \in S : f[x] = p}) \in Nat /\ Cardinality(S) \in Nat
  BY <1>2, FS_CardinalityType
<1>4. Cardinality({x \in S : f[x] = p}) = 0 <=> {x \in S : f[x] = p} = {}
  BY <1>2, FS_EmptySet
<1> QED BY <1>2, <1>3, <1>4 DEF Count

\* Writing one entry changes the counts of the old and the new page.
LEMMA CountChanged ==
  ASSUME NEW S, IsFiniteSet(S), NEW f, NEW g, NEW s \in S, NEW p,
         \A x \in S \ {s} : g[x] = f[x]
  PROVE  /\ Count(f, S, p) \in Nat /\ Count(g, S, p) \in Nat
         /\ Count(g, S, p) = Count(f, S, p) + Same(g[s], p) - Same(f[s], p)
<1> DEFINE v == g[s]
           F == {x \in S : f[x] = p}
           G == {x \in S : g[x] = p}
<1>1. IsFiniteSet(F)
  <2>1. F \in SUBSET S
    OBVIOUS
  <2> QED BY <2>1, FS_Subset
<1>2. v = p => G = F \cup {s}
  OBVIOUS
<1>3. v # p => G = F \ {s}
  OBVIOUS
<1>4. s \in F <=> f[s] = p
  OBVIOUS
<1>5. Cardinality(G) = Cardinality(F) + Same(v, p) - Same(f[s], p)
  <2> HIDE DEF F, G, v
  <2>1. Cardinality(F) \in Nat
    BY <1>1, FS_CardinalityType
  <2>2. /\ s \in F => Same(f[s], p) = 1
        /\ s \notin F => Same(f[s], p) = 0
    BY <1>4 DEF Same
  <2>3. CASE v = p
    <3>1. Cardinality(G) = Cardinality(F \cup {s}) /\ Same(v, p) = 1
      BY <1>2, <2>3, Zenon DEF Same
    <3>2. Cardinality(F \cup {s}) = IF s \in F THEN Cardinality(F) ELSE Cardinality(F) + 1
      BY <1>1, FS_AddElement, Zenon
    <3> QED BY <2>1, <2>2, <3>1, <3>2
  <2>4. CASE v # p
    <3>1. Cardinality(G) = Cardinality(F \ {s}) /\ Same(v, p) = 0
      BY <1>3, <2>4, Zenon DEF Same
    <3>2. Cardinality(F \ {s}) = IF s \in F THEN Cardinality(F) - 1 ELSE Cardinality(F)
      BY <1>1, FS_RemoveElement, Zenon
    <3> QED BY <2>1, <2>2, <3>1, <3>2
  <2> QED BY <2>3, <2>4
<1>6. Count(g, S, p) = Cardinality(G) /\ Count(f, S, p) = Cardinality(F)
  BY Zenon DEF Count
<1> QED BY <1>5, <1>6, IsFiniteSet(S), CountBound, FS_CardinalityType

\* Emptying the entries in D loses what they held.
LEMMA CountCleared ==
  ASSUME NEW S, IsFiniteSet(S), NEW f, NEW g, NEW D \in SUBSET S, NEW p,
         \A x \in D : g[x] # p, \A x \in S \ D : g[x] = f[x]
  PROVE  Count(f, S, p) = Count(g, S, p) + Count(f, D, p)
<1> DEFINE F == {x \in S : f[x] = p}
           G == {x \in S : g[x] = p}
           H == {x \in D : f[x] = p}
<1>1. F = G \cup H /\ G \cap H = {}
  OBVIOUS
<1>2. IsFiniteSet(D)
  BY FS_Subset
<1>3. IsFiniteSet(G) /\ IsFiniteSet(H)
  <2>1. G \in SUBSET S /\ H \in SUBSET D
    OBVIOUS
  <2> QED BY <1>2, <2>1, FS_Subset
<1>4. Cardinality(G) \in Nat /\ Cardinality(H) \in Nat
  BY <1>3, FS_CardinalityType
<1>5. Cardinality(G \cup H) = Cardinality(G) + Cardinality(H) - Cardinality(G \cap H)
  BY <1>3, FS_Union
<1>6. Cardinality(F) = Cardinality(G) + Cardinality(H)
  <2> HIDE DEF F, G, H
  <2>1. Cardinality(G \cap H) = 0
    BY <1>1, FS_EmptySet
  <2>2. Cardinality(F) = Cardinality(G \cup H)
    BY <1>1
  <2> QED BY <1>4, <1>5, <2>1, <2>2
<1>7. /\ Count(f, S, p) = Cardinality(F)
      /\ Count(g, S, p) = Cardinality(G)
      /\ Count(f, D, p) = Cardinality(H)
  BY Zenon DEF Count
<1> QED BY <1>6, <1>7, Zenon

-----------------------------------------------------------------------------
(***************************************************************************)
(* The inductive invariant                                                 *)
(***************************************************************************)
Inv ==
  /\ TypeOK
  /\ RefCounts
  /\ FreeListSound
  /\ TablesPrivate
  /\ Hierarchy

\* A sum of counts as in References, for any tables f, g and h.
LEMMA SumBound ==
  ASSUME NEW f, NEW g, NEW h, NEW p
  PROVE  LET n == Count(f, Leaves, p) + Count(g, Tables, p) + Count(h, Envs, p)
         IN  /\ n \in Nat
             /\ CountsFit => n < RefMod
             /\ n = 0 <=> (/\ \A l \in Leaves : f[l] # p
                           /\ \A t \in Tables : g[t] # p
                           /\ \A e \in Envs : h[e] # p)
             /\ n = 1 => /\ (\E t \in Tables : g[t] = p) => \A l \in Leaves : f[l] # p
                         /\ (\E e \in Envs : h[e] = p) => \A l \in Leaves : f[l] # p
<1>1. /\ Count(f, Leaves, p) \in 0 .. Cardinality(Leaves)
      /\ Count(f, Leaves, p) = 0 <=> \A l \in Leaves : f[l] # p
  BY Finite, CountBound
<1>2. /\ Count(g, Tables, p) \in 0 .. Cardinality(Tables)
      /\ Count(g, Tables, p) = 0 <=> \A t \in Tables : g[t] # p
  BY Finite, CountBound
<1>3. /\ Count(h, Envs, p) \in 0 .. Cardinality(Envs)
      /\ Count(h, Envs, p) = 0 <=> \A e \in Envs : h[e] # p
  BY IndexAssumption, CountBound
<1>4. /\ Cardinality(Leaves) \in Nat /\ Cardinality(Tables) \in Nat
      /\ Cardinality(Envs) \in Nat
  BY Finite, IndexAssumption, FS_CardinalityType
<1> DEFINE a == Count(f, Leaves, p)
           b == Count(g, Tables, p)
           c == Count(h, Envs, p)
<1>5. /\ a \in 0 .. Cardinality(Leaves)
      /\ b \in 0 .. Cardinality(Tables)
      /\ c \in 0 .. Cardinality(Envs)
  BY <1>1, <1>2, <1>3
<1>6. /\ a + b + c \in Nat
      /\ CountsFit => a + b + c < RefMod
      /\ a + b + c = 0 <=> a = 0 /\ b = 0 /\ c = 0
      /\ a + b + c = 1 => (b # 0 => a = 0) /\ (c # 0 => a = 0)
  <2> HIDE DEF a, b, c
  <2> QED BY <1>4, <1>5, RefModAssumption DEF CountsFit
<1> QED BY <1>1, <1>2, <1>3, <1>6

\* CountChanged for a step that writes one entry of one of the tables.
LEMMA PteCount ==
  ASSUME NEW l \in Leaves, NEW q, \A x \in Leaves \ {l} : pte'[x] = pte[x]
  PROVE  Count(pte', Leaves, q) = Count(pte, Leaves, q) + Same(pte'[l], q) - Same(pte[l], q)
<1>1. IsFiniteSet(Leaves)
  BY Finite
<1> QED BY <1>1, CountChanged

LEMMA PdeCount ==
  ASSUME NEW t \in Tables, NEW q, \A x \in Tables \ {t} : pde'[x] = pde[x]
  PROVE  Count(pde', Tables, q) = Count(pde, Tables, q) + Same(pde'[t], q) - Same(pde[t], q)
<1>1. IsFiniteSet(Tables)
  BY Finite
<1> QED BY <1>1, CountChanged

LEMMA PgdirCount ==
  ASSUME NEW e \in Envs, NEW q, \A x \in Envs \ {e} : env_pgdir'[x] = env_pgdir[x]
  PROVE  Count(env_pgdir', Envs, q)
           = Count(env_pgdir, Envs, q) + Same(env_pgdir'[e], q) - Same(env_pgdir[e], q)
<1>1. IsFiniteSet(Envs)
  BY IndexAssumption
<1> QED BY <1>1, CountChanged

LEMMA CountNat ==
  ASSUME NEW q
  PROVE  /\ Count(pte, Leaves, q) \in Nat
         /\ Count(pde, Tables, q) \in Nat
         /\ Count(env_pgdir, Envs, q) \in Nat
<1>1. IsFiniteSet(Leaves) /\ IsFiniteSet(Tables) /\ IsFiniteSet(Envs)
  BY Finite, IndexAssumption
<1> QED BY <1>1, CountBound

LEMMA ModSmall ==
  ASSUME NEW n \in Nat, NEW m \in Nat, n < m PROVE n % m = n
OBVIOUS

LEMMA InitInv == Init => Inv
<1> SUFFICES ASSUME Init PROVE Inv
  OBVIOUS
<1> USE DEF Init
<1>1. \A p \in Pages : References(p) = 0
  BY SumBound, PagesAssumption DEF References
<1>2. TypeOK
  BY RefModAssumption DEF TypeOK
<1>3. RefCounts /\ FreeListSound
  BY <1>1 DEF RefCounts, FreeListSound
<1>4. TablesPrivate
  BY PagesAssumption DEF TablesPrivate
<1>5. Hierarchy
  BY DEF Hierarchy, Leaves, TableOf
<1> QED BY <1>1, <1>2, <1>3, <1>4, <1>5 DEF Inv

-----------------------------------------------------------------------------
(***************************************************************************)
(* page_insert                                                             *)
(***************************************************************************)

\* A page that is mapped is in use, and no page table.
LEMMA MappedIsData ==
  ASSUME Inv, NEW l \in Leaves, pte[l] # NoPage
  PROVE  /\ pte[l] \in Pages \ page_free_list
         /\ \A t \in Tables : pde[t] # pte[l]
         /\ \A e \in Envs : env_pgdir[e] # pte[l]
<1> USE DEF Inv, TypeOK
<1>1. pte[l] \in Pages
  OBVIOUS
<1>2. References(pte[l]) # 0
  BY SumBound DEF References
<1>3. ASSUME NEW t \in Tables, pde[t] = pte[l] PROVE FALSE
  <2>1. References(pte[l]) = 1
    BY <1>1, <1>3 DEF TablesPrivate
  <2> QED BY <1>3, <2>1, SumBound DEF References
<1>4. ASSUME NEW e \in Envs, env_pgdir[e] = pte[l] PROVE FALSE
  <2>1. References(pte[l]) = 1
    BY <1>1, <1>4 DEF TablesPrivate
  <2> QED BY <1>4, <2>1, SumBound DEF References
<1> QED BY <1>1, <1>2, <1>3, <1>4 DEF FreeListSound

LEMMA FreeIsUnused ==
  ASSUME Inv, NEW p \in page_free_list
  PROVE  /\ p \in Pages
         /\ \A l \in Leaves : pte[l] # p
         /\ \A t \in Tables : pde[t] # p
         /\ \A e \in Envs : env_pgdir[e] # p
<1>1. p \in Pages /\ References(p) = 0
  BY DEF Inv, FreeListSound
<1> QED BY <1>1, SumBound DEF References

\* The new page is one just taken off the free list, or one mapped elsewhere.
LEMMA PageInsertInv ==
  ASSUME CountsFit, Inv, NEW l \in Leaves, Exists(EnvOf(l)),
         NEW p \in Pages, NEW w \in BOOLEAN, NEW t,
         \A x \in Tables : pde[x] # p, \A e \in Envs : env_pgdir[e] # p,
         t \in PgdirWalk(l, page_free_list \ {p}),
         PageInsert(l, p, w, t, page_free_list \ {p})
  PROVE  Inv'
<1> DEFINE old == pte[l]
           tab == TableOf(l)
<1>1. /\ TypeOK /\ RefCounts /\ FreeListSound /\ TablesPrivate /\ Hierarchy
      /\ tab \in Tables /\ EnvOf(l) \in Envs /\ EnvOf(l) = tab[1]
  BY DEF Inv, Leaves, Tables, TableOf, EnvOf
<1>2. /\ t \in Pages \cup {NoPage} /\ old \in Pages \cup {NoPage}
      /\ p # NoPage /\ t # p
      /\ t = NoPage => pde[tab] # NoPage
      /\ t # NoPage => t \in page_free_list /\ pde[tab] = NoPage
  BY <1>1, PagesAssumption DEF PgdirWalk, TypeOK
<1>3. /\ pte' = [pte EXCEPT ![l] = p]
      /\ pde' = IF t = NoPage THEN pde ELSE [pde EXCEPT ![tab] = t]
      /\ env_pgdir' = env_pgdir
      /\ pte_w' \in SUBSET Leaves
      /\ pte_w' \in SUBSET (pte_w \cup {l})
  BY <1>1 DEF PageInsert, TypeOK
<1>t. /\ pte'[l] = p /\ \A x \in Leaves \ {l} : pte'[x] = pte[x]
      /\ t # NoPage => pde'[tab] = t
      /\ \A x \in Tables : t = NoPage \/ x # tab => pde'[x] = pde[x]
  BY <1>1, <1>3 DEF TypeOK
<1> HIDE DEF old, tab
<1>4. ASSUME NEW q \in Pages
      PROVE  /\ References(q)' = References(q) + Same(q, p) + Same(q, t) - Same(q, old)
             /\ References(q) \in Nat
             /\ References(q)' \in Nat /\ References(q)' < RefMod
  <2> DEFINE a == Count(pte, Leaves, q)   a1 == Count(pte', Leaves, q)
             b == Count(pde, Tables, q)   b1 == Count(pde', Tables, q)
             c == Count(env_pgdir, Envs, q)
  <2>1. a1 = a + Same(p, q) - Same(old, q)
    BY <1>t, PteCount DEF old
  <2>2. b1 = b + Same(t, q)
    <3>1. CASE t = NoPage
      BY <1>3, <3>1, PagesAssumption, CountNat DEF Same
    <3>2. CASE t # NoPage
      <4>1. b1 = b + Same(t, q) - Same(NoPage, q)
        BY <1>1, <1>2, <1>t, <3>2, PdeCount
      <4>2. Same(NoPage, q) = 0 /\ Same(t, q) \in Nat
        BY PagesAssumption DEF Same
      <4> QED BY <4>1, <4>2, CountNat
    <3> QED BY <3>1, <3>2
  <2>3. /\ Same(p, q) = Same(q, p) /\ Same(t, q) = Same(q, t) /\ Same(old, q) = Same(q, old)
        /\ Same(q, p) \in {0, 1} /\ Same(q, t) \in {0, 1} /\ Same(q, old) \in {0, 1}
    BY DEF Same
  <2>4. a \in Nat /\ b \in Nat /\ c \in Nat
    BY CountNat
  <2>5. References(q) = a + b + c /\ References(q)' = a1 + b1 + c
    BY <1>3 DEF References
  <2>6. References(q)' = References(q) + Same(q, p) + Same(q, t) - Same(q, old)
    <3> HIDE DEF a, b, c, a1, b1
    <3> QED BY <2>1, <2>2, <2>3, <2>4, <2>5
  <2>7. References(q) \in Nat
    BY SumBound DEF References
  <2>8. References(q)' \in Nat /\ References(q)' < RefMod
    BY SumBound DEF References
  <2> QED BY <2>6, <2>7, <2>8
<1>5. \A q \in Pages : pp_ref'[q] = References(q)'
  <2> SUFFICES ASSUME NEW q \in Pages PROVE pp_ref'[q] = References(q)'
    OBVIOUS
  <2>1. pp_ref'[q] = (References(q) + Same(q, p) + Same(q, t) - Same(q, old)) % RefMod
    BY <1>1 DEF PageInsert, RefCounts, old
  <2> QED BY <1>4, <2>1, ModSmall, RefModAssumption
<1>6. RefCounts'
  BY <1>5 DEF RefCounts
<1>7. pp_ref' \in [Pages -> 0 .. RefMod - 1]
  <2>1. pp_ref' = [q \in Pages |-> pp_ref'[q]]
    BY DEF PageInsert
  <2>2. \A q \in Pages : pp_ref'[q] \in 0 .. RefMod - 1
    BY <1>4, <1>5, RefModAssumption
  <2> QED BY <2>1, <2>2
<1>8. ASSUME NEW q \in Pages
      PROVE  q \in page_free_list' <=> \/ q \in page_free_list /\ q # p /\ q # t
                                       \/ q = old /\ References(q)' = 0
  BY <1>5 DEF PageInsert, old
<1>9. TypeOK'
  <2>1. pte' \in [Leaves -> Pages \cup {NoPage}]
    BY <1>1, <1>3 DEF TypeOK
  <2>2. pde' \in [Tables -> Pages \cup {NoPage}]
    BY <1>1, <1>2, <1>3 DEF TypeOK
  <2>3. page_free_list' \subseteq Pages
    BY <1>1 DEF PageInsert, TypeOK
  <2> QED BY <1>1, <1>3, <1>7, <2>1, <2>2, <2>3 DEF TypeOK
<1>10. ASSUME NEW q \in Pages
       PROVE  References(q)' = 0 <=> (/\ \A x \in Leaves : pte'[x] # q
                                      /\ \A x \in Tables : pde'[x] # q
                                      /\ \A e \in Envs : env_pgdir'[e] # q)
  BY SumBound DEF References
<1>11. FreeListSound'
  <2> SUFFICES ASSUME NEW q \in Pages
               PROVE  q \in page_free_list' <=> References(q)' = 0
    BY <1>9 DEF FreeListSound, TypeOK
  <2>1. CASE q = p \/ q = t
    <3>1. References(q)' # 0
      <4>1. CASE q = p
        BY <1>10, <1>t, <4>1
      <4>2. CASE q = t
        BY <1>1, <1>2, <1>10, <1>t, <4>2, PagesAssumption
      <4> QED BY <2>1, <4>1, <4>2
    <3> QED BY <1>8, <2>1, <3>1
  <2>2. CASE q # p /\ q # t /\ q = old
    <3>1. q \notin page_free_list
      BY <2>2, FreeIsUnused DEF old
    <3> QED BY <1>8, <2>2, <3>1
  <2>3. CASE q # p /\ q # t /\ q # old
    <3>1. Same(q, p) = 0 /\ Same(q, t) = 0 /\ Same(q, old) = 0
      BY <2>3 DEF Same
    <3>2. References(q)' = References(q)
      BY <1>4, <3>1
    <3> QED BY <1>1, <1>8, <2>3, <3>2 DEF FreeListSound
  <2> QED BY <2>1, <2>2, <2>3
<1>12. Hierarchy'
  <2>1. ASSUME NEW x \in Leaves, pte'[x] # NoPage PROVE pde'[TableOf(x)] # NoPage
    <3>1. TableOf(x) \in Tables
      BY DEF Leaves, TableOf
    <3> QED BY <1>1, <1>2, <1>t, <2>1, <3>1 DEF Hierarchy, tab
  <2>2. ASSUME NEW x \in Tables, pde'[x] # NoPage PROVE env_pgdir'[x[1]] # NoPage
    BY <1>1, <1>3, <1>t, <2>2 DEF Hierarchy, Exists
  <2>3. ASSUME NEW x \in pte_w' PROVE pte'[x] # NoPage
    <3>1. CASE x = l
      BY <1>2, <1>t, <3>1
    <3>2. CASE x # l
      <4>1. x \in pte_w /\ x \in Leaves
        BY <1>3, <2>3, <3>2
      <4> QED BY <1>1, <1>t, <3>2, <4>1 DEF Hierarchy
    <3> QED BY <3>1, <3>2
  <2> QED BY <2>1, <2>2, <2>3 DEF Hierarchy, Exists
<1>13. ASSUME NEW q \in Pages, References(q) = 1, q # p,
              (\E x \in Tables : pde[x] = q) \/ (\E e \in Envs : env_pgdir[e] = q)
       PROVE  References(q)' = 1
  <2>1. q # t
    BY <1>1, <1>2, <1>13, PagesAssumption DEF FreeListSound
  <2>2. q # old
    BY <1>13, MappedIsData, PagesAssumption DEF old
  <2>3. Same(q, p) = 0 /\ Same(q, t) = 0 /\ Same(q, old) = 0
    BY <1>13, <2>1, <2>2 DEF Same
  <2> QED BY <1>4, <1>13, <2>3
<1>14. t # NoPage => References(t)' = 1
  <2> SUFFICES ASSUME t # NoPage PROVE References(t)' = 1
    OBVIOUS
  <2>1. t \in page_free_list /\ t \in Pages /\ t # p
    BY <1>1, <1>2 DEF FreeListSound
  <2>2. t # old
    BY <2>1, FreeIsUnused DEF old
  <2>3. References(t) = 0
    BY <1>1, <2>1 DEF FreeListSound
  <2>4. Same(t, p) = 0 /\ Same(t, t) = 1 /\ Same(t, old) = 0
    BY <2>1, <2>2 DEF Same
  <2> QED BY <1>4, <2>1, <2>3, <2>4
<1>15. ASSUME NEW q \in Pages,
              (\E x \in Tables : pde'[x] = q) \/ (\E e \in Envs : env_pgdir'[e] = q)
       PROVE  References(q)' = 1
  <2>1. CASE q = t
    BY <1>14, <2>1, PagesAssumption
  <2>2. CASE q # t
    <3>1. (\E x \in Tables : pde[x] = q) \/ (\E e \in Envs : env_pgdir[e] = q)
      BY <1>3, <1>t, <1>15, <2>2
    <3>2. References(q) = 1
      BY <1>1, <3>1 DEF TablesPrivate
    <3>3. q # p
      BY <3>1
    <3> QED BY <1>13, <3>1, <3>2, <3>3
  <2> QED BY <2>1, <2>2
<1>16. TablesPrivate'
  BY <1>15 DEF TablesPrivate
<1> QED BY <1>6, <1>9, <1>11, <1>12, <1>16 DEF Inv

LEMMA SysPageAllocInv ==
  ASSUME CountsFit, Inv, NEW l \in Leaves, NEW w \in BOOLEAN, SysPageAlloc(l, w)
  PROVE  Inv'
<1>1. PICK p \in page_free_list : \E t \in PgdirWalk(l, page_free_list \ {p}) :
             PageInsert(l, p, w, t, page_free_list \ {p})
  BY DEF SysPageAlloc
<1>2. PICK t \in PgdirWalk(l, page_free_list \ {p}) :
             PageInsert(l, p, w, t, page_free_list \ {p})
  BY <1>1
<1>3. Exists(EnvOf(l))
  BY DEF SysPageAlloc
<1> QED BY <1>2, <1>3, FreeIsUnused, PageInsertInv

LEMMA SysPageMapInv ==
  ASSUME CountsFit, Inv, NEW src \in Leaves, NEW dst \in Leaves, NEW w \in BOOLEAN,
         SysPageMap(src, dst, w)
  PROVE  Inv'
<1>1. pte[src] # NoPage /\ Exists(EnvOf(dst))
  BY DEF SysPageMap, MayMap
<1>2. /\ pte[src] \in Pages \ page_free_list
      /\ \A t \in Tables : pde[t] # pte[src]
      /\ \A e \in Envs : env_pgdir[e] # pte[src]
  BY <1>1, MappedIsData
<1>3. page_free_list \ {pte[src]} = page_free_list
  BY <1>2
<1>4. PICK t \in PgdirWalk(dst, page_free_list) :
             PageInsert(dst, pte[src], w, t, page_free_list)
  BY DEF SysPageMap
<1>5. /\ t \in PgdirWalk(dst, page_free_list \ {pte[src]})
      /\ PageInsert(dst, pte[src], w, t, page_free_list \ {pte[src]})
  BY <1>3, <1>4, Zenon
<1> HIDE <1>3, <1>4
<1> QED BY <1>1, <1>2, <1>5, PageInsertInv

-----------------------------------------------------------------------------
(***************************************************************************)
(* The other steps                                                         *)
(***************************************************************************)

\* page_alloc for a page directory.
LEMMA EnvSetupVmInv ==
  ASSUME CountsFit, Inv, NEW e \in Envs, EnvSetupVm(e)
  PROVE  Inv'
<1>1. PICK p \in page_free_list :
        /\ page_free_list' = page_free_list \ {p}
        /\ pp_ref' = [pp_ref EXCEPT ![p] = (@ + 1) % RefMod]
        /\ env_pgdir' = [env_pgdir EXCEPT ![e] = p]
  BY DEF EnvSetupVm
<1>2. UNCHANGED <<pde, pte, pte_w>> /\ env_pgdir[e] = NoPage
  BY DEF EnvSetupVm, Exists
<1>3. TypeOK /\ RefCounts /\ FreeListSound /\ TablesPrivate /\ Hierarchy
  BY DEF Inv
<1>4. /\ p \in Pages /\ References(p) = 0
      /\ \A x \in Tables : pde[x] # p
      /\ \A x \in Envs : env_pgdir[x] # p
  BY <1>3, FreeIsUnused DEF FreeListSound
<1>5. env_pgdir'[e] = p /\ \A x \in Envs \ {e} : env_pgdir'[x] = env_pgdir[x]
  BY <1>1, <1>3 DEF TypeOK
<1>6. ASSUME NEW q \in Pages
      PROVE  /\ References(q)' = References(q) + Same(p, q)
             /\ References(q) \in Nat
             /\ References(q)' \in Nat /\ References(q)' < RefMod
  <2> DEFINE a == Count(pte, Leaves, q)
             b == Count(pde, Tables, q)
             c == Count(env_pgdir, Envs, q)
             c1 == Count(env_pgdir', Envs, q)
  <2>1. c1 = c + Same(p, q) - Same(NoPage, q)
    BY <1>2, <1>5, PgdirCount
  <2>2. Same(NoPage, q) = 0 /\ Same(p, q) \in {0, 1}
    BY PagesAssumption DEF Same
  <2>3. a \in Nat /\ b \in Nat /\ c \in Nat
    BY CountNat
  <2>4. References(q) = a + b + c /\ References(q)' = a + b + c1
    BY <1>2 DEF References
  <2>5. References(q)' = References(q) + Same(p, q) /\ References(q) \in Nat
    <3> HIDE DEF a, b, c, c1
    <3> QED BY <2>1, <2>2, <2>3, <2>4
  <2>6. References(q)' \in Nat /\ References(q)' < RefMod
    BY SumBound DEF References
  <2> QED BY <2>5, <2>6
<1>7. RefCounts'
  <2> SUFFICES ASSUME NEW q \in Pages PROVE pp_ref'[q] = References(q)'
    BY DEF RefCounts
  <2>1. CASE q = p
    <3>1. pp_ref'[q] = (References(q) + 1) % RefMod /\ Same(p, q) = 1
      BY <1>1, <1>3, <2>1 DEF TypeOK, RefCounts, Same
    <3> QED BY <1>6, <3>1, ModSmall, RefModAssumption
  <2>2. CASE q # p
    <3>1. pp_ref'[q] = References(q) /\ Same(p, q) = 0
      BY <1>1, <1>3, <2>2 DEF TypeOK, RefCounts, Same
    <3> QED BY <1>6, <3>1
  <2> QED BY <2>1, <2>2
<1>8. TypeOK'
  <2>1. pp_ref' \in [Pages -> 0 .. RefMod - 1]
    <3>1. (pp_ref[p] + 1) % RefMod \in 0 .. RefMod - 1
      BY <1>3, <1>4, RefModAssumption DEF TypeOK
    <3> QED BY <1>1, <1>3, <1>4, <3>1 DEF TypeOK
  <2> QED BY <1>1, <1>2, <1>3, <1>4, <2>1 DEF TypeOK
<1>9. FreeListSound'
  <2> SUFFICES ASSUME NEW q \in Pages
               PROVE  q \in page_free_list' <=> References(q)' = 0
    BY <1>8 DEF FreeListSound, TypeOK
  <2>1. Same(p, q) = IF q = p THEN 1 ELSE 0
    BY DEF Same
  <2>2. q \in page_free_list <=> References(q) = 0
    BY <1>3 DEF FreeListSound
  <2> QED BY <1>1, <1>6, <2>1, <2>2
<1>10. TablesPrivate'
  <2> SUFFICES ASSUME NEW q \in Pages,
                      (\E x \in Tables : pde'[x] = q) \/ (\E x \in Envs : env_pgdir'[x] = q)
               PROVE  References(q)' = 1
    BY DEF TablesPrivate
  <2>1. CASE q = p
    BY <1>4, <1>6, <2>1 DEF Same
  <2>2. CASE q # p
    <3>1. (\E x \in Tables : pde[x] = q) \/ (\E x \in Envs : env_pgdir[x] = q)
      BY <1>2, <1>5, <2>2
    <3>2. References(q) = 1 /\ Same(p, q) = 0
      BY <1>3, <2>2, <3>1 DEF TablesPrivate, Same
    <3> QED BY <1>6, <3>2
  <2> QED BY <2>1, <2>2
<1>11. Hierarchy'
  <2>1. ASSUME NEW x \in Envs, env_pgdir[x] # NoPage PROVE env_pgdir'[x] # NoPage
    BY <1>2, <1>5, <2>1
  <2>2. \A t \in Tables : t[1] \in Envs
    BY DEF Tables
  <2> QED BY <1>2, <1>3, <2>1, <2>2 DEF Hierarchy, Exists
<1> QED BY <1>7, <1>8, <1>9, <1>10, <1>11 DEF Inv

\* A step that only drops references, d[q] of them to each page q, and frees a
\* page when its count gets to 0.
LEMMA DropInv ==
  ASSUME CountsFit, Inv, NEW d,
         \A q \in Pages : d[q] \in Nat /\ References(q) = References(q)' + d[q],
         pp_ref' = [q \in Pages |-> (pp_ref[q] - d[q]) % RefMod],
         page_free_list' = page_free_list \cup
           {q \in Pages : \E i \in 1 .. d[q] : (pp_ref[q] - i) % RefMod = 0},
         env_pgdir' \in [Envs -> Pages \cup {NoPage}],
         pde' \in [Tables -> Pages \cup {NoPage}],
         pte' \in [Leaves -> Pages \cup {NoPage}],
         pte_w' \subseteq Leaves,
         \A t \in Tables : pde'[t] \in {pde[t], NoPage},
         \A e \in Envs : env_pgdir'[e] \in {env_pgdir[e], NoPage},
         Hierarchy'
  PROVE  Inv'
<1>1. TypeOK /\ RefCounts /\ FreeListSound /\ TablesPrivate
  BY DEF Inv
<1>2. ASSUME NEW q \in Pages
      PROVE  /\ References(q) \in Nat /\ References(q) < RefMod
             /\ References(q)' \in Nat /\ References(q)' < RefMod
             /\ References(q)' = References(q) - d[q] /\ d[q] \in Nat
             /\ pp_ref[q] = References(q)
  <2>1. References(q) \in Nat /\ References(q) < RefMod
    BY SumBound DEF References
  <2>2. References(q)' \in Nat /\ References(q)' < RefMod
    BY SumBound DEF References
  <2> QED BY <1>1, <2>1, <2>2 DEF RefCounts
<1>3. \A q \in Pages : pp_ref'[q] = References(q)'
  <2> SUFFICES ASSUME NEW q \in Pages PROVE pp_ref'[q] = References(q)'
    OBVIOUS
  <2>1. pp_ref'[q] = (References(q) - d[q]) % RefMod
    BY <1>2
  <2> QED BY <1>2, <2>1, ModSmall, RefModAssumption
<1>4. TypeOK'
  <2>1. \A q \in Pages : pp_ref'[q] \in 0 .. RefMod - 1
    BY <1>2, <1>3, RefModAssumption
  <2>2. pp_ref' = [q \in Pages |-> pp_ref'[q]]
    OBVIOUS
  <2>3. pp_ref' \in [Pages -> 0 .. RefMod - 1]
    BY <2>1, <2>2
  <2> QED BY <1>1, <2>3 DEF TypeOK
<1>5. FreeListSound'
  <2> SUFFICES ASSUME NEW q \in Pages
               PROVE  q \in page_free_list' <=> References(q)' = 0
    BY <1>4 DEF FreeListSound, TypeOK
  <2>0. /\ References(q) \in Nat /\ References(q) < RefMod /\ pp_ref[q] = References(q)
        /\ References(q)' \in Nat /\ d[q] \in Nat /\ References(q)' = References(q) - d[q]
    BY <1>2
  <2>1. q \in page_free_list <=> References(q) = 0
    BY <1>1 DEF FreeListSound
  <2>2. ASSUME NEW i \in 1 .. d[q]
        PROVE  (pp_ref[q] - i) % RefMod = References(q) - i
    <3>1. References(q) - i \in Nat /\ References(q) - i < RefMod
      BY <2>0, RefModAssumption
    <3> QED BY <2>0, <3>1, ModSmall, RefModAssumption
  <2>3. q \in page_free_list' <=> \/ References(q) = 0
                                  \/ \E i \in 1 .. d[q] : References(q) - i = 0
    BY <2>1, <2>2
  <2>4. (\E i \in 1 .. d[q] : References(q) - i = 0)
          <=> References(q) > 0 /\ References(q) <= d[q]
    <3>1. References(q) > 0 /\ References(q) <= d[q] => References(q) \in 1 .. d[q]
      BY <2>0
    <3> QED BY <2>0, <3>1
  <2> QED BY <2>0, <2>3, <2>4
<1>6. TablesPrivate'
  <2> SUFFICES ASSUME NEW q \in Pages,
                      (\E x \in Tables : pde'[x] = q) \/ (\E e \in Envs : env_pgdir'[e] = q)
               PROVE  References(q)' = 1
    BY DEF TablesPrivate
  <2>1. (\E x \in Tables : pde[x] = q) \/ (\E e \in Envs : env_pgdir[e] = q)
    BY PagesAssumption
  <2>2. References(q) = 1
    BY <1>1, <2>1 DEF TablesPrivate
  <2>3. References(q)' # 0
    BY SumBound DEF References
  <2>4. /\ References(q)' \in Nat /\ d[q] \in Nat
        /\ References(q)' = References(q) - d[q]
    BY <1>2
  <2> QED BY <2>2, <2>3, <2>4
<1> QED BY <1>3, <1>4, <1>5, <1>6 DEF Inv, RefCounts

LEMMA PageRemoveInv ==
  ASSUME CountsFit, Inv, NEW l \in Leaves, SysPageUnmap(l)
  PROVE  Inv'
<1> DEFINE d == [q \in Pages |-> Same(q, pte[l])]
<1>1. TypeOK /\ Hierarchy /\ pte[l] # NoPage
  BY DEF SysPageUnmap, Inv
<1>2. /\ pp_ref' = [q \in Pages |-> (pp_ref[q] - Same(q, pte[l])) % RefMod]
      /\ page_free_list' = page_free_list \cup
           {q \in Pages : q = pte[l] /\ (pp_ref[q] - Same(q, pte[l])) % RefMod = 0}
      /\ pte' = [pte EXCEPT ![l] = NoPage]
      /\ pte_w' = pte_w \ {l}
      /\ UNCHANGED <<env_pgdir, pde>>
  BY DEF SysPageUnmap, PageRemove
<1>3. /\ \A x \in Leaves \ {l} : pte'[x] = pte[x]
      /\ pte'[l] = NoPage
      /\ pte' \in [Leaves -> Pages \cup {NoPage}]
  BY <1>1, <1>2 DEF TypeOK
<1>4. ASSUME NEW q \in Pages
      PROVE  d[q] \in Nat /\ References(q) = References(q)' + d[q]
  <2> DEFINE a == Count(pte, Leaves, q)   a1 == Count(pte', Leaves, q)
             b == Count(pde, Tables, q)
             c == Count(env_pgdir, Envs, q)
  <2>1. a1 = a + Same(NoPage, q) - Same(pte[l], q)
    BY <1>3, PteCount
  <2>2. Same(NoPage, q) = 0 /\ Same(pte[l], q) = d[q] /\ d[q] \in {0, 1}
    BY PagesAssumption DEF Same
  <2>3. a \in Nat /\ b \in Nat /\ c \in Nat
    BY CountNat
  <2>4. References(q) = a + b + c /\ References(q)' = a1 + b + c
    BY <1>2 DEF References
  <2> HIDE DEF a, b, c, a1, d
  <2> QED BY <2>1, <2>2, <2>3, <2>4
<1>5. pp_ref' = [q \in Pages |-> (pp_ref[q] - d[q]) % RefMod]
  BY <1>2
<1>6. page_free_list' = page_free_list \cup
        {q \in Pages : \E i \in 1 .. d[q] : (pp_ref[q] - i) % RefMod = 0}
  <2>1. ASSUME NEW q \in Pages
        PROVE  (q = pte[l] /\ (pp_ref[q] - Same(q, pte[l])) % RefMod = 0)
                 <=> \E i \in 1 .. d[q] : (pp_ref[q] - i) % RefMod = 0
    <3>1. CASE q = pte[l]
      <4>1. d[q] = 1 /\ Same(q, pte[l]) = 1
        BY <3>1 DEF Same
      <4> HIDE DEF d
      <4>2. \A i : i \in 1 .. d[q] <=> i = 1
        BY <4>1
      <4> QED BY <3>1, <4>1, <4>2
    <3>2. CASE q # pte[l]
      <4>1. d[q] = 0
        BY <3>2 DEF Same
      <4> HIDE DEF d
      <4> QED BY <3>2, <4>1
    <3> QED BY <3>1, <3>2
  <2> HIDE DEF d
  <2> QED BY <1>2, <2>1
<1>7. Hierarchy'
  BY <1>1, <1>2, <1>3 DEF Hierarchy, Exists, TypeOK
<1>8. /\ env_pgdir' \in [Envs -> Pages \cup {NoPage}]
      /\ pde' \in [Tables -> Pages \cup {NoPage}]
      /\ pte_w' \subseteq Leaves
      /\ \A t \in Tables : pde'[t] \in {pde[t], NoPage}
      /\ \A e \in Envs : env_pgdir'[e] \in {env_pgdir[e], NoPage}
  BY <1>1, <1>2 DEF TypeOK
<1> HIDE DEF d
<1> QED BY <1>3, <1>4, <1>5, <1>6, <1>7, <1>8, DropInv

LEMMA EnvFreeInv ==
  ASSUME CountsFit, Inv, NEW e \in Envs, EnvFree(e)
  PROVE  Inv'
<1> DEFINE d == [q \in Pages |-> Dropped(e, q)]
           L == {l \in Leaves : EnvOf(l) = e}
           T == {t \in Tables : t[1] = e}
<1>1. TypeOK /\ Hierarchy
  BY DEF Inv
<1>2. /\ pp_ref' = [q \in Pages |-> (pp_ref[q] - Dropped(e, q)) % RefMod]
      /\ page_free_list' = page_free_list \cup
           {q \in Pages : \E i \in 1 .. Dropped(e, q) : (pp_ref[q] - i) % RefMod = 0}
      /\ env_pgdir' = [env_pgdir EXCEPT ![e] = NoPage]
      /\ pde' = [t \in Tables |-> IF t[1] = e THEN NoPage ELSE pde[t]]
      /\ pte' = [l \in Leaves |-> IF EnvOf(l) = e THEN NoPage ELSE pte[l]]
      /\ pte_w' = {l \in pte_w : EnvOf(l) # e}
  BY DEF EnvFree, Freed
<1>3. ASSUME NEW q \in Pages
      PROVE  d[q] \in Nat /\ References(q) = References(q)' + d[q]
  <2> DEFINE a == Count(pte, Leaves, q)      a1 == Count(pte', Leaves, q)
             b == Count(pde, Tables, q)      b1 == Count(pde', Tables, q)
             c == Count(env_pgdir, Envs, q)  c1 == Count(env_pgdir', Envs, q)
             x == Count(pte, L, q)
             y == Count(pde, T, q)
  <2>1. q # NoPage
    BY PagesAssumption
  <2>2. a = a1 + x
    <3>1. \A l \in L : pte'[l] # q
      BY <1>2, <2>1
    <3>2. \A l \in Leaves \ L : pte'[l] = pte[l]
      BY <1>2
    <3>3. L \in SUBSET Leaves
      OBVIOUS
    <3> HIDE DEF L
    <3> QED BY <3>1, <3>2, <3>3, Finite, CountCleared
  <2>3. b = b1 + y
    <3>1. \A t \in T : pde'[t] # q
      BY <1>2, <2>1
    <3>2. \A t \in Tables \ T : pde'[t] = pde[t]
      BY <1>2
    <3>3. T \in SUBSET Tables
      OBVIOUS
    <3> HIDE DEF T
    <3> QED BY <3>1, <3>2, <3>3, Finite, CountCleared
  <2>4. c1 = c + Same(NoPage, q) - Same(env_pgdir[e], q)
    <3>1. env_pgdir'[e] = NoPage /\ \A z \in Envs \ {e} : env_pgdir'[z] = env_pgdir[z]
      BY <1>1, <1>2 DEF TypeOK
    <3> QED BY <3>1, PgdirCount
  <2>5. Same(NoPage, q) = 0 /\ Same(env_pgdir[e], q) \in {0, 1}
    BY <2>1 DEF Same
  <2>6. a1 \in Nat /\ b1 \in Nat /\ c1 \in Nat /\ c \in Nat /\ x \in Nat /\ y \in Nat
    <3>1. IsFiniteSet(L) /\ IsFiniteSet(T)
      BY Finite
    <3> QED BY <3>1, Finite, IndexAssumption, CountBound
  <2>7. References(q) = a + b + c /\ References(q)' = a1 + b1 + c1
    BY DEF References
  <2>8. d[q] = x + y + Same(env_pgdir[e], q)
    BY DEF Dropped
  <2> HIDE DEF a, a1, b, b1, c, c1, x, y, d
  <2> QED BY <2>2, <2>3, <2>4, <2>5, <2>6, <2>7, <2>8
<1>4. /\ pp_ref' = [q \in Pages |-> (pp_ref[q] - d[q]) % RefMod]
      /\ page_free_list' = page_free_list \cup
           {q \in Pages : \E i \in 1 .. d[q] : (pp_ref[q] - i) % RefMod = 0}
  <2>1. \A q \in Pages : d[q] = Dropped(e, q)
    OBVIOUS
  <2> HIDE DEF d
  <2> QED BY <1>2, <2>1
<1>5. /\ env_pgdir' \in [Envs -> Pages \cup {NoPage}]
      /\ pde' \in [Tables -> Pages \cup {NoPage}]
      /\ pte' \in [Leaves -> Pages \cup {NoPage}]
      /\ pte_w' \subseteq Leaves
      /\ \A t \in Tables : pde'[t] \in {pde[t], NoPage}
      /\ \A z \in Envs : env_pgdir'[z] \in {env_pgdir[z], NoPage}
  BY <1>1, <1>2 DEF TypeOK
<1>6. Hierarchy'
  <2>1. ASSUME NEW l \in Leaves
        PROVE  TableOf(l) \in Tables /\ TableOf(l)[1] = EnvOf(l)
    BY DEF Leaves, TableOf, EnvOf
  <2>2. ASSUME NEW l \in Leaves, pte'[l] # NoPage PROVE pde'[TableOf(l)] # NoPage
    BY <1>1, <1>2, <2>1, <2>2 DEF Hierarchy
  <2>3. ASSUME NEW t \in Tables, pde'[t] # NoPage PROVE env_pgdir'[t[1]] # NoPage
    <3>1. t[1] \in Envs /\ t[1] # e /\ env_pgdir[t[1]] # NoPage
      BY <1>1, <1>2, <2>3 DEF Hierarchy, Exists, Tables
    <3> QED BY <1>1, <1>2, <3>1 DEF TypeOK
  <2>4. ASSUME NEW l \in pte_w' PROVE pte'[l] # NoPage
    BY <1>1, <1>2, <2>4 DEF Hierarchy, TypeOK
  <2> QED BY <2>2, <2>3, <2>4 DEF Hierarchy, Exists
<1> HIDE DEF d
<1> QED BY <1>3, <1>4, <1>5, <1>6, DropInv

LEMMA NextInv == CountsFit /\ Inv /\ [Next]_vars => Inv'
<1> SUFFICES ASSUME CountsFit, Inv, [Next]_vars PROVE Inv'
  OBVIOUS
<1>1. ASSUME NEW e \in Envs, EnvSetupVm(e) PROVE Inv'
  BY <1>1, EnvSetupVmInv
<1>2. ASSUME NEW e \in Envs, EnvFree(e) PROVE Inv'
  BY <1>2, EnvFreeInv
<1>3. ASSUME UNCHANGED vars PROVE Inv'
  BY <1>3 DEF vars, Inv, TypeOK, RefCounts, FreeListSound, TablesPrivate, Hierarchy,
              References, Count, Exists
<1>4. ASSUME NEW l \in Leaves, SysPageAllocFails(l) PROVE Inv'
  <2>1. page_free_list' = page_free_list
    BY <1>4 DEF SysPageAllocFails, PageAllocFails
  <2> QED BY <1>3, <1>4, <2>1 DEF SysPageAllocFails, vars
<1>5. ASSUME NEW l \in Leaves, SysPageUnmap(l) PROVE Inv'
  BY <1>5, PageRemoveInv
<1>6. ASSUME NEW l \in Leaves, NEW w \in BOOLEAN, SysPageAlloc(l, w) PROVE Inv'
  BY <1>6, SysPageAllocInv
<1>7. ASSUME NEW l \in Leaves, NEW dst \in Leaves, NEW w \in BOOLEAN, SysPageMap(l, dst, w)
      PROVE  Inv'
  BY <1>7, SysPageMapInv
<1> QED BY <1>1, <1>2, <1>3, <1>4, <1>5, <1>6, <1>7 DEF Next

\* Whatever calls are made and whichever fail for lack of memory, the page
\* counts of pmap.c are exact, so a page is on the free list exactly when
\* nothing points to it, and a page table or directory is nothing else.  The
\* premise is about the constants: fewer entries than a uint16_t counts.
THEOREM PagesCorrect ==
  ASSUME CountsFit
  PROVE  Spec => [](TypeOK /\ RefCounts /\ FreeListSound /\ TablesPrivate /\ Hierarchy)
<1>1. Init => Inv
  BY InitInv
<1>2. Inv /\ [Next]_vars => Inv'
  BY NextInv
<1>3. Inv => TypeOK /\ RefCounts /\ FreeListSound /\ TablesPrivate /\ Hierarchy
  BY DEF Inv
<1> QED BY <1>1, <1>2, <1>3, PTL DEF Spec

\* page_alloc never returns a page that is in use, and no page is lost: on
\* page_free_list is what nothing points to.
THEOREM FreeListCorrect == ASSUME CountsFit PROVE Spec => []FreeListSound
BY PagesCorrect, PTL

\* A page table or a directory is nobody's data and one address space's only:
\* what pgdir_walk takes no user program can map.
THEOREM TablesStayPrivate == ASSUME CountsFit PROVE Spec => []TablesPrivate
BY PagesCorrect, PTL

\* Every entry, count and list has its type, whichever calls fail midway.
THEOREM TypeCorrect == ASSUME CountsFit PROVE Spec => []TypeOK
BY PagesCorrect, PTL

LEMMA InsertWrites ==
  ASSUME TypeOK, NEW l \in Leaves, NEW q \in Pages, NEW w \in BOOLEAN, NEW t, NEW free,
         PageInsert(l, q, w, t, free), NEW x \in pte_w'
  PROVE  \/ w = TRUE /\ pte'[x] = q
         \/ x \in pte_w /\ pte'[x] = pte[x]
<1>1. /\ pte' = [pte EXCEPT ![l] = q]
      /\ pte_w' = IF w THEN pte_w \cup {l} ELSE pte_w \ {l}
  BY DEF PageInsert
<1>2. CASE x = l
  BY <1>1, <1>2 DEF TypeOK
<1>3. CASE x # l
  BY <1>1, <1>3 DEF TypeOK
<1> QED BY <1>2, <1>3

\* No sequence of page calls makes writable a page that nobody could write:
\* sys_page_map and IPC ask for PTE_W of the source.
THEOREM WritesPassedOn == ASSUME CountsFit PROVE Spec => WriteNotGained
<1> DEFINE P == \A p \in Pages \ page_free_list :
                  (\A l \in pte_w : pte[l] # p) => \A l \in pte_w' : pte'[l] # p
<1>1. Inv /\ [Next]_vars => [P]_vars
  <2> SUFFICES ASSUME Inv, Next,
                      NEW p \in Pages \ page_free_list, \A l \in pte_w : pte[l] # p,
                      NEW x \in pte_w'
               PROVE  pte'[x] # p
    OBVIOUS
  <2>0. TypeOK
    BY DEF Inv
  <2>1. ASSUME NEW e \in Envs, EnvSetupVm(e) PROVE pte'[x] # p
    BY <2>1 DEF EnvSetupVm
  <2>2. ASSUME NEW e \in Envs, EnvFree(e) PROVE pte'[x] # p
    <3>1. x \in pte_w /\ x \in Leaves /\ EnvOf(x) # e
      BY <2>0, <2>2 DEF EnvFree, TypeOK
    <3>2. pte'[x] = pte[x]
      BY <2>2, <3>1 DEF EnvFree
    <3> QED BY <3>1, <3>2
  <2>3. ASSUME NEW l \in Leaves, SysPageAllocFails(l) PROVE pte'[x] # p
    BY <2>3 DEF SysPageAllocFails
  <2>4. ASSUME NEW l \in Leaves, SysPageUnmap(l) PROVE pte'[x] # p
    <3>1. x \in pte_w /\ x # l /\ pte' = [pte EXCEPT ![l] = NoPage]
      BY <2>4 DEF SysPageUnmap, PageRemove
    <3> QED BY <2>0, <3>1 DEF TypeOK
  <2>5. ASSUME NEW l \in Leaves, NEW w \in BOOLEAN, SysPageAlloc(l, w) PROVE pte'[x] # p
    <3>1. PICK q \in page_free_list : \E t \in PgdirWalk(l, page_free_list \ {q}) :
                 PageInsert(l, q, w, t, page_free_list \ {q})
      BY <2>5 DEF SysPageAlloc
    <3>2. q \in Pages /\ q # p
      BY <2>0 DEF TypeOK
    <3>3. pte'[x] = q \/ (x \in pte_w /\ pte'[x] = pte[x])
      BY <2>0, <3>1, <3>2, InsertWrites
    <3> QED BY <3>2, <3>3
  <2>6. ASSUME NEW src \in Leaves, NEW dst \in Leaves, NEW w \in BOOLEAN,
               SysPageMap(src, dst, w)
        PROVE  pte'[x] # p
    <3>1. PICK t : PageInsert(dst, pte[src], w, t, page_free_list)
      BY <2>6 DEF SysPageMap
    <3>2. pte[src] \in Pages /\ (w => src \in pte_w)
      BY <2>0, <2>6 DEF SysPageMap, MayMap, TypeOK
    <3>3. (w = TRUE /\ pte'[x] = pte[src]) \/ (x \in pte_w /\ pte'[x] = pte[x])
      BY <2>0, <3>1, <3>2, InsertWrites
    <3> QED BY <3>2, <3>3
  <2> QED BY <2>1, <2>2, <2>3, <2>4, <2>5, <2>6 DEF Next
<1>2. Init => Inv
  BY InitInv
<1>3. Inv /\ [Next]_vars => Inv'
  BY NextInv
<1> QED BY <1>1, <1>2, <1>3, PTL DEF Spec, WriteNotGained
=============================================================================
