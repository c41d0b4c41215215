----------------------------- MODULE MCCowFork -----------------------------
(***************************************************************************)
(* CowFork for TLC.  States that differ in which physical pages are used,  *)
(* or in what free ones hold, have the same behaviours: sys_page_alloc     *)
(* clears the page, and nothing depends on its number.  So a state is      *)
(* told by which entries share a page, and by what is in it.               *)
(***************************************************************************)
EXTENDS CowFork

Sharers(f) == {<<e, p>> \in Env \X Page : pa[e][p] = f} \cup {<<e, NoPage>> : e \in {x \in Env : pftemp[x] = f}}
Use(f) == IF f = NoFrame THEN {} ELSE {<<Sharers(f), mem[f]>>}

Canonical ==
  <<[e \in Env |-> [p \in Page |-> <<Use(pa[e][p]), perm[e][p]>>]], [e \in Env |-> Use(pftemp[e])],
    [e \in Env |-> {<<t[1], Use(t[2]), t[3]>> : t \in tlb[e]}],
    [e \in Env |-> IF status[e] = "embryo" THEN parent[e] ELSE NoEnv],
    status, upcalls, child, step, left, cur, faulting>>
=============================================================================
