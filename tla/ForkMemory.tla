----------------------------- MODULE ForkMemory -----------------------------
(***************************************************************************)
(* What fork() of lib/fork.c promises about memory: every environment has  *)
(* a memory of its own, a child's is its parent's as it was at the call,   *)
(* and afterwards neither sees what the other writes.  Only the pages of   *)
(* Shared are one memory for all.  No page is copied, marked or mapped     *)
(* here: that is CowFork, which implements this.                           *)
(***************************************************************************)
EXTENDS Naturals

CONSTANTS Env, NoEnv, Root, Page, Stack, Shared, Value, Zero, NoValue

VARIABLES
  view,   \* what an environment finds in a page, NoValue where none is mapped
  live,   \* the environments that may run
  child   \* the child whose fork() an environment is in

fmVars == <<view, live, child>>

Nothing == [p \in Page |-> NoValue]

Init ==
  /\ view = [e \in Env |-> Nothing]
  /\ live = {Root}
  /\ child = [e \in Env |-> NoEnv]

\* A write is seen by its writer alone, in a shared page by everyone.  While
\* e is in fork() it writes its own stack only, and the child may still get
\* that: fork() takes the stack while it runs on it.
Readers(e, p) ==
  IF p \in Shared THEN {{x \in Env : view[x][p] # NoValue}}
                  ELSE {{e}} \cup {{e, c} : c \in {child[e]} \ {NoEnv}}

Store(e, p, v) ==
  /\ e \in live /\ view[e][p] # NoValue
  /\ child[e] # NoEnv => p \in Stack
  /\ \E readers \in Readers(e, p) :
       view' = [x \in Env |-> IF x \in readers THEN [view[x] EXCEPT ![p] = v]
                                               ELSE view[x]]
  /\ UNCHANGED <<live, child>>

Alloc(e, p) ==
  /\ e \in live /\ child[e] = NoEnv
  /\ p \in Shared => \A x \in Env : view[x][p] = NoValue
  /\ view' = [view EXCEPT ![e] = [@ EXCEPT ![p] = Zero]]
  /\ UNCHANGED <<live, child>>

Unmap(e, p) ==
  /\ e \in live /\ child[e] = NoEnv
  /\ view' = [view EXCEPT ![e] = [@ EXCEPT ![p] = NoValue]]
  /\ UNCHANGED <<live, child>>

Fork(e, c) ==
  /\ e \in live /\ c \notin live /\ child[e] = NoEnv
  /\ \A x \in Env : child[x] # c
  /\ view' = [view EXCEPT ![c] = view[e]]
  /\ child' = [child EXCEPT ![e] = c]
  /\ UNCHANGED live

\* fork() returns.
Start(e) ==
  /\ e \in live /\ child[e] # NoEnv
  /\ live' = live \cup {child[e]}
  /\ child' = [child EXCEPT ![e] = NoEnv]
  /\ UNCHANGED view

\* A child that is not complete never runs.
Exit(e) ==
  /\ e \in live
  /\ view' = [x \in Env |-> IF x \in {e, child[e]} THEN Nothing ELSE view[x]]
  /\ live' = live \ {e}
  /\ child' = [child EXCEPT ![e] = NoEnv]

Next == \E e \in Env :
  \/ \E p \in Page : Alloc(e, p) \/ Unmap(e, p) \/ \E v \in Value : Store(e, p, v)
  \/ \E c \in Env : Fork(e, c)
  \/ Start(e) \/ Exit(e)

Spec == Init /\ [][Next]_fmVars
=============================================================================
