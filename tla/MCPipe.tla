------------------------------- MODULE MCPipe -------------------------------
(* Pipe among interchangeable processes. *)
EXTENDS Pipe, TLC

\* Bound: two processes at a time are inside a library call, and one of them
\* in pipeisclosed(), which changes nothing that others see.
TwoInCalls ==
  /\ Cardinality({p \in Procs : look[p].busy \/ op[p].kind # "idle"}) <= 2
  /\ Cardinality({p \in Procs : look[p].busy}) <= 1

Symmetry == Permutations(Procs)
=============================================================================
