------------------------------ MODULE Channel ------------------------------
(***************************************************************************)
(* What a pipe promises about the bytes in it: they come out in the order  *)
(* in which they were put in, each of them once, and no more than Size are *)
(* under way.                                                              *)
(***************************************************************************)
EXTENDS Naturals, Sequences

CONSTANTS Bytes, Size

VARIABLES
  queue,  \* the bytes under way
  got     \* what the call of read() under way has received

chVars == <<queue, got>>

Init == queue = <<>> /\ got = <<>>

Send(b) ==
  /\ Len(queue) < Size
  /\ queue' = Append(queue, b)
  /\ UNCHANGED got

Receive ==
  /\ queue # <<>>
  /\ got' = Append(got, Head(queue))
  /\ queue' = Tail(queue)

\* read() begins or is over.
NewRead == got' = <<>> /\ UNCHANGED queue

Next == NewRead \/ Receive \/ \E b \in Bytes : Send(b)

Spec == Init /\ [][Next]_chVars
=============================================================================
