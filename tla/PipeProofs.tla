----------------------------- MODULE PipeProofs -----------------------------
(***************************************************************************)
(* Pipe for any number of processes and descriptors: descriptors are whole *)
(* unless their owner is opening or closing them, and on one CPU, outside  *)
(* fork(), pipeisclosed() is right in both of its answers.                 *)
(***************************************************************************)
EXTENDS Pipe, PipeRing, FiniteSetTheorems, SequenceTheorems, TLAPS

-----------------------------------------------------------------------------
(***************************************************************************)
(* RingTypes                                                                   *)
(***************************************************************************)
LEMMA Counts ==
  /\ \A e : IsFiniteSet(FdMaps(e)) /\ Cardinality(FdMaps(e)) \in Nat
  /\ IsFiniteSet(DataMaps) /\ Cardinality(DataMaps) \in Nat
<1>1. IsFiniteSet(Procs \X Slots)
  <2>1. IsFiniteSet(Slots)
    BY PipeAssumption, FS_Interval DEF Slots
  <2> QED BY <2>1, PipeAssumption, FS_Product
<1>2. (\A e : FdMaps(e) \in SUBSET (Procs \X Slots)) /\ DataMaps \in SUBSET (Procs \X Slots)
  BY DEF FdMaps, DataMaps
<1>3. (\A e : IsFiniteSet(FdMaps(e))) /\ IsFiniteSet(DataMaps)
  BY <1>1, <1>2, FS_Subset
<1> QED BY <1>3, FS_CardinalityType

LEMMA Start == 1 \in Slots /\ Slots \subseteq Int /\ NSlots \in Slots
BY PipeAssumption DEF Slots

LEMMA IdleOp == \A p \in Procs : Idle(p) \in Ops /\ Idle(p).kind = "idle"
BY Start DEF Idle, Ops, Kinds

LEMMA NoLookType == NoLook \in Looks /\ ~NoLook.busy
BY Start DEF NoLook, Looks, Unread

LEMMA AtStep ==
  ASSUME NEW o \in Ops
  PROVE  /\ [o EXCEPT !.at = 2] \in Ops
         /\ [o EXCEPT !.at = 3] \in Ops
         /\ [o EXCEPT !.at = 4] \in Ops
         /\ \A d \in Slots : [o EXCEPT !.dst = d, !.at = 1] \in Ops
<1> DEFINE K == 1 .. 4
<1>1. Ops = [kind : Kinds, src : Slots, dst : Slots, child : Procs, at : K]
  BY DEF Ops
<1>2. 1 \in K /\ 2 \in K /\ 3 \in K /\ 4 \in K
  OBVIOUS
<1> HIDE DEF K
<1>3. \A k \in K : [o EXCEPT !.at = k] \in Ops
  BY <1>1
<1>4. \A d \in Slots, k \in K : [o EXCEPT !.dst = d, !.at = k] \in Ops
  BY <1>1
<1> QED BY <1>2, <1>3, <1>4

LEMMA NextOps ==
  ASSUME NEW p \in Procs, op[p] \in Ops
  PROVE  /\ Closing(p) => AfterClose(p) \in Ops
         /\ \A k \in Kinds : Walk(op[p], k) \in Ops
<1>1. ASSUME op[p].dst < NSlots PROVE op[p].dst + 1 \in Slots
  BY <1>1, PipeAssumption DEF Ops, Slots
<1>2. ASSUME Closing(p) PROVE AfterClose(p) \in Ops
  <2> DEFINE o == op[p]
  <2>1. /\ [o EXCEPT !.at = 3] \in Ops
        /\ o.dst < NSlots => [o EXCEPT !.dst = o.dst + 1, !.at = 1] \in Ops
    BY <1>1, AtStep
  <2>2. CASE o.kind = "close"
    BY <2>2, IdleOp DEF AfterClose
  <2>3. CASE o.kind = "dup"
    BY <2>1, <2>3 DEF AfterClose
  <2>4. CASE o.kind = "exit"
    BY <2>1, <2>4 DEF AfterClose
  <2> QED BY <1>2, <2>2, <2>3, <2>4 DEF Closing
<1>3. \A k \in Kinds : Walk(op[p], k) \in Ops
  BY <1>1, Start DEF Walk, Ops
<1> QED BY <1>2, <1>3

LEMMA TypeInit == Init => TypeOK
<1> SUFFICES ASSUME Init PROVE TypeOK
  OBVIOUS
<1>1. Cardinality(running) <= NCpu
  BY FS_EmptySet, PipeAssumption DEF Init
<1> QED BY <1>1, IdleOp, NoLookType DEF Init, TypeOK

LEMMA RunningFinite ==
  ASSUME TypeOK
  PROVE  /\ IsFiniteSet(running)
         /\ \A p \in running : Cardinality(running \ {p}) <= NCpu
<1>1. running \in SUBSET Procs
  BY DEF TypeOK
<1>2. IsFiniteSet(running)
  BY <1>1, PipeAssumption, FS_Subset
<1>3. Cardinality(running) \in Nat
  BY <1>2, FS_CardinalityType
<1>4. ASSUME NEW p \in running PROVE Cardinality(running \ {p}) <= NCpu
  <2>1. Cardinality(running \ {p}) = Cardinality(running) - 1
    BY <1>2, FS_RemoveElement
  <2> QED BY <1>3, <2>1, PipeAssumption DEF TypeOK
<1> QED BY <1>2, <1>4

LEMMA TypeStep == TypeOK /\ [Next]_vars => TypeOK'
<1> SUFFICES ASSUME TypeOK, [Next]_vars PROVE TypeOK'
  OBVIOUS
<1> USE DEF TypeOK
<1>s. CASE UNCHANGED vars
  BY <1>s DEF vars
<1>1. ASSUME NEW p \in Procs, Dispatch(p) PROVE TypeOK'
  <2>1. Cardinality(running') <= NCpu
    <3>1. IsFiniteSet(running)
      BY RunningFinite
    <3>2. Cardinality(running) \in Nat
      BY <3>1, FS_CardinalityType
    <3>3. Cardinality(running \cup {p}) = Cardinality(running) + 1
      BY <3>1, <1>1, FS_AddElement DEF Dispatch
    <3> QED BY <3>2, <3>3, <1>1, PipeAssumption DEF Dispatch
  <2> QED BY <2>1, <1>1 DEF Dispatch, Looks
<1>2. ASSUME NEW p \in Procs, Preempt(p) PROVE TypeOK'
  BY <1>2, RunningFinite DEF Preempt
<1>3. ASSUME NEW p \in Procs, Die(p) PROVE TypeOK'
  BY <1>3, RunningFinite, IdleOp, NoLookType DEF Die
<1>4. ASSUME NEW p \in Procs, LibraryCall(p) PROVE TypeOK'
  <2>1. ASSUME NEW i \in Slots, NEW j \in Slots, MakePipe(p, i, j) PROVE TypeOK'
    BY <2>1 DEF MakePipe, Ends
  <2>2. ASSUME NEW i \in Slots, NEW j \in Slots, Dup(p, i, j) PROVE TypeOK'
    <3>1. \A k \in 1 .. 4 : [Idle(p) EXCEPT !.kind = "dup", !.src = i, !.dst = j, !.at = k] \in Ops
      BY Start DEF Idle, Ops, Kinds
    <3>2. (IF fd[p][j] # "none" THEN 1 ELSE 3) \in 1 .. 4
      OBVIOUS
    <3> QED BY <2>2, <3>1, <3>2 DEF Dup, Begin
  <2>3. ASSUME NEW i \in Slots, Close(p, i) PROVE TypeOK'
    BY <2>3, IdleOp DEF Close, Begin, Ops, Kinds, Idle
  <2>4. ASSUME NEW i \in Slots, Ask(p, i) PROVE TypeOK'
    BY <2>4, NoLookType DEF Ask, Looks
  <2>5. ASSUME Exit(p) PROVE TypeOK'
    BY <2>5, IdleOp, Start DEF Exit, Begin, Ops, Kinds, Idle
  <2>6. ASSUME NEW c \in Procs, Fork(p, c) PROVE TypeOK'
    BY <2>6, IdleOp, Start DEF Fork, Begin, Ops, Kinds, Idle
  <2> QED BY <1>4, <2>1, <2>2, <2>3, <2>4, <2>5, <2>6 DEF LibraryCall
<1>5. ASSUME NEW p \in Procs, SystemCall(p) PROVE TypeOK'
  <2>o. op[p] \in Ops /\ op[p].dst \in Slots /\ op[p].src \in Slots /\ op[p].child \in Procs
    BY DEF Ops
  <2>1. ASSUME UnmapFd(p) PROVE TypeOK'
    <3>1. [op[p] EXCEPT !.at = 2] \in Ops
      BY <2>o, AtStep
    <3> QED BY <2>1, <2>o, <3>1 DEF UnmapFd
  <2>2. ASSUME UnmapData(p) PROVE TypeOK'
    BY <2>2, <2>o, NextOps DEF UnmapData
  <2>3. ASSUME DupData(p) PROVE TypeOK'
    <3>1. [op[p] EXCEPT !.at = 4] \in Ops
      BY <2>o, AtStep
    <3>2. (data[p][op[p].dst] \/ data[p][op[p].src]) \in BOOLEAN
      BY <2>o
    <3> QED BY <2>3, <2>o, <3>1, <3>2 DEF DupData
  <2>4. ASSUME DupFd(p) PROVE TypeOK'
    BY <2>4, <2>o, IdleOp DEF DupFd
  <2>5. ASSUME Destroy(p) PROVE TypeOK'
    BY <2>5, <1>3 DEF Destroy
  <2>6. ASSUME ForkFd(p) PROVE TypeOK'
    BY <2>6, <2>o, NextOps DEF ForkFd, Kinds
  <2>7. ASSUME ForkData(p) PROVE TypeOK'
    BY <2>7, <2>o, NextOps DEF ForkData, Kinds
  <2>8. ASSUME StartChild(p) PROVE TypeOK'
    BY <2>8, <2>o, IdleOp DEF StartChild
  <2> QED BY <1>5, <2>1, <2>2, <2>3, <2>4, <2>5, <2>6, <2>7, <2>8 DEF SystemCall
<1>6. ASSUME NEW p \in Procs, Looking(p) PROVE TypeOK'
  <2>1. ASSUME CountFd(p) PROVE TypeOK'
    <3>1. Cardinality(FdMaps(fd[p][look[p].slot])) \in Int
      BY Counts
    <3>2. [look[p] EXCEPT !.fdRef = Cardinality(FdMaps(fd[p][look[p].slot]))] \in Looks
      BY <3>1 DEF Looks
    <3> QED BY <2>1, <3>2 DEF CountFd
  <2>2. ASSUME CountData(p) PROVE TypeOK'
    <3>1. Cardinality(DataMaps) \in Int
      BY Counts
    <3>2. [look[p] EXCEPT !.dataRef = Cardinality(DataMaps)] \in Looks
      BY <3>1 DEF Looks
    <3> QED BY <2>2, <3>2 DEF CountData
  <2>3. ASSUME Returns(p) PROVE TypeOK'
    BY <2>3, NoLookType DEF Returns
  <2>4. ASSUME Again(p) PROVE TypeOK'
    BY <2>4 DEF Again, Looks, Unread
  <2> QED BY <1>6, <2>1, <2>2, <2>3, <2>4 DEF Looking, ReturnsClosed, ReturnsOpen
<1> QED BY <1>s, <1>1, <1>2, <1>3, <1>4, <1>5, <1>6 DEF Next

\* Every field keeps to its type: no more processes run than there are CPUs,
\* and calls stay within the descriptor table.
THEOREM TypeCorrect == Spec => []TypeOK
BY TypeInit, TypeStep, PTL DEF Spec

-----------------------------------------------------------------------------
(***************************************************************************)
(* Descriptors are whole                                                   *)
(***************************************************************************)
LEMMA PairInit == Init => PairInv
<1> SUFFICES ASSUME Init PROVE PairInv
  OBVIOUS
<1>1. TypeOK
  BY TypeInit
<1>2. \A p \in Procs : op[p] = Idle(p) /\ op[p].kind = "idle" /\ ~look[p].busy
  BY IdleOp, NoLookType DEF Init
<1>3. Paired /\ Inactive
  BY <1>2 DEF Init, Paired, Inactive
<1>4. Duplicating /\ OneParent /\ Copied /\ Asking
  BY <1>2 DEF Duplicating, OneParent, Copied, Asking, Forking
<1> QED BY <1>1, <1>3, <1>4 DEF PairInv

\* Steps of the scheduler and of pipeisclosed() change no descriptor.
LEMMA PairQuiet ==
  ASSUME PairInv, UNCHANGED <<status, fd, data, op>>,
         \A p \in Procs : look'[p].busy =>
           \/ look[p].busy /\ look'[p].slot = look[p].slot
           \/ /\ status[p] = "live" /\ op[p].kind = "idle"
              /\ fd[p][look'[p].slot] # "none"
  PROVE  Paired' /\ Inactive' /\ Duplicating' /\ OneParent' /\ Copied' /\ Asking'
<1>1. Paired'
  BY DEF PairInv, Paired
<1>2. Inactive'
  BY DEF PairInv, Inactive
<1>3. Duplicating'
  BY DEF PairInv, Duplicating
<1>4. OneParent' /\ Copied'
  BY DEF PairInv, OneParent, Copied, CopiedTo, Forking
<1>5. Asking'
  BY DEF PairInv, Asking
<1> QED BY <1>1, <1>2, <1>3, <1>4, <1>5

\* A process that runs is nobody's unfinished child.
LEMMA RunsAlone ==
  ASSUME PairInv, NEW p \in running
  PROVE  /\ p \in Procs /\ status[p] = "live"
         /\ \A q \in Procs : Forking(q) => op[q].child # p
BY DEF PairInv, TypeOK, Copied, CopiedTo

\* A step of p that is not one of fork() leaves the copies of others alone.
LEMMA CopiesKept ==
  ASSUME PairInv, NEW p \in running, ~Forking(p)',
         \A q \in Procs \ {p} : op'[q] = op[q] /\ fd'[q] = fd[q] /\ data'[q] = data[q],
         \A q \in Procs : status[q] = "embryo" => status'[q] = "embryo"
  PROVE  OneParent' /\ Copied'
<1>1. \A q \in Procs : Forking(q)' => Forking(q) /\ q # p /\ op'[q] = op[q]
  BY DEF Forking
<1>2. OneParent'
  BY <1>1 DEF OneParent, PairInv
<1>3. ASSUME NEW q \in Procs, Forking(q)' PROVE CopiedTo(q, op[q].child)'
  <2>1. /\ op[q].child \in Procs \ {p} /\ q \in Procs \ {p}
        /\ CopiedTo(q, op[q].child) /\ op'[q] = op[q]
    BY <1>1, <1>3, RunsAlone DEF PairInv, Copied, TypeOK, Ops
  <2> QED BY <2>1 DEF CopiedTo
<1> QED BY <1>1, <1>2, <1>3 DEF Copied

LEMMA DiePaired ==
  ASSUME PairInv, NEW p \in Procs, Die(p)
  PROVE  Paired' /\ Inactive' /\ Duplicating' /\ OneParent' /\ Copied' /\ Asking'
<1> USE DEF Die, PairInv, TypeOK
<1>1. op'[p].kind = "idle" /\ ~look'[p].busy
  BY IdleOp, NoLookType
<1>2. Paired'
  BY <1>1 DEF Paired
<1>3. Inactive'
  BY <1>1 DEF Inactive
<1>4. Duplicating'
  BY <1>1 DEF Duplicating
<1>5. OneParent' /\ Copied'
  <2>1. ~Forking(p)' /\ status[p] = "live"
    BY <1>1 DEF Forking
  <2> QED BY <2>1, CopiesKept
<1>6. Asking'
  BY <1>1 DEF Asking
<1> QED BY <1>2, <1>3, <1>4, <1>5, <1>6

\* A process that begins a call has whole descriptors and looks at none.
LEMMA CallBegins ==
  ASSUME PairInv, NEW p \in Procs, op[p].kind = "idle", ~look[p].busy,
         UNCHANGED <<fd, data, look>>,
         \A q \in Procs : q # p => op'[q] = op[q],
         \A q \in Procs : status'[q] = "live" => status[q] = "live"
  PROVE  Paired' /\ Asking'
<1>1. ASSUME NEW q \in Procs, status'[q] = "live", NEW i \in Slots
      PROVE  /\ fd[q][i] # "none" => data[q][i]
             /\ data[q][i] /\ fd[q][i] = "none" =>
                  op'[q].kind \in {"close", "dup", "exit"} /\ op'[q].dst = i
  BY <1>1 DEF PairInv, Paired
<1>2. Paired'
  BY <1>1 DEF Paired
<1>3. ASSUME NEW q \in Procs, look[q].busy
      PROVE  op'[q].kind = "idle" /\ fd[q][look[q].slot] # "none"
  BY <1>3 DEF PairInv, Asking
<1>4. Asking'
  BY <1>3 DEF Asking
<1> QED BY <1>2, <1>4

LEMMA CallPaired ==
  ASSUME PairInv, NEW p \in Procs, LibraryCall(p)
  PROVE  Paired' /\ Inactive' /\ Duplicating' /\ OneParent' /\ Copied' /\ Asking'
<1> USE DEF PairInv, TypeOK, Ready
<1>0. p \in running /\ op[p].kind = "idle" /\ ~look[p].busy
  BY DEF LibraryCall, MakePipe, Dup, Close, Ask, Exit, Fork, Begin
<1>a. status[p] = "live" /\ \A q \in Procs : Forking(q) => op[q].child # p
  BY <1>0, RunsAlone
<1>1. ASSUME NEW i \in Slots, NEW j \in Slots, MakePipe(p, i, j)
      PROVE  Paired' /\ Inactive' /\ Duplicating' /\ OneParent' /\ Copied' /\ Asking'
  <2> USE <1>1, <1>0, <1>a DEF MakePipe
  <2>1. Paired'
    BY DEF Paired
  <2>2. Inactive'
    BY DEF Inactive
  <2>3. Duplicating'
    BY DEF Duplicating
  <2>4. OneParent' /\ Copied'
    <3>1. ~Forking(p)'
      BY DEF Forking
    <3> QED BY <3>1, CopiesKept
  <2>5. Asking'
    BY DEF Asking
  <2> QED BY <2>1, <2>2, <2>3, <2>4, <2>5
<1>2. ASSUME NEW i \in Slots, NEW j \in Slots, Dup(p, i, j)
      PROVE  Paired' /\ Inactive' /\ Duplicating' /\ OneParent' /\ Copied' /\ Asking'
  <2>o. /\ op'[p].kind = "dup" /\ op'[p].dst = j /\ op'[p].src = i
        /\ op'[p].at = IF fd[p][j] # "none" THEN 1 ELSE 3
        /\ UNCHANGED <<status, running, fd, data, look>>
        /\ \A q \in Procs : q # p => op'[q] = op[q]
    BY <1>2 DEF Dup, Begin, Idle
  <2>1. Paired' /\ Asking'
    BY <2>o, <1>0, CallBegins
  <2>2. Inactive'
    BY <2>o, <1>a DEF Inactive
  <2>3. Duplicating'
    <3>0. fd[p][j] = "none" => ~data[p][j]
      BY <1>0, <1>a DEF Paired
    <3>1. op'[p].at = 3 => fd[p][j] = "none" /\ ~data[p][j]
      BY <2>o, <3>0
    <3>2. op'[p].at # 4
      BY <2>o
    <3> QED BY <3>1, <3>2, <2>o DEF Duplicating
  <2>4. OneParent' /\ Copied'
    <3>1. ~Forking(p)'
      BY <2>o DEF Forking
    <3> QED BY <3>1, <2>o, <1>0, CopiesKept
  <2> QED BY <2>1, <2>2, <2>3, <2>4
<1>3. ASSUME Exit(p) \/ \E i \in Slots : Close(p, i)
      PROVE  Paired' /\ Inactive' /\ Duplicating' /\ OneParent' /\ Copied' /\ Asking'
  <2>o. /\ op'[p].kind \in {"close", "exit"}
        /\ UNCHANGED <<status, running, fd, data, look>>
        /\ \A q \in Procs : q # p => op'[q] = op[q]
    BY <1>3 DEF Close, Exit, Begin, Idle
  <2>1. Paired' /\ Asking'
    BY <2>o, <1>0, CallBegins
  <2>2. Inactive'
    BY <2>o, <1>a DEF Inactive
  <2>3. Duplicating'
    BY <2>o DEF Duplicating
  <2>4. OneParent' /\ Copied'
    <3>1. ~Forking(p)'
      BY <2>o DEF Forking
    <3> QED BY <3>1, <2>o, <1>0, CopiesKept
  <2> QED BY <2>1, <2>2, <2>3, <2>4
<1>4. ASSUME NEW i \in Slots, Ask(p, i)
      PROVE  Paired' /\ Inactive' /\ Duplicating' /\ OneParent' /\ Copied' /\ Asking'
  <2>1. look'[p].slot = i /\ \A q \in Procs : q # p => look'[q] = look[q]
    BY <1>4 DEF Ask, NoLook
  <2> QED BY <2>1, <1>4, <1>0, <1>a, PairQuiet DEF Ask
<1>5. ASSUME NEW c \in Procs, Fork(p, c)
      PROVE  Paired' /\ Inactive' /\ Duplicating' /\ OneParent' /\ Copied' /\ Asking'
  <2>o. /\ op'[p].kind = "forkFd" /\ op'[p].child = c /\ op'[p].dst = 1
        /\ status[c] = "free" /\ status' = [status EXCEPT ![c] = "embryo"]
        /\ UNCHANGED <<running, fd, data, look>>
        /\ \A q \in Procs : q # p => op'[q] = op[q]
    BY <1>5 DEF Fork, Begin, Idle
  <2>1. Paired' /\ Asking'
    BY <2>o, <1>0, CallBegins
  <2>2. Inactive'
    BY <2>o, <1>a DEF Inactive
  <2>3. Duplicating'
    <3>1. \A q \in Procs : op'[q].kind = "dup" => op'[q] = op[q]
      BY <2>o
    <3> QED BY <3>1, <2>o DEF Duplicating
  <2>4. OneParent'
    <3>1. \A q \in Procs : q # p /\ Forking(q)' =>
            Forking(q) /\ op'[q].child = op[q].child /\ op[q].child # c
      BY <2>o DEF Forking, Copied, CopiedTo
    <3> QED BY <3>1, <2>o DEF OneParent
  <2>6. ASSUME NEW q \in Procs, Forking(q)' PROVE CopiedTo(q, op[q].child)'
    <3>1. CASE q = p
      BY <3>1, <2>o DEF CopiedTo, Slots
    <3>2. CASE q # p
      <4>1. Forking(q) /\ op'[q] = op[q] /\ CopiedTo(q, op[q].child)
        BY <2>6, <3>2, <2>o DEF Forking, Copied
      <4>2. status'[op[q].child] = "embryo"
        BY <4>1, <2>o DEF CopiedTo, Ops
      <4> QED BY <4>1, <4>2, <2>o DEF CopiedTo
    <3> QED BY <3>1, <3>2
  <2> QED BY <2>1, <2>2, <2>3, <2>4, <2>6 DEF Copied
<1> QED BY <1>1, <1>2, <1>3, <1>4, <1>5 DEF LibraryCall

\* A system call of p in close(), dup() or exit(): `op' and the pages of others
\* stay as they are.
LEMMA OwnCallPaired ==
  ASSUME PairInv, NEW p \in Procs,
         UnmapFd(p) \/ UnmapData(p) \/ DupData(p) \/ DupFd(p)
  PROVE  Paired' /\ Inactive' /\ Duplicating' /\ OneParent' /\ Copied' /\ Asking'
<1> USE DEF PairInv, TypeOK
<1>0. /\ p \in running /\ op[p] \in Ops /\ op[p].kind \in {"close", "dup", "exit"}
      /\ UNCHANGED <<status, running, look>>
      /\ \A q \in Procs \ {p} : op'[q] = op[q] /\ fd'[q] = fd[q] /\ data'[q] = data[q]
  BY DEF UnmapFd, UnmapData, DupData, DupFd, Closing
<1>a. status[p] = "live"
  BY <1>0
<1>d. op[p].dst \in Slots /\ op[p].src \in Slots /\ op[p].at \in 1 .. 4
  BY <1>0 DEF Ops
<1>k. op'[p].kind \in {"idle", "close", "dup", "exit"}
  <2>1. CASE UnmapData(p)
    <3>1. AfterClose(p).kind \in {"idle", "dup", "exit"}
      BY <1>0, IdleOp DEF AfterClose, Ops
    <3> QED BY <2>1, <3>1 DEF UnmapData
  <2>2. CASE UnmapFd(p) \/ DupData(p)
    BY <2>2, <1>0 DEF UnmapFd, DupData, Ops
  <2>3. CASE DupFd(p)
    BY <2>3, IdleOp DEF DupFd
  <2> QED BY <2>1, <2>2, <2>3
<1>1. Inactive'
  BY <1>0, <1>a DEF Inactive
<1>2. OneParent' /\ Copied'
  <2>1. ~Forking(p)'
    BY <1>k DEF Forking
  <2> QED BY <2>1, <1>0, CopiesKept
<1>3. Asking'
  BY <1>0 DEF Asking
<1>4. SUFFICES /\ \A i \in Slots :
                    /\ fd'[p][i] # "none" => data'[p][i]
                    /\ data'[p][i] /\ fd'[p][i] = "none" =>
                         op'[p].kind \in {"close", "dup", "exit"} /\ op'[p].dst = i
               /\ op'[p].kind = "dup" =>
                    LET i == op'[p].src  j == op'[p].dst
                    IN  /\ op'[p].at \in {3, 4} => fd'[p][j] = "none"
                        /\ op'[p].at = 3 => ~data'[p][j]
                        /\ op'[p].at = 4 => data'[p][j] = (i # j /\ data'[p][i])
  <2>1. Paired'
    BY <1>0, <1>4 DEF Paired
  <2>2. Duplicating'
    <3>1. \A q \in Procs \ {p} : op'[q] = op[q] /\ fd'[q] = fd[q] /\ data'[q] = data[q]
      BY <1>0
    <3> QED BY <3>1, <1>4 DEF Duplicating
  <2> QED BY <1>1, <1>2, <1>3, <2>1, <2>2
<1>p. \A i \in Slots :
        /\ fd[p][i] # "none" => data[p][i]
        /\ data[p][i] /\ fd[p][i] = "none" => op[p].dst = i
  BY <1>0, <1>a DEF Paired
<1>5. CASE UnmapFd(p)
  <2>1. op'[p].at = 2 /\ op'[p].kind = op[p].kind /\ op'[p].dst = op[p].dst
    BY <1>5, <1>0 DEF UnmapFd, Ops
  <2> QED BY <2>1, <1>5, <1>0, <1>d, <1>p DEF UnmapFd
<1>6. CASE UnmapData(p)
  <2>d. /\ fd'[p] = [fd[p] EXCEPT ![op[p].dst] = "none"]
        /\ data'[p] = [data[p] EXCEPT ![op[p].dst] = FALSE]
    BY <1>6 DEF UnmapData
  <2>1. \A i \in Slots : fd'[p][i] # "none" <=> data'[p][i]
    BY <2>d, <1>d, <1>p
  <2>2. op'[p].kind = "dup" => op'[p].at = 3 /\ op'[p].dst = op[p].dst
    BY <1>6, <1>0, IdleOp DEF UnmapData, AfterClose, Ops
  <2>3. fd'[p][op[p].dst] = "none" /\ ~data'[p][op[p].dst]
    BY <1>6, <1>d DEF UnmapData
  <2> QED BY <2>1, <2>2, <2>3
<1>7. CASE DupData(p)
  <2>1. /\ op'[p].at = 4 /\ op'[p].kind = "dup" /\ op'[p].dst = op[p].dst
        /\ op'[p].src = op[p].src
    BY <1>7, <1>0 DEF DupData, Ops
  <2>2. fd[p][op[p].dst] = "none" /\ ~data[p][op[p].dst]
    BY <1>7, <1>0 DEF DupData, Duplicating
  <2>3. /\ fd' = fd
        /\ \A i \in Slots : data'[p][i] =
             IF i = op[p].dst THEN data[p][op[p].src] ELSE data[p][i]
    BY <1>7, <1>d, <2>2 DEF DupData
  <2> QED BY <2>1, <2>2, <2>3, <1>d, <1>p
<1>8. CASE DupFd(p)
  <2>1. op'[p].kind = "idle"
    BY <1>8, IdleOp DEF DupFd
  <2>2. /\ fd[p][op[p].dst] = "none"
        /\ data[p][op[p].dst] = (op[p].src # op[p].dst /\ data[p][op[p].src])
    BY <1>8, <1>0 DEF DupFd, Duplicating
  <2>3. /\ data' = data
        /\ \A i \in Slots : fd'[p][i] =
             IF i = op[p].dst THEN fd[p][op[p].src] ELSE fd[p][i]
    BY <1>8, <1>d DEF DupFd
  <2> QED BY <2>1, <2>2, <2>3, <1>d, <1>p
<1> QED BY <1>5, <1>6, <1>7, <1>8

\* A system call of p in fork(): it changes pages of the embryo only.
LEMMA ForkCallPaired ==
  ASSUME PairInv, NEW p \in Procs, ForkFd(p) \/ ForkData(p)
  PROVE  Paired' /\ Inactive' /\ Duplicating' /\ OneParent' /\ Copied' /\ Asking'
<1> DEFINE c == op[p].child
<1> USE DEF PairInv, TypeOK
<1>0. /\ p \in running /\ op[p] \in Ops /\ op[p].kind \in {"forkFd", "forkData"}
      /\ UNCHANGED <<status, running, look>>
      /\ c \in Procs /\ op[p].dst \in Slots /\ Forking(p)
      /\ \A q \in Procs \ {p} : op'[q] = op[q]
      /\ \A q \in Procs \ {c} : fd'[q] = fd[q] /\ data'[q] = data[q]
  BY DEF ForkFd, ForkData, Forking, Ops
<1>a. status[p] = "live" /\ status[c] = "embryo" /\ p # c
  BY <1>0, RunsAlone DEF Copied, CopiedTo
<1>k. op'[p].child = c /\ op'[p].kind \in {"forkFd", "forkData", "start"}
  <2>1. \A k \in {"forkData", "start"} :
          Walk(op[p], k).child = c /\ Walk(op[p], k).kind \in {op[p].kind, k}
    BY <1>0 DEF Walk, Ops
  <2>2. op'[p] = Walk(op[p], "forkData") \/ op'[p] = Walk(op[p], "start")
    BY DEF ForkFd, ForkData
  <2> QED BY <2>1, <2>2, <1>0
<1>1. Paired'
  <2>1. ASSUME NEW q \in Procs, status'[q] = "live", NEW i \in Slots
        PROVE  /\ fd'[q][i] = fd[q][i] /\ data'[q][i] = data[q][i] /\ status[q] = "live"
               /\ op'[q] = op[q] \/ op[q].kind \notin {"close", "dup", "exit"}
    BY <2>1, <1>0, <1>a
  <2> QED BY <2>1 DEF Paired
<1>2. Inactive'
  BY <1>0, <1>a DEF Inactive
<1>3. Duplicating'
  <2>1. \A q \in Procs : op'[q].kind = "dup" => /\ op'[q] = op[q] /\ q # p /\ q # c
    BY <1>0, <1>a, <1>k DEF Inactive
  <2> QED BY <2>1, <1>0 DEF Duplicating
<1>4. OneParent'
  <2>1. \A q \in Procs : Forking(q)' => Forking(q) /\ op'[q].child = op[q].child
    BY <1>0, <1>k DEF Forking
  <2> QED BY <2>1 DEF OneParent
<1>5. Asking'
  BY <1>0, <1>a DEF Asking, Inactive
<1>6. ASSUME NEW q \in Procs, Forking(q)' PROVE CopiedTo(q, op[q].child)'
  <2>1. CASE q # p
    <3>1. op'[q] = op[q] /\ Forking(q) /\ CopiedTo(q, op[q].child)
      BY <1>6, <2>1, <1>0 DEF Forking, Copied
    <3>2. op[q].child # c /\ q # c /\ op[q].child \in Procs
      BY <3>1, <2>1, <1>0, <1>a DEF OneParent, Inactive, Forking, Ops
    <3> QED BY <3>1, <3>2, <1>0 DEF CopiedTo
  <2>2. CASE q = p
    <3>0. CopiedTo(p, c) /\ fd'[p] = fd[p] /\ data'[p] = data[p]
      BY <1>0, <1>a DEF Copied
    <3>s. \A i \in Slots :
            /\ i < op[p].dst + 1 => i < op[p].dst \/ i = op[p].dst
            /\ ~(op[p].dst < NSlots) => i < op[p].dst \/ i = op[p].dst
            /\ ~(i < 1)
      <4>1. op[p].dst \in Slots
        BY <1>0
      <4> QED BY <4>1, PipeAssumption DEF Slots
    <3>1. CASE ForkFd(p)
      <4>1. \A i \in Slots : fd'[c][i] = IF i = op[p].dst THEN fd[p][i] ELSE fd[c][i]
        BY <3>1, <1>0 DEF ForkFd
      <4>2. op[p].dst < NSlots =>
              op'[p].kind = "forkFd" /\ op'[p].dst = op[p].dst + 1
        BY <3>1, <1>0 DEF ForkFd, Walk, Ops
      <4>3. ~(op[p].dst < NSlots) => op'[p].kind = "forkData" /\ op'[p].dst = 1
        BY <3>1, <1>0 DEF ForkFd, Walk, Ops
      <4>4. \A i \in Slots : i < op[p].dst => fd[c][i] = fd[p][i]
        BY <3>0 DEF CopiedTo
      <4>5. CASE op[p].dst < NSlots
        BY <4>1, <4>2, <4>4, <4>5, <3>0, <3>s, <1>0, <1>a, <1>k, <2>2 DEF CopiedTo
      <4>6. CASE ~(op[p].dst < NSlots)
        <5>1. \A i \in Slots : fd'[c][i] = fd[p][i] /\ ~(i < 1)
          BY <4>1, <4>4, <4>6, <3>s
        <5> QED BY <5>1, <4>3, <4>6, <3>0, <1>0, <1>a, <1>k, <2>2 DEF CopiedTo
      <4> QED BY <4>5, <4>6
    <3>2. CASE ForkData(p)
      <4>1. /\ fd' = fd /\ op[p].kind = "forkData"
            /\ \A i \in Slots : data'[c][i] = IF i = op[p].dst THEN data[p][i] ELSE data[c][i]
        BY <3>2, <1>0 DEF ForkData
      <4>2. op[p].dst < NSlots =>
              op'[p].kind = "forkData" /\ op'[p].dst = op[p].dst + 1
        BY <3>2, <1>0 DEF ForkData, Walk, Ops
      <4>4. \A i \in Slots : /\ i < op[p].dst => data[c][i] = data[p][i]
                             /\ fd[c][i] = fd[p][i]
        BY <4>1, <3>0 DEF CopiedTo
      <4>5. CASE op[p].dst < NSlots
        BY <4>1, <4>2, <4>4, <4>5, <3>0, <3>s, <1>0, <1>a, <1>k, <2>2 DEF CopiedTo
      <4>6. CASE ~(op[p].dst < NSlots)
        <5>1. \A i \in Slots : data'[c][i] = data[p][i]
          BY <4>1, <4>4, <4>6, <3>s
        <5> QED BY <5>1, <4>1, <4>4, <3>0, <1>0, <1>a, <1>k, <2>2 DEF CopiedTo
      <4> QED BY <4>5, <4>6
    <3> QED BY <3>1, <3>2
  <2> QED BY <2>1, <2>2
<1> QED BY <1>1, <1>2, <1>3, <1>4, <1>5, <1>6 DEF Copied

LEMMA StartPaired ==
  ASSUME PairInv, NEW p \in Procs, StartChild(p)
  PROVE  Paired' /\ Inactive' /\ Duplicating' /\ OneParent' /\ Copied' /\ Asking'
<1> DEFINE c == op[p].child
<1> USE DEF PairInv, TypeOK
<1>0. /\ p \in running /\ op[p].kind = "start" /\ op'[p].kind = "idle"
      /\ status' = [status EXCEPT ![c] = "live"]
      /\ UNCHANGED <<running, fd, data, look>>
      /\ c \in Procs /\ Forking(p)
      /\ \A q \in Procs \ {p} : op'[q] = op[q]
  BY IdleOp DEF StartChild, Forking, Ops
<1>a. /\ status[p] = "live" /\ status[c] = "embryo" /\ p # c
      /\ \A i \in Slots : fd[c][i] = fd[p][i] /\ data[c][i] = data[p][i]
  <2>1. CopiedTo(p, c)
    BY <1>0 DEF Copied
  <2> QED BY <2>1, <1>0, RunsAlone DEF CopiedTo
<1>1. Paired'
  <2>1. \A i \in Slots : /\ fd[p][i] # "none" => data[p][i]
                         /\ ~(data[p][i] /\ fd[p][i] = "none")
    BY <1>0, <1>a DEF Paired
  <2>2. ASSUME NEW q \in Procs, status'[q] = "live", q # p, q # c
        PROVE  status[q] = "live" /\ op'[q] = op[q]
    BY <2>2, <1>0
  <2>3. ASSUME NEW q \in Procs, status'[q] = "live", NEW i \in Slots
        PROVE  /\ fd[q][i] # "none" => data[q][i]
               /\ data[q][i] /\ fd[q][i] = "none" =>
                    op'[q].kind \in {"close", "dup", "exit"} /\ op'[q].dst = i
    <3>1. CASE q \in {p, c}
      BY <3>1, <2>1, <1>a
    <3>2. CASE q \notin {p, c}
      BY <3>2, <2>2, <2>3 DEF Paired
    <3> QED BY <3>1, <3>2
  <2> QED BY <2>3, <1>0 DEF Paired
<1>2. Inactive'
  <2>1. \A q \in Procs : status'[q] # "live" =>
          status'[q] = status[q] /\ op'[q] = op[q]
    BY <1>0, <1>a
  <2> QED BY <2>1, <1>0 DEF Inactive
<1>3. Duplicating'
  BY <1>0 DEF Duplicating
<1>4. OneParent'
  BY <1>0 DEF OneParent, Forking
<1>5. Asking'
  BY <1>0 DEF Asking
<1>6. ASSUME NEW q \in Procs, Forking(q)' PROVE CopiedTo(q, op[q].child)'
  <2>1. q # p /\ op'[q] = op[q] /\ Forking(q) /\ CopiedTo(q, op[q].child)
    BY <1>6, <1>0 DEF Forking, Copied
  <2>2. op[q].child # c /\ op[q].child \in Procs
    BY <2>1, <1>0 DEF OneParent, Ops
  <2> QED BY <2>1, <2>2, <1>0 DEF CopiedTo
<1> QED BY <1>1, <1>2, <1>3, <1>4, <1>5, <1>6 DEF Copied

LEMMA PairStep == PairInv /\ [Next]_vars => PairInv'
<1> SUFFICES ASSUME PairInv, [Next]_vars PROVE PairInv'
  OBVIOUS
<1>t. TypeOK'
  BY TypeStep DEF PairInv
<1>1. SUFFICES Paired' /\ Inactive' /\ Duplicating' /\ OneParent' /\ Copied' /\ Asking'
  BY <1>1, <1>t DEF PairInv
<1>2. CASE UNCHANGED vars
  BY <1>2, PairQuiet DEF vars
<1>3. ASSUME NEW p \in Procs, Dispatch(p) \/ Preempt(p)
      PROVE  Paired' /\ Inactive' /\ Duplicating' /\ OneParent' /\ Copied' /\ Asking'
  <2>1. \A q \in Procs : look'[q].busy = look[q].busy /\ look'[q].slot = look[q].slot
    BY <1>3 DEF Dispatch, Preempt, PairInv, TypeOK, Looks
  <2> QED BY <1>3, <2>1, PairQuiet DEF Dispatch, Preempt
<1>4. ASSUME NEW p \in Procs, Looking(p)
      PROVE  Paired' /\ Inactive' /\ Duplicating' /\ OneParent' /\ Copied' /\ Asking'
  <2>1. \A q \in Procs : look'[q].busy => look[q].busy /\ look'[q].slot = look[q].slot
    <3>1. CASE CountFd(p) \/ CountData(p) \/ Again(p)
      <4>1. \A q \in Procs : q # p => look'[q] = look[q]
        BY <3>1 DEF CountFd, CountData, Again, PairInv, TypeOK
      <4>2. look[p].busy /\ look'[p].slot = look[p].slot
        <5>1. CASE CountFd(p)
          BY <5>1 DEF CountFd, Counting, PairInv, TypeOK, Looks
        <5>2. CASE CountData(p)
          BY <5>2 DEF CountData, Counting, PairInv, TypeOK, Looks
        <5>3. CASE Again(p)
          BY <5>3 DEF Again, Counted, Counting, PairInv, TypeOK, Looks
        <5> QED BY <3>1, <5>1, <5>2, <5>3
      <4> QED BY <4>1, <4>2
    <3>2. CASE Returns(p)
      BY <3>2, NoLookType DEF Returns, PairInv, TypeOK
    <3> QED BY <1>4, <3>1, <3>2 DEF Looking, ReturnsClosed, ReturnsOpen
  <2>2. UNCHANGED <<status, fd, data, op>>
    BY <1>4 DEF Looking, CountFd, CountData, Again, Returns, ReturnsClosed, ReturnsOpen
  <2> QED BY <2>1, <2>2, PairQuiet
<1>5. ASSUME NEW p \in Procs, SystemCall(p)
      PROVE  Paired' /\ Inactive' /\ Duplicating' /\ OneParent' /\ Copied' /\ Asking'
  BY <1>5, OwnCallPaired, ForkCallPaired, StartPaired, DiePaired
     DEF SystemCall, Destroy
<1> QED BY <1>2, <1>3, <1>4, <1>5, DiePaired, CallPaired DEF Next

\* Whoever runs maps the data page of every descriptor whose Fd page it maps,
\* and the other way round unless it is in close() or dup() of that one.
THEOREM PairedAlways == Spec => []Paired
<1>1. Spec => []PairInv
  BY PairInit, PairStep, PTL DEF Spec
<1>2. PairInv => Paired
  BY DEF PairInv
<1> QED BY <1>1, <1>2, PTL

-----------------------------------------------------------------------------
(***************************************************************************)
(* pipeisclosed() on one CPU                                               *)
(***************************************************************************)
LEMMA OneRuns ==
  ASSUME NCpu = 1, TypeOK
  PROVE  /\ \A p \in running : running = {p}
         /\ Cardinality(running) < 1 => running = {}
<1>1. IsFiniteSet(running)
  BY RunningFinite
<1>2. Cardinality(running) \in Nat /\ Cardinality(running) <= 1
  BY <1>1, FS_CardinalityType DEF TypeOK
<1>3. ASSUME NEW p \in running PROVE running = {p}
  <2>1. {p} \in SUBSET running /\ Cardinality({p}) = 1
    BY FS_Singleton
  <2>2. Cardinality({p}) <= Cardinality(running)
    BY <1>1, <2>1, FS_Subset
  <2>3. Cardinality(running) = Cardinality({p})
    BY <1>2, <2>1, <2>2
  <2> QED BY <1>1, <2>1, <2>3, FS_Subset
<1>4. Cardinality(running) < 1 => Cardinality(running) = 0
  BY <1>2
<1> QED BY <1>1, <1>3, <1>4, FS_EmptySet

\* What p has counted is still so: nobody else could take a step.
LEMMA SnapshotStep ==
  ASSUME NCpu = 1, OneCpuInv, [Next]_vars
  PROVE  Snapshot'
<1> USE DEF OneCpuInv, PairInv
<1>r. ASSUME NEW p \in running PROVE running = {p}
  BY <1>r, OneRuns
<1>1. CASE UNCHANGED vars
  BY <1>1 DEF vars, Snapshot, FdMaps, DataMaps
<1>2. ASSUME NEW p \in Procs, Dispatch(p) PROVE Snapshot'
  <2>1. running = {}
    BY <1>2, OneRuns DEF Dispatch
  <2>2. running' = {p} /\ ~look'[p].fresh
    BY <1>2, <2>1 DEF Dispatch, TypeOK, Looks
  <2> QED BY <2>2 DEF Snapshot
<1>3. ASSUME NEW p \in Procs, Preempt(p) \/ Die(p) PROVE Snapshot'
  <2>1. running' = {}
    BY <1>3, <1>r DEF Preempt, Die
  <2> QED BY <2>1 DEF Snapshot
<1>4. ASSUME NEW p \in Procs, LibraryCall(p) PROVE Snapshot'
  <2>1. p \in running /\ running' = running /\ ~look[p].busy
    BY <1>4 DEF LibraryCall, MakePipe, Dup, Close, Ask, Exit, Fork, Begin, Ready
  <2>2. running' = {p}
    BY <2>1, <1>r
  <2>3. \/ ~look'[p].busy
        \/ look'[p].fdRef = Unread /\ look'[p].dataRef = Unread
    <3>1. CASE \E i \in Slots : Ask(p, i)
      BY <3>1 DEF Ask, NoLook, TypeOK
    <3>2. CASE look' = look
      BY <3>2, <2>1
    <3> QED BY <1>4, <3>1, <3>2 DEF LibraryCall, MakePipe, Dup, Close, Exit, Fork
  <2> QED BY <2>2, <2>3 DEF Snapshot
<1>5. ASSUME NEW p \in Procs, SystemCall(p) PROVE Snapshot'
  <2>1. CASE Destroy(p)
    BY <2>1, <1>3 DEF Destroy
  <2>2. CASE ~Destroy(p)
    <3>1. p \in running /\ running' = running /\ look' = look /\ op[p].kind # "idle"
      BY <1>5, <2>2 DEF SystemCall, UnmapFd, UnmapData, DupData, DupFd, ForkFd,
                        ForkData, StartChild, Closing
    <3>2. ~look'[p].busy /\ running' = {p}
      BY <3>1, <1>r DEF Asking
    <3> QED BY <3>2 DEF Snapshot
  <2> QED BY <2>1, <2>2
<1>6. ASSUME NEW p \in Procs, Looking(p) PROVE Snapshot'
  <2>1. p \in running /\ running' = running /\ fd' = fd /\ data' = data /\ look[p].busy
    BY <1>6 DEF Looking, CountFd, CountData, Returns, ReturnsClosed, ReturnsOpen,
                Again, Counted, Counting
  <2>2. running' = {p}
    BY <2>1, <1>r
  <2> DEFINE F == Cardinality(FdMaps(fd[p][look[p].slot]))
             D == Cardinality(DataMaps)
  <2>3. \A e : FdMaps(e)' = FdMaps(e)
    BY <2>1 DEF FdMaps
  <2>4. DataMaps' = DataMaps
    BY <2>1 DEF DataMaps
  <2>5. look[p].fresh => look[p].fdRef \in {Unread, F} /\ look[p].dataRef \in {Unread, D}
    BY <2>1 DEF Snapshot
  <2>6. look'[p].busy /\ look'[p].fresh =>
          /\ look'[p].slot = look[p].slot
          /\ look'[p].fdRef \in {Unread, F} /\ look'[p].dataRef \in {Unread, D}
    <3>1. CASE CountFd(p)
      <4>1. /\ look'[p].fdRef = F /\ look'[p].dataRef = look[p].dataRef
            /\ look'[p].slot = look[p].slot /\ look'[p].fresh = look[p].fresh
        BY <3>1 DEF CountFd, TypeOK, Looks
      <4> QED BY <4>1, <2>5
    <3>2. CASE CountData(p)
      <4>1. /\ look'[p].dataRef = D /\ look'[p].fdRef = look[p].fdRef
            /\ look'[p].slot = look[p].slot /\ look'[p].fresh = look[p].fresh
        BY <3>2 DEF CountData, TypeOK, Looks
      <4> QED BY <4>1, <2>5
    <3>3. CASE Returns(p)
      BY <3>3, NoLookType DEF Returns, TypeOK
    <3>4. CASE Again(p)
      BY <3>4 DEF Again, TypeOK, Looks
    <3> QED BY <1>6, <3>1, <3>2, <3>3, <3>4 DEF Looking, ReturnsClosed, ReturnsOpen
  <2>7. F' = Cardinality(FdMaps(fd[p][look'[p].slot])) /\ D' = D
    BY <2>1, <2>4 DEF FdMaps
  <2> QED BY <2>1, <2>2, <2>3, <2>4, <2>6, <2>7 DEF Snapshot
<1> QED BY <1>1, <1>2, <1>3, <1>4, <1>5, <1>6 DEF Next

LEMMA OneCpuAlways ==
  ASSUME NCpu = 1
  PROVE  Spec => []OneCpuInv
<1>1. Init => OneCpuInv
  BY PairInit DEF OneCpuInv, Snapshot, Init
<1>2. OneCpuInv /\ [Next]_vars => OneCpuInv'
  BY PairStep, SnapshotStep DEF OneCpuInv
<1> QED BY <1>1, <1>2, PTL DEF Spec

\* The two counts p compares, as it returns.
LEMMA CountedNow ==
  ASSUME OneCpuInv, NEW p \in Procs, Returns(p)
  PROVE  /\ fd[p][look[p].slot] \in Ends
         /\ look[p].fdRef = Cardinality(FdMaps(fd[p][look[p].slot]))
         /\ look[p].dataRef = Cardinality(DataMaps)
<1>1. p \in running /\ look[p].busy /\ look[p].fresh
      /\ look[p].fdRef # Unread /\ look[p].dataRef # Unread
  BY DEF Returns, Counted, Counting
<1>2. look[p].slot \in Slots /\ fd[p][look[p].slot] # "none"
  BY <1>1 DEF OneCpuInv, PairInv, TypeOK, Looks, Asking
<1> QED BY <1>1, <1>2 DEF OneCpuInv, PairInv, TypeOK, Snapshot

\* Outside fork(), what has an Fd page mapped has the data page mapped too.
LEMMA EndsHaveData ==
  ASSUME PairInv, \A c \in Procs : status[c] # "embryo", NEW e \in Ends
  PROVE  FdMaps(e) \in SUBSET DataMaps
BY DEF PairInv, TypeOK, Paired, Inactive, FdMaps, DataMaps, Ends

\* On one CPU pipeisclosed() says "closed" only when no process has the other
\* end, however many share the pipe, and however often the timer interrupts;
\* only a child that fork() or spawn() is making can mislead it.
THEOREM NoFalseEof ==
  ASSUME NCpu = 1
  PROVE  Spec => ClosedUnlessForking
<1>1. ASSUME OneCpuInv, NEW p \in Procs, ReturnsClosed(p),
             \A c \in Procs : status[c] # "embryo"
      PROVE  OtherEnd(p) = {}
  <2> DEFINE e == fd[p][look[p].slot]
  <2>1. e \in Ends /\ Cardinality(FdMaps(e)) = Cardinality(DataMaps)
    BY <1>1, CountedNow DEF ReturnsClosed
  <2>2. \A x \in Ends : FdMaps(x) \in SUBSET DataMaps
    BY <1>1, EndsHaveData DEF OneCpuInv
  <2>3. DataMaps = FdMaps(e)
    BY <2>1, <2>2, Counts, FS_Subset
  <2>4. Other[e] \in Ends /\ Other[e] # e
    BY <2>1 DEF Ends, Other
  <2>5. FdMaps(Other[e]) \subseteq FdMaps(e)
    BY <2>2, <2>3, <2>4
  <2> QED BY <2>4, <2>5 DEF OtherEnd, FdMaps
<1>2. OneCpuInv /\ [Next]_vars =>
        [\A p \in Procs : ReturnsClosed(p) =>
           \/ OtherEnd(p) = {}
           \/ \E c \in Procs : status[c] = "embryo"]_vars
  BY <1>1
<1>3. Spec => []OneCpuInv
  BY OneCpuAlways
<1> QED BY <1>2, <1>3, PTL DEF Spec, ClosedUnlessForking

\* On one CPU pipeisclosed() says "open" only while the other end is open or
\* somebody is in the middle of opening or closing one: the count of the data
\* page is never left too high, so that a reader does not wait for ever.
THEOREM NoMissedEof ==
  ASSUME NCpu = 1
  PROVE  Spec => OpenMeansOpen
<1>1. ASSUME OneCpuInv, NEW p \in Procs, ReturnsOpen(p), OtherEnd(p) = {},
             \A q \in Procs : status[q] # "embryo" /\ op[q].kind = "idle"
      PROVE  FALSE
  <2> DEFINE e == fd[p][look[p].slot]
  <2>1. e \in Ends /\ Cardinality(FdMaps(e)) # Cardinality(DataMaps)
    BY <1>1, CountedNow DEF ReturnsOpen
  <2>2. FdMaps(e) \subseteq DataMaps
    BY <2>1, <1>1, EndsHaveData DEF OneCpuInv
  <2>3. ASSUME NEW q \in Procs, NEW i \in Slots, data[q][i] PROVE fd[q][i] = e
    <3>1. status[q] = "live" /\ fd[q][i] \in Ends
      BY <1>1, <2>3 DEF OneCpuInv, PairInv, TypeOK, Paired, Inactive
    <3>2. <<q, i>> \notin FdMaps(Other[e])
      BY <1>1 DEF OtherEnd
    <3> QED BY <3>1, <3>2, <2>1 DEF FdMaps, Other, Ends
  <2>4. DataMaps \subseteq FdMaps(e)
    BY <2>3 DEF DataMaps, FdMaps
  <2>5. FdMaps(e) = DataMaps
    BY <2>2, <2>4
  <2> QED BY <2>1, <2>5
<1>2. OneCpuInv /\ [Next]_vars =>
        [\A p \in Procs : ReturnsOpen(p) =>
           \/ OtherEnd(p) # {}
           \/ \E q \in Procs : status[q] = "embryo" \/ op[q].kind # "idle"]_vars
  BY <1>1
<1>3. Spec => []OneCpuInv
  BY OneCpuAlways
<1> QED BY <1>2, <1>3, PTL DEF Spec, OpenMeansOpen

-----------------------------------------------------------------------------
(***************************************************************************)
(* Arithmetic of the positions                                             *)
(***************************************************************************)
N == PIPEBUFSIZ

LEMMA Sizes == N \in Nat \ {0} /\ Half \in Nat /\ N < Half /\ MaxPos \in Nat /\ MaxCall \in Nat
  BY RingAssumption DEF N, Half

LEMMA SmallMod ==
  ASSUME NEW x \in Nat, NEW m \in Nat \ {0}, x < m
  PROVE  x % m = x
  OBVIOUS

LEMMA TooNear ==
  ASSUME NEW k \in Int, NEW m \in Nat \ {0}, 0 < m * k, m * k < m
  PROVE  FALSE
  OBVIOUS

\* Positions that are in the ring at the same time have bytes of their own.
LEMMA OwnByte ==
  ASSUME NEW x \in Nat, NEW y \in Nat, x < y, y < x + N
  PROVE  Index(x) # Index(y)
  <1>1. N \in Nat \ {0}
    BY Sizes
  <1>2. Index(x) = (x % N) /\ Index(y) = (y % N)
    BY DEF Index, N
  <1>3. x = N * (x \div N) + (x % N) /\ y = N * (y \div N) + (y % N)
        /\ (x \div N) \in Int /\ (y \div N) \in Int /\ (x % N) \in Int
    BY <1>1
  <1> SUFFICES ASSUME (x % N) = (y % N) PROVE FALSE
    BY <1>2
  <1>4. y - x = N * (y \div N) - N * (x \div N)
    BY <1>1, <1>3
  <1>5. N * (y \div N) - N * (x \div N) = N * ((y \div N) - (x \div N))
    BY <1>1, <1>3
  <1> QED
    BY SMTT(40), <1>1, <1>3, <1>4, <1>5, TooNear

LEMMA InBuffer == \A x \in Nat : Index(x) \in BufIndices
  BY Sizes DEF Index, BufIndices, N

LEMMA PositionsFit ==
  ASSUME MaxPos < Half, NEW x \in 0 .. MaxPos
  PROVE  /\ Signed(x) = x /\ Unsigned(x) = x /\ Unsigned(x + N) = x + N
  <1>1. x \in Nat /\ N \in Nat /\ Half \in Nat /\ x < Half /\ N < Half
    BY Sizes
  <1>2. 2 * Half \in Nat \ {0} /\ x + Half < 2 * Half /\ x < 2 * Half /\ x + N < 2 * Half
    BY <1>1
  <1>3. PICK m \in Nat \ {0} : m = 2 * Half
    BY <1>2
  <1>4. PICK y \in Nat : y = x + Half
    BY <1>1
  <1>5. PICK z \in Nat : z = x + N
    BY <1>1
  <1>6. (y % m) = y
    BY <1>2, <1>3, <1>4, SmallMod
  <1>7. (x % m) = x
    BY <1>1, <1>2, <1>3, SmallMod
  <1>8. (z % m) = z
    BY <1>2, <1>3, <1>5, SmallMod
  <1>9. Signed(x) = (y % m) - Half /\ Unsigned(x) = (x % m) /\ Unsigned(x + N) = (z % m)
    BY <1>3, <1>4, <1>5 DEF Signed, Unsigned
  <1> HIDE DEF N, Half
  <1> QED
    BY <1>1, <1>4, <1>5, <1>6, <1>7, <1>8, <1>9

-----------------------------------------------------------------------------
(***************************************************************************)
(* The inductive invariant                                                 *)
(***************************************************************************)
Inside == writer.at \notin {"idle", "closed"}

RingTypes ==
  /\ p_rpos \in Nat /\ p_wpos \in Nat
  /\ p_buf \in [BufIndices -> Bytes]
  /\ reader \in [at : Places, n : Nat, buf : Seq(Bytes)]
  /\ writer \in [at : Places, data : Seq(Bytes), i : Nat]

\* The bytes under way are in the ring, and what a call has still to write
\* stays below the bound.
Positions ==
  /\ p_rpos <= p_wpos /\ p_wpos <= p_rpos + N /\ p_wpos <= MaxPos
  /\ Inside => writer.i <= Len(writer.data) /\ p_wpos + Len(writer.data) - writer.i <= MaxPos

\* The reader takes a byte that is there, and only then makes room.
ReaderRight ==
  /\ reader.at \in {"move", "step"} => p_rpos < p_wpos
  /\ reader.at = "step" => /\ reader.buf # <<>>
                           /\ reader.buf[Len(reader.buf)] = p_buf[Index(p_rpos)]

\* The writer has room, and only makes known what is there.
WriterRight ==
  /\ writer.at \in {"move", "step"} => p_wpos < p_rpos + N /\ writer.i < Len(writer.data)
  /\ writer.at = "step" => p_buf[Index(p_wpos)] = writer.data[writer.i + 1]

RingInv == RingTypes /\ Positions /\ ReaderRight /\ WriterRight

-----------------------------------------------------------------------------
(***************************************************************************)
(* The queue between two positions                                         *)
(***************************************************************************)
Between(b, r, w) == [k \in 1 .. w - r |-> b[Index(r + k - 1)]]

LEMMA BetweenSeq ==
  ASSUME NEW b \in [BufIndices -> Bytes], NEW r \in Nat, NEW w \in Nat, r <= w
  PROVE  Between(b, r, w) \in Seq(Bytes) /\ Len(Between(b, r, w)) = w - r
  <1>1. \A k \in 1 .. w - r : b[Index(r + k - 1)] \in Bytes
    BY InBuffer
  <1>2. Between(b, r, w) \in [1 .. w - r -> Bytes] /\ w - r \in Nat
    BY <1>1 DEF Between
  <1>3. Between(b, r, w) \in Seq(Bytes)
    BY <1>2, SeqDef
  <1>4. DOMAIN Between(b, r, w) = 1 .. w - r
    BY DEF Between
  <1> QED
    BY <1>2, <1>3, <1>4, LenProperties

LEMMA BetweenSent ==
  ASSUME NEW b \in [BufIndices -> Bytes], NEW r \in Nat, NEW w \in Nat, r <= w
  PROVE  Between(b, r, w + 1) = Append(Between(b, r, w), b[Index(w)])
  <1>1. Between(b, r, w) \in Seq(Bytes) /\ Len(Between(b, r, w)) = w - r /\ b[Index(w)] \in Bytes
    BY BetweenSeq, InBuffer
  <1>2. Between(b, r, w + 1) \in Seq(Bytes) /\ Len(Between(b, r, w + 1)) = w - r + 1
    <2>1. w + 1 \in Nat /\ r <= w + 1 /\ (w + 1) - r = w - r + 1
      OBVIOUS
    <2> QED
      BY <2>1, BetweenSeq
  <1> DEFINE q == Append(Between(b, r, w), b[Index(w)])
  <1>3. q \in Seq(Bytes) /\ Len(q) = w - r + 1
    BY <1>1, AppendProperties
  <1>4. ASSUME NEW k \in 1 .. w - r + 1 PROVE Between(b, r, w + 1)[k] = q[k]
    <2>1. Between(b, r, w + 1)[k] = b[Index(r + k - 1)]
      BY <1>4 DEF Between
    <2>2. CASE k = w - r + 1
      <3>1. q[k] = b[Index(w)]
        BY <1>1, <2>2, AppendProperties
      <3>2. r + k - 1 = w
        BY <2>2
      <3> QED
        BY <2>1, <3>1, <3>2
    <2>3. CASE k # w - r + 1
      <3>1. k \in 1 .. w - r
        BY <2>3
      <3>2. q[k] = Between(b, r, w)[k]
        BY <1>1, <3>1, AppendProperties
      <3>3. Between(b, r, w)[k] = b[Index(r + k - 1)]
        BY <3>1 DEF Between
      <3> QED
        BY <2>1, <3>2, <3>3
    <2> QED
      BY <2>2, <2>3
  <1> QED
    BY <1>2, <1>3, <1>4, SeqEqual

LEMMA BetweenReceived ==
  ASSUME NEW b \in [BufIndices -> Bytes], NEW r \in Nat, NEW w \in Nat, r < w
  PROVE  /\ Between(b, r, w) # <<>> /\ Head(Between(b, r, w)) = b[Index(r)]
         /\ Between(b, r + 1, w) = Tail(Between(b, r, w))
  <1> DEFINE q == Between(b, r, w)
  <1>1. q \in Seq(Bytes) /\ Len(q) = w - r
    BY BetweenSeq
  <1>2. q # <<>>
    BY <1>1
  <1>3. q[1] = b[Index(r + 1 - 1)] /\ r + 1 - 1 = r
    BY DEF Between
  <1>4. Head(q) = b[Index(r)] /\ Tail(q) \in Seq(Bytes) /\ Len(Tail(q)) = w - r - 1
        /\ \A k \in 1 .. w - r - 1 : Tail(q)[k] = q[k + 1]
    <2>1. Head(q) = q[1] /\ Tail(q) \in Seq(Bytes) /\ Len(Tail(q)) = Len(q) - 1
          /\ \A k \in 1 .. Len(Tail(q)) : Tail(q)[k] = q[k + 1]
      BY <1>1, <1>2, HeadTailProperties
    <2> HIDE DEF q
    <2> QED
      BY <1>1, <1>3, <2>1
  <1>5. Between(b, r + 1, w) \in Seq(Bytes) /\ Len(Between(b, r + 1, w)) = w - r - 1
    <2>1. r + 1 \in Nat /\ r + 1 <= w /\ w - (r + 1) = w - r - 1
      OBVIOUS
    <2> QED
      BY <2>1, BetweenSeq
  <1>6. ASSUME NEW k \in 1 .. w - r - 1 PROVE Between(b, r + 1, w)[k] = Tail(q)[k]
    <2>1. Between(b, r + 1, w)[k] = b[Index(r + 1 + k - 1)]
      BY DEF Between
    <2>2. q[k + 1] = b[Index(r + (k + 1) - 1)]
      BY DEF Between
    <2>3. r + 1 + k - 1 = r + (k + 1) - 1
      OBVIOUS
    <2> QED
      BY <1>4, <2>1, <2>2, <2>3
  <1> HIDE DEF q
  <1>7. Between(b, r + 1, w) = Tail(q)
    BY <1>4, <1>5, <1>6, SeqEqual
  <1> QED
    BY <1>2, <1>4, <1>7 DEF q

LEMMA BetweenStored ==
  ASSUME NEW b \in [BufIndices -> Bytes], NEW r \in Nat, NEW w \in Nat, r <= w, w < r + N,
         NEW v \in Bytes
  PROVE  Between([b EXCEPT ![Index(w)] = v], r, w) = Between(b, r, w)
  <1> DEFINE c == [b EXCEPT ![Index(w)] = v]
  <1>1. ASSUME NEW k \in 1 .. w - r PROVE c[Index(r + k - 1)] = b[Index(r + k - 1)]
    <2>1. r + k - 1 \in Nat /\ r + k - 1 < w /\ w < (r + k - 1) + N
      BY Sizes
    <2>2. Index(r + k - 1) # Index(w) /\ Index(r + k - 1) \in BufIndices
      BY <2>1, OwnByte, InBuffer
    <2> QED
      BY <2>2
  <1> HIDE DEF c
  <1> QED
    BY <1>1 DEF Between, c

-----------------------------------------------------------------------------
(***************************************************************************)
(* The invariant is inductive                                              *)
(***************************************************************************)
LEMMA RingInitInv == RingInit => RingInv
  <1> SUFFICES ASSUME RingInit PROVE RingInv
    OBVIOUS
  <1>1. RingTypes
    <2>1. <<>> \in Seq(Bytes)
      BY EmptySeq
    <2>2. p_buf \in [BufIndices -> Bytes]
      BY DEF RingInit
    <2>3. NoRead \in [at : Places, n : Nat, buf : Seq(Bytes)] /\ NoWrite \in [at : Places, data : Seq(Bytes), i : Nat]
      BY <2>1 DEF NoRead, NoWrite, Places
    <2> QED
      BY <2>2, <2>3 DEF RingInit, RingTypes
  <1>2. Positions
    BY Sizes DEF RingInit, Positions, Inside, NoWrite
  <1>3. ReaderRight /\ WriterRight
    BY DEF RingInit, ReaderRight, WriterRight, NoRead, NoWrite
  <1> QED
    BY <1>1, <1>2, <1>3 DEF RingInv

LEMMA RequestsAreSeqs == Requests \subseteq Seq(Bytes)
  BY SeqDef, Sizes DEF Requests

\* Taking a byte, and making room for another.
LEMMA TakeKeeps ==
  ASSUME MaxPos < Half, RingInv, Take
  PROVE  RingInv'
  <1> USE Sizes
  <1>1. p_rpos \in Nat /\ p_wpos \in Nat /\ p_wpos <= MaxPos /\ N \in Nat
    BY DEF RingInv, RingTypes, Positions
  <1>2. CASE reader.at = "move" /\ reader' = [reader EXCEPT !.at = "step", !.buf = Append(@, p_buf[Index(p_rpos)])]
             /\ UNCHANGED <<p_rpos, p_wpos, p_buf, writer>>
    <2>1. p_buf[Index(p_rpos)] \in Bytes /\ reader.buf \in Seq(Bytes)
      BY <1>1, InBuffer DEF RingInv, RingTypes
    <2>2. PICK buf \in Seq(Bytes) : buf = Append(reader.buf, p_buf[Index(p_rpos)])
      BY <2>1, AppendProperties
    <2>3. buf # <<>> /\ buf[Len(buf)] = p_buf[Index(p_rpos)]
      BY <2>1, <2>2, AppendProperties
    <2>4. reader'.at = "step" /\ reader'.buf = buf /\ reader' \in [at : Places, n : Nat, buf : Seq(Bytes)]
      BY <1>2, <2>2 DEF RingInv, RingTypes, Places
    <2>5. RingTypes'
      BY <1>2, <2>4 DEF RingInv, RingTypes
    <2>6. Positions' /\ WriterRight'
      BY <1>2 DEF RingInv, Positions, WriterRight, Inside
    <2>7. ReaderRight'
      BY <1>2, <2>3, <2>4 DEF RingInv, ReaderRight
    <2> QED
      BY <2>5, <2>6, <2>7 DEF RingInv
  <1>3. CASE reader.at = "step" /\ reader' = [reader EXCEPT !.at = "test"] /\ p_rpos' = Signed(p_rpos + 1)
             /\ UNCHANGED <<p_wpos, p_buf, writer>>
    <2>1. p_rpos < p_wpos
      BY <1>3 DEF RingInv, ReaderRight
    <2>2. p_rpos' = p_rpos + 1
      <3>1. p_rpos + 1 \in 0 .. MaxPos
        BY <1>1, <2>1
      <3> QED
        BY <1>3, <3>1, PositionsFit
    <2>3. reader'.at = "test" /\ reader' \in [at : Places, n : Nat, buf : Seq(Bytes)]
      BY <1>3 DEF RingInv, RingTypes, Places
    <2>4. RingTypes'
      BY <1>1, <1>3, <2>2, <2>3 DEF RingInv, RingTypes
    <2>5. Positions'
      BY <1>1, <1>3, <2>1, <2>2 DEF RingInv, Positions, Inside
    <2>6. ReaderRight'
      BY <2>3 DEF ReaderRight
    <2>7. WriterRight'
      BY <1>1, <1>3, <2>2 DEF RingInv, WriterRight
    <2> QED
      BY <2>4, <2>5, <2>6, <2>7 DEF RingInv
  <1> QED
    BY <1>2, <1>3 DEF Take

\* Storing a byte where none is under way, and making it known.
LEMMA StoreKeeps ==
  ASSUME MaxPos < Half, RingInv, Store
  PROVE  RingInv'
  <1> USE Sizes
  <1>1. p_rpos \in Nat /\ p_wpos \in Nat /\ p_rpos <= p_wpos /\ p_wpos <= MaxPos /\ N \in Nat
    BY DEF RingInv, RingTypes, Positions
  <1>2. writer.data \in Seq(Bytes) /\ writer.i \in Nat /\ Len(writer.data) \in Nat
    BY DEF RingInv, RingTypes
  <1>3. writer.at \in {"move", "step"}
    BY DEF Store
  <1>4. p_wpos < p_rpos + N /\ writer.i < Len(writer.data)
        /\ p_wpos + Len(writer.data) - writer.i <= MaxPos
    BY <1>3 DEF RingInv, WriterRight, Positions, Inside
  <1>5. CASE writer.at = "move" /\ p_buf' = [p_buf EXCEPT ![Index(p_wpos)] = writer.data[writer.i + 1]]
             /\ writer' = [writer EXCEPT !.at = "step"] /\ UNCHANGED <<p_rpos, p_wpos, reader>>
    <2>1. writer.data[writer.i + 1] \in Bytes
      BY <1>2, <1>4
    <2>2. writer'.at = "step" /\ writer'.data = writer.data /\ writer'.i = writer.i
          /\ writer' \in [at : Places, data : Seq(Bytes), i : Nat]
      BY <1>5 DEF RingInv, RingTypes, Places
    <2>3. p_buf' \in [BufIndices -> Bytes] /\ p_buf'[Index(p_wpos)] = writer.data[writer.i + 1]
      BY <1>1, <1>5, <2>1, InBuffer DEF RingInv, RingTypes
    <2>4. RingTypes'
      BY <1>5, <2>2, <2>3 DEF RingInv, RingTypes
    <2>5. Positions'
      BY <1>3, <1>5, <2>2 DEF RingInv, Positions, Inside
    <2>6. ReaderRight'
      <3>1. SUFFICES ASSUME reader.at = "step"
                     PROVE  p_buf'[Index(p_rpos)] = p_buf[Index(p_rpos)]
        BY <1>5 DEF RingInv, ReaderRight
      <3>2. Index(p_rpos) # Index(p_wpos)
        BY <1>1, <1>4, <3>1, OwnByte DEF RingInv, ReaderRight
      <3> QED
        BY <1>1, <1>5, <3>2, InBuffer DEF RingInv, RingTypes
    <2>7. WriterRight'
      BY <1>4, <1>5, <2>2, <2>3 DEF WriterRight
    <2> QED
      BY <2>4, <2>5, <2>6, <2>7 DEF RingInv
  <1>6. CASE writer.at = "step" /\ p_wpos' = Signed(p_wpos + 1)
             /\ writer' = [writer EXCEPT !.at = "test", !.i = @ + 1] /\ UNCHANGED <<p_rpos, p_buf, reader>>
    <2>1. p_wpos' = p_wpos + 1
      <3>1. p_wpos + 1 \in 0 .. MaxPos
        BY <1>1, <1>2, <1>4
      <3> QED
        BY <1>6, <3>1, PositionsFit
    <2>2. writer'.at = "test" /\ writer'.data = writer.data /\ writer'.i = writer.i + 1
          /\ writer' \in [at : Places, data : Seq(Bytes), i : Nat]
      <3>1. writer.i + 1 \in Nat /\ "test" \in Places /\ writer \in [at : Places, data : Seq(Bytes), i : Nat]
        BY <1>2 DEF RingInv, RingTypes, Places
      <3> QED
        BY <1>6, <3>1
    <2>3. RingTypes'
      BY <1>1, <1>6, <2>1, <2>2 DEF RingInv, RingTypes
    <2>4. Positions'
      <3>1. p_rpos' <= p_wpos' /\ p_wpos' <= p_rpos' + N /\ p_wpos' <= MaxPos
        BY SMTT(40), <1>1, <1>2, <1>4, <1>6, <2>1
      <3>2. writer'.i <= Len(writer'.data) /\ p_wpos' + Len(writer'.data) - writer'.i <= MaxPos
        BY <1>1, <1>2, <1>4, <2>1, <2>2
      <3> QED
        BY <3>1, <3>2 DEF Positions
    <2>5. ReaderRight'
      BY <1>1, <1>6, <2>1 DEF RingInv, ReaderRight
    <2>6. WriterRight'
      BY <2>2 DEF WriterRight
    <2> QED
      BY <2>3, <2>4, <2>5, <2>6 DEF RingInv
  <1> QED
    BY <1>5, <1>6 DEF Store

\* What the reader does outside the ring.
LEMMA ReaderKeeps ==
  ASSUME MaxPos < Half, RingInv,
         ReadReturns \/ ReadTests \/ ReadEof \/ ReadYields \/ ReaderGone
           \/ (\E n \in 1 .. MaxCall : ReadCall(n))
  PROVE  RingInv'
  <1> USE Sizes
  <1>1. UNCHANGED <<p_rpos, p_wpos, p_buf, writer>>
    BY DEF ReadReturns, ReadTests, ReadEof, ReadYields, ReaderGone, ReadCall
  <1>2. Positions' /\ WriterRight'
    BY <1>1 DEF RingInv, Positions, WriterRight, Inside
  <1>3. reader' \in [at : Places, n : Nat, buf : Seq(Bytes)]
    <2>1. <<>> \in Seq(Bytes) /\ reader \in [at : Places, n : Nat, buf : Seq(Bytes)]
      BY EmptySeq DEF RingInv, RingTypes
    <2>2. CASE ReadReturns \/ ReadEof \/ ReaderGone
      <3>1. NoRead \in [at : Places, n : Nat, buf : Seq(Bytes)] /\ "closed" \in Places
        BY <2>1 DEF NoRead, Places
      <3>2. [NoRead EXCEPT !.at = "closed"] \in [at : Places, n : Nat, buf : Seq(Bytes)]
        BY <3>1
      <3> QED
        BY <2>2, <3>1, <3>2 DEF ReadReturns, ReadEof, ReaderGone
    <2>3. CASE ReadTests \/ ReadYields
      BY <2>1, <2>3 DEF ReadTests, ReadYields, Places
    <2>4. CASE \E n \in 1 .. MaxCall : ReadCall(n)
      BY <2>1, <2>4 DEF ReadCall, Places
    <2> QED
      BY <2>2, <2>3, <2>4
  <1>4. reader'.at # "step" /\ (reader'.at = "move" => ~Empty)
    BY DEF RingInv, RingTypes, NoRead, ReadReturns, ReadTests, ReadEof, ReadYields, ReaderGone, ReadCall
  <1>5. ReaderRight'
    BY <1>1, <1>4 DEF RingInv, RingTypes, Positions, ReaderRight, Empty
  <1> QED
    BY <1>1, <1>2, <1>3, <1>5 DEF RingInv, RingTypes

\* What the writer does outside the ring.
LEMMA WriterKeeps ==
  ASSUME MaxPos < Half, RingInv,
         WriteReturns \/ WriteTests \/ WriteEof \/ WriteYields \/ WriterGone
           \/ (\E bytes \in Requests : WriteCall(bytes))
  PROVE  RingInv'
  <1> USE Sizes
  <1>1. UNCHANGED <<p_rpos, p_wpos, p_buf, reader>>
    BY DEF WriteReturns, WriteTests, WriteEof, WriteYields, WriterGone, WriteCall
  <1>2. ReaderRight'
    BY <1>1 DEF RingInv, ReaderRight
  <1>3. writer' \in [at : Places, data : Seq(Bytes), i : Nat]
    <2>1. <<>> \in Seq(Bytes) /\ writer \in [at : Places, data : Seq(Bytes), i : Nat]
      BY EmptySeq DEF RingInv, RingTypes
    <2>2. CASE WriteReturns \/ WriteEof \/ WriterGone
      <3>1. NoWrite \in [at : Places, data : Seq(Bytes), i : Nat] /\ "closed" \in Places
        BY <2>1 DEF NoWrite, Places
      <3>2. [NoWrite EXCEPT !.at = "closed"] \in [at : Places, data : Seq(Bytes), i : Nat]
        BY <3>1
      <3> QED
        BY <2>2, <3>1, <3>2 DEF WriteReturns, WriteEof, WriterGone
    <2>3. CASE WriteTests \/ WriteYields
      BY <2>1, <2>3 DEF WriteTests, WriteYields, Places
    <2>4. CASE \E bytes \in Requests : WriteCall(bytes)
      BY <2>1, <2>4, RequestsAreSeqs DEF WriteCall, Places
    <2> QED
      BY <2>2, <2>3, <2>4
  <1>4. writer'.at # "step"
    BY DEF RingInv, RingTypes, NoWrite, WriteReturns, WriteTests, WriteEof, WriteYields, WriterGone, WriteCall
  <1>5. writer'.at = "move" => ~Full /\ writer'.i = writer.i /\ writer'.data = writer.data
                               /\ writer.i < Len(writer.data)
    BY DEF RingInv, RingTypes, NoWrite, WriteReturns, WriteTests, WriteEof, WriteYields, WriterGone, WriteCall
  <1>6. ~Full => p_wpos < p_rpos + N
    <2>1. p_wpos \in 0 .. MaxPos /\ p_rpos \in 0 .. MaxPos
      BY DEF RingInv, RingTypes, Positions
    <2>2. Unsigned(p_wpos) = p_wpos /\ Unsigned(p_rpos + N) = p_rpos + N
      BY <2>1, PositionsFit
    <2> QED
      BY <2>1, <2>2 DEF Full, N
  <1>7. WriterRight'
    BY <1>1, <1>4, <1>5, <1>6 DEF WriterRight
  <1>8. Inside' => writer'.i <= Len(writer'.data) /\ p_wpos + Len(writer'.data) - writer'.i <= MaxPos
    <2>1. CASE \E bytes \in Requests : WriteCall(bytes)
      <3>1. PICK bytes \in Requests : WriteCall(bytes)
        BY <2>1
      <3>2. writer'.i = 0 /\ writer'.data = bytes /\ Len(bytes) \in Nat /\ p_wpos + Len(bytes) <= MaxPos
        BY <3>1, RequestsAreSeqs DEF WriteCall
      <3> QED
        BY <3>2 DEF RingInv, RingTypes
    <2>2. CASE WriteReturns \/ WriteEof \/ WriterGone
      BY <2>2 DEF Inside, NoWrite, WriteReturns, WriteEof, WriterGone
    <2>3. CASE WriteTests \/ WriteYields
      BY <2>3 DEF RingInv, RingTypes, Positions, Inside, WriteTests, WriteYields
    <2> QED
      BY <2>1, <2>2, <2>3
  <1>9. Positions'
    BY <1>1, <1>8 DEF RingInv, Positions
  <1> QED
    BY <1>1, <1>2, <1>3, <1>7, <1>9 DEF RingInv, RingTypes

LEMMA RingStep ==
  ASSUME MaxPos < Half, RingInv, [RingNext]_ringVars
  PROVE  RingInv'
  <1>1. CASE UNCHANGED ringVars
    BY <1>1 DEF ringVars, RingInv, RingTypes, Positions, ReaderRight, WriterRight, Inside
  <1>2. CASE RingNext
    BY <1>2, TakeKeeps, StoreKeeps, ReaderKeeps, WriterKeeps DEF RingNext, ReaderStep, WriterStep
  <1> QED
    BY <1>1, <1>2

-----------------------------------------------------------------------------
(***************************************************************************)
(* Every step of the ring is one of the queue, or none                     *)
(***************************************************************************)
LEMMA QueueIs ==
  /\ Queue = Between(p_buf, p_rpos, p_wpos)
  /\ Queue' = Between(p_buf', p_rpos', p_wpos')
  BY DEF Queue, Between

LEMMA AllButLast ==
  ASSUME NEW S, NEW s \in Seq(S), NEW e \in S
  PROVE  SubSeq(Append(s, e), 1, Len(Append(s, e)) - 1) = s
  <1> DEFINE a == Append(s, e)
  <1>1. a \in Seq(S) /\ Len(a) = Len(s) + 1 /\ \A i \in 1 .. Len(s) : a[i] = s[i]
    BY AppendProperties
  <1> HIDE DEF a
  <1>2. Len(a) - 1 = Len(s) /\ Len(s) \in Nat /\ Len(s) <= Len(a)
    BY <1>1
  <1>3. SubSeq(a, 1, Len(s)) \in Seq(S) /\ Len(SubSeq(a, 1, Len(s))) = Len(s)
        /\ \A i \in 1 .. Len(s) : SubSeq(a, 1, Len(s))[i] = a[i]
    BY <1>1, <1>2
  <1>4. SubSeq(a, 1, Len(s)) = s
    BY <1>1, <1>3, SeqEqual
  <1> QED
    BY <1>2, <1>4 DEF a

LEMMA LastPutBack ==
  ASSUME NEW S, NEW s \in Seq(S), s # <<>>
  PROVE  s = Append(SubSeq(s, 1, Len(s) - 1), s[Len(s)])
  <1> DEFINE a == SubSeq(s, 1, Len(s) - 1)
  <1>1. Len(s) \in Nat \ {0} /\ s[Len(s)] \in S
    <2>1. Len(s) \in Nat /\ Len(s) # 0
      BY LenProperties, EmptySeq
    <2> QED
      BY <2>1, ElementOfSeq
  <1>2. a \in Seq(S) /\ Len(a) = Len(s) - 1 /\ \A i \in 1 .. Len(s) - 1 : a[i] = s[i]
    <2>1. PICK n \in Nat : n = Len(s) - 1
      BY <1>1
    <2>2. n <= Len(s)
      BY <1>1, <2>1
    <2>3. SubSeq(s, 1, n) \in Seq(S) /\ Len(SubSeq(s, 1, n)) = n
          /\ \A i \in 1 .. n : SubSeq(s, 1, n)[i] = s[i]
      BY <2>2
    <2> QED
      BY <2>1, <2>3
  <1> HIDE DEF a
  <1> DEFINE b == Append(a, s[Len(s)])
  <1>3. b \in Seq(S) /\ Len(b) = Len(s) /\ (\A i \in 1 .. Len(s) - 1 : b[i] = s[i]) /\ b[Len(s)] = s[Len(s)]
    BY <1>1, <1>2, AppendProperties
  <1> HIDE DEF b
  <1>4. s = b
    BY <1>1, <1>3, SeqEqual
  <1> QED
    BY <1>4 DEF a, b

LEMMA TakeMaps ==
  ASSUME MaxPos < Half, RingInv, Take
  PROVE  [AbstractChannel!Next]_(AbstractChannel!chVars)
  <1> USE Sizes
  <1>1. p_rpos \in Nat /\ p_wpos \in Nat /\ p_wpos <= MaxPos /\ p_buf \in [BufIndices -> Bytes]
        /\ reader.buf \in Seq(Bytes) /\ DOMAIN reader = {"at", "n", "buf"}
    BY DEF RingInv, RingTypes, Positions
  <1>2. CASE reader.at = "move" /\ reader' = [reader EXCEPT !.at = "step", !.buf = Append(@, p_buf[Index(p_rpos)])]
             /\ UNCHANGED <<p_rpos, p_wpos, p_buf, writer>>
    <2>1. p_buf[Index(p_rpos)] \in Bytes
      BY <1>1, InBuffer
    <2>2. reader'.at = "step" /\ reader'.buf = Append(reader.buf, p_buf[Index(p_rpos)])
      BY <1>1, <1>2
    <2>3. Received' = SubSeq(reader'.buf, 1, Len(reader'.buf) - 1) /\ Received = reader.buf
      BY <1>2, <2>2 DEF Received
    <2>4. Received' = Received
      BY <1>1, <2>1, <2>2, <2>3, AllButLast
    <2>5. Queue' = Queue
      BY <1>2, QueueIs
    <2> QED
      BY <2>4, <2>5 DEF AbstractChannel!chVars
  <1>3. CASE reader.at = "step" /\ reader' = [reader EXCEPT !.at = "test"] /\ p_rpos' = Signed(p_rpos + 1)
             /\ UNCHANGED <<p_wpos, p_buf, writer>>
    <2>1. p_rpos < p_wpos /\ reader.buf # <<>> /\ reader.buf[Len(reader.buf)] = p_buf[Index(p_rpos)]
      BY <1>3 DEF RingInv, ReaderRight
    <2>2. p_rpos' = p_rpos + 1
      <3>1. p_rpos + 1 \in 0 .. MaxPos
        BY <1>1, <2>1
      <3> QED
        BY <1>3, <3>1, PositionsFit
    <2>3. Queue # <<>> /\ Head(Queue) = p_buf[Index(p_rpos)] /\ Queue' = Tail(Queue)
      BY SMTT(40), <1>1, <1>3, <2>1, <2>2, BetweenReceived, QueueIs
    <2>4. reader'.at = "test" /\ reader'.buf = reader.buf
      BY <1>1, <1>3
    <2>5. Received = SubSeq(reader.buf, 1, Len(reader.buf) - 1) /\ Received' = reader.buf
      BY <1>3, <2>4 DEF Received
    <2>6. Received' = Append(Received, Head(Queue))
      BY <1>1, <2>1, <2>3, <2>5, LastPutBack
    <2> QED
      BY <2>3, <2>6 DEF AbstractChannel!Next, AbstractChannel!Receive
  <1> QED
    BY <1>2, <1>3 DEF Take

LEMMA StoreMaps ==
  ASSUME MaxPos < Half, RingInv, Store
  PROVE  [AbstractChannel!Next]_(AbstractChannel!chVars)
  <1> USE Sizes
  <1>1. p_rpos \in Nat /\ p_wpos \in Nat /\ p_rpos <= p_wpos /\ p_wpos <= MaxPos
        /\ p_buf \in [BufIndices -> Bytes] /\ N \in Nat
    BY DEF RingInv, RingTypes, Positions
  <1>2. writer.data \in Seq(Bytes) /\ writer.i \in Nat /\ Len(writer.data) \in Nat
    BY DEF RingInv, RingTypes
  <1>3. writer.at \in {"move", "step"} /\ reader' = reader /\ Received' = Received
    BY DEF Store, Received
  <1>4. p_wpos < p_rpos + N /\ writer.i < Len(writer.data)
        /\ p_wpos + Len(writer.data) - writer.i <= MaxPos
    BY <1>3 DEF RingInv, WriterRight, Positions, Inside
  <1>5. CASE writer.at = "move" /\ p_buf' = [p_buf EXCEPT ![Index(p_wpos)] = writer.data[writer.i + 1]]
             /\ UNCHANGED <<p_rpos, p_wpos>>
    <2>0. PICK v \in Bytes : v = writer.data[writer.i + 1]
      BY <1>2, <1>4
    <2>1. Queue' = Between([p_buf EXCEPT ![Index(p_wpos)] = v], p_rpos, p_wpos)
      BY <1>5, <2>0, QueueIs
    <2>2. Queue' = Queue
      BY ZenonT(40), <1>1, <1>4, <2>1, BetweenStored, QueueIs
    <2> QED
      BY <1>3, <2>2 DEF AbstractChannel!chVars
  <1>6. CASE writer.at = "step" /\ p_wpos' = Signed(p_wpos + 1) /\ UNCHANGED <<p_rpos, p_buf>>
    <2>1. p_wpos' = p_wpos + 1
      <3>1. p_wpos + 1 \in 0 .. MaxPos
        BY <1>1, <1>2, <1>4
      <3> QED
        BY <1>6, <3>1, PositionsFit
    <2>2. p_buf[Index(p_wpos)] = writer.data[writer.i + 1] /\ writer.data[writer.i + 1] \in Bytes
      BY <1>2, <1>4, <1>6 DEF RingInv, WriterRight
    <2>3. Queue' = Append(Queue, writer.data[writer.i + 1])
      <3>1. Queue' = Between(p_buf, p_rpos, p_wpos + 1)
        BY <1>6, <2>1, QueueIs
      <3>2. Between(p_buf, p_rpos, p_wpos + 1) = Append(Queue, p_buf[Index(p_wpos)])
        BY <1>1, BetweenSent, QueueIs
      <3> QED
        BY <2>2, <3>1, <3>2
    <2>4. Len(Queue) < PIPEBUFSIZ
      <3>1. Len(Queue) = p_wpos - p_rpos
        BY <1>1, BetweenSeq, QueueIs
      <3> QED
        BY <1>1, <1>4, <3>1 DEF N
    <2>5. AbstractChannel!Send(writer.data[writer.i + 1])
      BY <1>3, <2>3, <2>4 DEF AbstractChannel!Send
    <2> QED
      BY <2>2, <2>5 DEF AbstractChannel!Next
  <1> QED
    BY <1>5, <1>6 DEF Store

LEMMA OthersMap ==
  ASSUME RingInv,
         ReadReturns \/ ReadTests \/ ReadEof \/ ReadYields \/ ReaderGone
           \/ WriteReturns \/ WriteTests \/ WriteEof \/ WriteYields \/ WriterGone
           \/ (\E n \in 1 .. MaxCall : ReadCall(n)) \/ (\E bytes \in Requests : WriteCall(bytes))
  PROVE  [AbstractChannel!Next]_(AbstractChannel!chVars)
  <1>1. UNCHANGED <<p_rpos, p_wpos, p_buf>>
    BY DEF ReadReturns, ReadTests, ReadEof, ReadYields, ReaderGone, ReadCall,
           WriteReturns, WriteTests, WriteEof, WriteYields, WriterGone, WriteCall
  <1>2. Queue' = Queue
    BY <1>1, QueueIs
  <1>3. CASE ReadReturns \/ ReadEof \/ ReaderGone \/ (\E n \in 1 .. MaxCall : ReadCall(n))
    <2>1. reader'.at # "step" /\ reader'.buf = <<>>
      BY <1>3 DEF NoRead, ReadReturns, ReadEof, ReaderGone, ReadCall
    <2>2. Received' = <<>>
      BY <2>1 DEF Received
    <2> QED
      BY <1>2, <2>2 DEF AbstractChannel!Next, AbstractChannel!NewRead
  <1>4. CASE ReadTests \/ ReadYields
    <2>1. reader.at # "step" /\ reader'.at # "step" /\ reader'.buf = reader.buf
      BY <1>4 DEF RingInv, RingTypes, ReadTests, ReadYields
    <2> QED
      BY <1>2, <2>1 DEF Received, AbstractChannel!chVars
  <1>5. CASE WriteReturns \/ WriteTests \/ WriteEof \/ WriteYields \/ WriterGone
             \/ (\E bytes \in Requests : WriteCall(bytes))
    <2>1. reader' = reader
      BY <1>5 DEF WriteReturns, WriteTests, WriteEof, WriteYields, WriterGone, WriteCall
    <2> QED
      BY <1>2, <2>1 DEF Received, AbstractChannel!chVars
  <1> QED
    BY <1>3, <1>4, <1>5

LEMMA RingMaps ==
  ASSUME MaxPos < Half, RingInv, [RingNext]_ringVars
  PROVE  [AbstractChannel!Next]_(AbstractChannel!chVars)
  <1>1. CASE UNCHANGED ringVars
    BY <1>1 DEF ringVars, Queue, Received, AbstractChannel!chVars
  <1>2. CASE RingNext
    BY <1>2, TakeMaps, StoreMaps, OthersMap DEF RingNext, ReaderStep, WriterStep
  <1> QED
    BY <1>1, <1>2

LEMMA InitMaps == RingInit => AbstractChannel!Init
  <1> SUFFICES ASSUME RingInit PROVE AbstractChannel!Init
    OBVIOUS
  <1>1. Received = <<>>
    BY DEF RingInit, NoRead, Received
  <1>2. Queue \in Seq(Bytes) /\ Len(Queue) = 0
    <2>1. RingInv
      BY RingInitInv
    <2>2. p_buf \in [BufIndices -> Bytes] /\ p_rpos = 0 /\ p_wpos = 0
      BY <2>1 DEF RingInit, RingInv, RingTypes
    <2> QED
      BY <2>2, BetweenSeq, QueueIs
  <1> QED
    BY <1>1, <1>2, EmptySeq DEF AbstractChannel!Init

\* The bytes of a pipe come out as they went in (devpipe_read() and
\* devpipe_write() on the shared page, no lock), whatever the size of the
\* buffer and the length of the calls: as long as no position is beyond the
\* largest off_t, the ring implements the queue.
THEOREM RingIsQueue == MaxPos < Half => (RingSpec => ImplementsChannel)
  <1> SUFFICES ASSUME MaxPos < Half PROVE RingSpec => ImplementsChannel
    OBVIOUS
  <1>1. RingInit => RingInv /\ AbstractChannel!Init
    BY RingInitInv, InitMaps
  <1>2. RingInv /\ [RingNext]_ringVars => RingInv' /\ [AbstractChannel!Next]_(AbstractChannel!chVars)
    BY RingStep, RingMaps
  <1> QED
    BY <1>1, <1>2, PTL DEF RingSpec, ImplementsChannel, AbstractChannel!Spec
=============================================================================
