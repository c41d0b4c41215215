-------------------------------- MODULE Pipe --------------------------------
(***************************************************************************)
(* The two ends of a pipe and how a process finds out that the other end   *)
(* is closed: pipe(), close(), dup(), pipeisclosed() of lib/, and fork()   *)
(* and spawn(), which hand the descriptors on to a child.                  *)
(*                                                                         *)
(* An open descriptor is two pages, the Fd page of its end and the pipe's  *)
(* data page, mapped and unmapped by separate system calls.  A system call *)
(* is one step (KernEnv), pp_ref counts the mappings of a page (PageMap),  *)
(* and the timer may take the CPU away after every step.  One pipe exists  *)
(* at a time; when nobody maps it any more it can be made anew.            *)
(***************************************************************************)
EXTENDS Integers, FiniteSets

CONSTANTS
  Procs,    \* environments
  NSlots,   \* MAXFD, the descriptors of a process
  NCpu      \* the CPUs that run them

ASSUME PipeAssumption == /\ IsFiniteSet(Procs)
                         /\ NSlots \in Nat \ {0}
                         /\ NCpu \in Nat \ {0}

Slots == 1 .. NSlots
Ends  == {"rd", "wr"}
Other == [rd |-> "wr", wr |-> "rd"]

VARIABLES
  status,   \* "free", "embryo" (made by sys_exofork, not yet runnable), "live"
  running,  \* the processes that have a CPU
  fd,       \* fd[p][i]: the end whose Fd page p maps for descriptor i, or "none"
  data,     \* data[p][i]: whether p maps the pipe's page as i's data page
  op,       \* the library call p is in, and how far it is
  look      \* how far p is in pipeisclosed(), if `busy', and what it has counted

vars == <<status, running, fd, data, op, look>>

Kinds  == {"idle", "close", "dup", "exit", "forkFd", "forkData", "start"}
\* `dst' is the descriptor the next system call is about, `src' the one dup()
\* copies, `child' the one fork() makes, `at' the call within close() or dup().
Ops    == [kind : Kinds, src : Slots, dst : Slots, child : Procs, at : 1 .. 4]
Unread == -1
Looks  == [busy : BOOLEAN, slot : Slots, fresh : BOOLEAN,
           fdRef : Int, dataRef : Int]

Idle(p) == [kind |-> "idle", src |-> 1, dst |-> 1, child |-> p, at |-> 1]
NoLook  == [busy |-> FALSE, slot |-> 1, fresh |-> FALSE,
            fdRef |-> Unread, dataRef |-> Unread]

TypeOK ==
  /\ status \in [Procs -> {"free", "embryo", "live"}]
  /\ running \subseteq {p \in Procs : status[p] = "live"}
  /\ Cardinality(running) <= NCpu
  /\ fd \in [Procs -> [Slots -> Ends \cup {"none"}]]
  /\ data \in [Procs -> [Slots -> BOOLEAN]]
  /\ op \in [Procs -> Ops]
  /\ look \in [Procs -> Looks]

Init ==
  /\ \E first \in Procs : status = [p \in Procs |-> IF p = first THEN "live" ELSE "free"]
  /\ running = {}
  /\ fd = [p \in Procs |-> [i \in Slots |-> "none"]]
  /\ data = [p \in Procs |-> [i \in Slots |-> FALSE]]
  /\ op = [p \in Procs |-> Idle(p)]
  /\ look = [p \in Procs |-> NoLook]

-----------------------------------------------------------------------------
(* The scheduler *)

\* env_run counts in env_runs that p was away.
Dispatch(p) ==
  /\ status[p] = "live" /\ p \notin running
  /\ Cardinality(running) < NCpu
  /\ running' = running \cup {p}
  /\ look' = [look EXCEPT ![p].fresh = FALSE]
  /\ UNCHANGED <<status, fd, data, op>>

Preempt(p) ==
  /\ p \in running
  /\ running' = running \ {p}
  /\ UNCHANGED <<status, fd, data, op, look>>

\* p faults or is destroyed: env_free drops all it maps.  (One that panics
\* takes no step any more, and keeps what it maps.)  A process
\* that is destroyed while it has no CPU ends as if it were given one first:
\* its destroyer is in its own code, so that nothing it looks at is disturbed.
Die(p) ==
  /\ p \in running
  /\ status' = [status EXCEPT ![p] = "free"]
  /\ running' = running \ {p}
  /\ fd' = [fd EXCEPT ![p] = [i \in Slots |-> "none"]]
  /\ data' = [data EXCEPT ![p] = [i \in Slots |-> FALSE]]
  /\ op' = [op EXCEPT ![p] = Idle(p)]
  /\ look' = [look EXCEPT ![p] = NoLook]

-----------------------------------------------------------------------------
(* The library calls *)

\* p is in its own code and may call the library.
Ready(p) == /\ p \in running
            /\ op[p].kind = "idle"
            /\ ~look[p].busy

Begin(p, o) == Ready(p) /\ op' = [op EXCEPT ![p] = o]

FdMaps(e)  == {s \in Procs \X Slots : fd[s[1]][s[2]] = e}
DataMaps   == {s \in Procs \X Slots : data[s[1]][s[2]]}

\* pipe(): fd_alloc finds two free descriptors; nobody else maps the new
\* pages, so its four system calls are one step.
MakePipe(p, i, j) ==
  /\ Ready(p) /\ DataMaps = {}
  /\ \A e \in Ends : FdMaps(e) = {}
  /\ i < j
  /\ fd' = [fd EXCEPT ![p][i] = "rd", ![p][j] = "wr"]
  /\ data' = [data EXCEPT ![p][i] = TRUE, ![p][j] = TRUE]
  /\ UNCHANGED <<status, running, op, look>>

\* close() of a descriptor that is open; otherwise it returns -E_INVAL.
Close(p, i) ==
  /\ fd[p][i] # "none"
  /\ Begin(p, [Idle(p) EXCEPT !.kind = "close", !.dst = i])
  /\ UNCHANGED <<status, running, fd, data, look>>

\* dup(): close(newfdnum) is skipped when that descriptor is not open.
Dup(p, i, j) ==
  /\ fd[p][i] # "none"
  /\ Begin(p, [Idle(p) EXCEPT !.kind = "dup", !.src = i, !.dst = j,
                              !.at = IF fd[p][j] # "none" THEN 1 ELSE 3])
  /\ UNCHANGED <<status, running, fd, data, look>>

\* exit(): close_all() and then sys_env_destroy(0).
Exit(p) ==
  /\ Begin(p, [Idle(p) EXCEPT !.kind = "exit"])
  /\ UNCHANGED <<status, running, fd, data, look>>

\* fork() and spawn(): the child's address space is filled from the bottom
\* up, and all Fd pages (FDTABLE) lie below all data pages (FILEDATA).
Fork(p, c) ==
  /\ status[c] = "free"
  /\ Begin(p, [Idle(p) EXCEPT !.kind = "forkFd", !.child = c])
  /\ status' = [status EXCEPT ![c] = "embryo"]
  /\ UNCHANGED <<running, fd, data, look>>

-----------------------------------------------------------------------------
(* Their system calls, one a step *)

\* devpipe_close() unmaps the Fd page (1), then the data page (2); fd_close()
\* unmaps the Fd page once more, which changes nothing, as part of (2).
Closing(p) == op[p].kind \in {"close", "dup", "exit"} /\ op[p].at <= 2

AfterClose(p) ==
  LET o == op[p]
  IN  CASE o.kind = "close" -> Idle(p)
        [] o.kind = "dup"   -> [o EXCEPT !.at = 3]
        [] o.kind = "exit"  -> IF o.dst < NSlots
                               THEN [o EXCEPT !.dst = o.dst + 1, !.at = 1]
                               ELSE [o EXCEPT !.at = 3]

\* Mutant: close() unmaps the data page first.
UnmapFdDataFirst(p) ==
  /\ p \in running /\ Closing(p) /\ op[p].at = 1
  /\ data' = [data EXCEPT ![p][op[p].dst] = FALSE]
  /\ op' = [op EXCEPT ![p].at = 2]
  /\ UNCHANGED <<status, running, fd, look>>

UnmapFd(p) ==
  /\ p \in running /\ Closing(p) /\ op[p].at = 1
  /\ fd' = [fd EXCEPT ![p][op[p].dst] = "none"]
  /\ op' = [op EXCEPT ![p].at = 2]
  /\ UNCHANGED <<status, running, data, look>>

\* Mutant: close() leaves the data page mapped.
UnmapDataForgotten(p) ==
  /\ p \in running /\ Closing(p) /\ op[p].at = 2
  /\ fd' = [fd EXCEPT ![p][op[p].dst] = "none"]
  /\ op' = [op EXCEPT ![p] = AfterClose(p)]
  /\ UNCHANGED <<status, running, data, look>>

UnmapData(p) ==
  /\ p \in running /\ Closing(p) /\ op[p].at = 2
  /\ data' = [data EXCEPT ![p][op[p].dst] = FALSE]
  /\ fd' = [fd EXCEPT ![p][op[p].dst] = "none"]
  /\ op' = [op EXCEPT ![p] = AfterClose(p)]
  /\ UNCHANGED <<status, running, look>>

\* dup() of an end that is gone, as after dup(i, i) has closed i, maps nothing
\* and its error path unmaps what is not mapped.
DupData(p) ==
  /\ p \in running /\ op[p].kind = "dup" /\ op[p].at = 3
  /\ data' = [data EXCEPT ![p][op[p].dst] = @ \/ data[p][op[p].src]]
  /\ op' = [op EXCEPT ![p].at = 4]
  /\ UNCHANGED <<status, running, fd, look>>

DupFd(p) ==
  /\ p \in running /\ op[p].kind = "dup" /\ op[p].at = 4
  /\ fd' = [fd EXCEPT ![p][op[p].dst] = fd[p][op[p].src]]
  /\ op' = [op EXCEPT ![p] = Idle(p)]
  /\ UNCHANGED <<status, running, data, look>>

\* The last call of exit().
Destroy(p) == op[p].kind = "exit" /\ op[p].at = 3 /\ Die(p)

\* The walk of fork() over its address space: next descriptor, then `kind'.
Walk(o, kind) == IF o.dst < NSlots THEN [o EXCEPT !.dst = o.dst + 1]
                 ELSE [o EXCEPT !.dst = 1, !.kind = kind]

ForkFd(p) ==
  /\ p \in running /\ op[p].kind = "forkFd"
  /\ fd' = [fd EXCEPT ![op[p].child][op[p].dst] = fd[p][op[p].dst]]
  /\ op' = [op EXCEPT ![p] = Walk(op[p], "forkData")]
  /\ UNCHANGED <<status, running, data, look>>

ForkData(p) ==
  /\ p \in running /\ op[p].kind = "forkData"
  /\ data' = [data EXCEPT ![op[p].child][op[p].dst] = data[p][op[p].dst]]
  /\ op' = [op EXCEPT ![p] = Walk(op[p], "start")]
  /\ UNCHANGED <<status, running, fd, look>>

\* sys_env_set_status(child, ENV_RUNNABLE)
StartChild(p) ==
  /\ p \in running /\ op[p].kind = "start"
  /\ status' = [status EXCEPT ![op[p].child] = "live"]
  /\ op' = [op EXCEPT ![p] = Idle(p)]
  /\ UNCHANGED <<running, fd, data, look>>

-----------------------------------------------------------------------------
(* pipeisclosed() *)

Counting(p) == p \in running /\ look[p].busy

\* n = env_runs, for the descriptor i
Ask(p, i) ==
  /\ Ready(p) /\ fd[p][i] # "none"
  /\ look' = [look EXCEPT ![p] = [NoLook EXCEPT !.busy = TRUE, !.slot = i,
                                                !.fresh = TRUE]]
  /\ UNCHANGED <<status, running, fd, data, op>>

\* pageref(fd) == pageref(p): C leaves open which of the two comes first.
CountFd(p) ==
  /\ Counting(p) /\ look[p].fdRef = Unread
  /\ look' = [look EXCEPT ![p].fdRef = Cardinality(FdMaps(fd[p][look[p].slot]))]
  /\ UNCHANGED <<status, running, fd, data, op>>

CountData(p) ==
  /\ Counting(p) /\ look[p].dataRef = Unread
  /\ look' = [look EXCEPT ![p].dataRef = Cardinality(DataMaps)]
  /\ UNCHANGED <<status, running, fd, data, op>>

Counted(p) == Counting(p) /\ look[p].fdRef # Unread /\ look[p].dataRef # Unread

\* Mutant: pipeisclosed() trusts its counts at once.
ReturnsAtOnce(p) ==
  /\ Counted(p)
  /\ look' = [look EXCEPT ![p] = NoLook]
  /\ UNCHANGED <<status, running, fd, data, op>>

\* nn == n: the answer stands.
Returns(p) ==
  /\ Counted(p) /\ look[p].fresh
  /\ look' = [look EXCEPT ![p] = NoLook]
  /\ UNCHANGED <<status, running, fd, data, op>>

ReturnsClosed(p) == look[p].fdRef = look[p].dataRef /\ Returns(p)
ReturnsOpen(p)   == look[p].fdRef # look[p].dataRef /\ Returns(p)

\* p was away in between: once more, with the new env_runs.
Again(p) ==
  /\ Counted(p) /\ ~look[p].fresh
  /\ look' = [look EXCEPT ![p].fdRef = Unread, ![p].dataRef = Unread, ![p].fresh = TRUE]
  /\ UNCHANGED <<status, running, fd, data, op>>

-----------------------------------------------------------------------------

LibraryCall(p) ==
  \/ \E i, j \in Slots : MakePipe(p, i, j) \/ Dup(p, i, j)
  \/ \E i \in Slots : Close(p, i) \/ Ask(p, i)
  \/ Exit(p)
  \/ \E c \in Procs : Fork(p, c)

SystemCall(p) ==
  \/ UnmapFd(p) \/ UnmapData(p) \/ DupData(p) \/ DupFd(p) \/ Destroy(p)
  \/ ForkFd(p) \/ ForkData(p) \/ StartChild(p)

Looking(p) ==
  \/ CountFd(p) \/ CountData(p)
  \/ ReturnsClosed(p) \/ ReturnsOpen(p) \/ Again(p)

Next == \E p \in Procs :
  Dispatch(p) \/ Preempt(p) \/ Die(p) \/ LibraryCall(p) \/ SystemCall(p) \/ Looking(p)

Spec == Init /\ [][Next]_vars

-----------------------------------------------------------------------------
(* Properties *)

\* A descriptor is whole unless its owner is in the middle of opening or
\* closing it, and at no time does a process that runs, or could, map an Fd
\* page without the data page: the order of the two calls in devpipe_close()
\* and in dup() keeps the count of the data page the larger one.
Paired ==
  \A p \in Procs : status[p] = "live" =>
    \A i \in Slots :
      /\ fd[p][i] # "none" => data[p][i]
      /\ data[p][i] /\ fd[p][i] = "none" =>
           op[p].kind \in {"close", "dup", "exit"} /\ op[p].dst = i

OtherEnd(p) == FdMaps(Other[fd[p][look[p].slot]])

\* What a caller may conclude from pipeisclosed() = 1: nobody has the other
\* end, provided no child is half made.  The retry on env_runs is to make the
\* two counts one look ("pipe race avoided").
ClosedUnlessForking ==
  [][\A p \in Procs : ReturnsClosed(p) =>
       \/ OtherEnd(p) = {}
       \/ \E c \in Procs : status[c] = "embryo"]_vars

\* The answer 0 is right as well, unless somebody is in the middle of a call
\* or a child is half made: no count is left too high by what went before, so
\* that a reader does not wait for ever for a writer that is gone.
OpenMeansOpen ==
  [][\A p \in Procs : ReturnsOpen(p) =>
       \/ OtherEnd(p) # {}
       \/ \E q \in Procs : status[q] = "embryo" \/ op[q].kind # "idle"]_vars

-----------------------------------------------------------------------------
(* What the proofs add *)

\* A slot of envs[] in which nothing runs maps no pipe; only a live process is
\* in a call.
Inactive ==
  \A p \in Procs : status[p] # "live" =>
    /\ op[p].kind = "idle" /\ ~look[p].busy
    /\ status[p] = "free" => \A i \in Slots : fd[p][i] = "none" /\ ~data[p][i]

\* Between close(newfdnum) and the mapping of the data page the new descriptor
\* is empty, and then it has a data page if the old one has.
Duplicating ==
  \A p \in Procs : op[p].kind = "dup" =>
    LET i == op[p].src  j == op[p].dst
    IN  /\ op[p].at \in {3, 4} => fd[p][j] = "none"
        /\ op[p].at = 3 => ~data[p][j]
        /\ op[p].at = 4 => data[p][j] = (i # j /\ data[p][i])

Forking(p) == op[p].kind \in {"forkFd", "forkData", "start"}

\* A child is made by one parent, and what was walked over is the same in both.
OneParent ==
  \A p, q \in Procs :
    Forking(p) /\ Forking(q) /\ op[p].child = op[q].child => p = q

CopiedTo(p, c) ==
  /\ status[c] = "embryo"
  /\ \A i \in Slots :
       /\ op[p].kind # "forkFd" \/ i < op[p].dst => fd[c][i] = fd[p][i]
       /\ op[p].kind = "start" \/ (op[p].kind = "forkData" /\ i < op[p].dst)
            => data[c][i] = data[p][i]

Copied == \A p \in Procs : Forking(p) => CopiedTo(p, op[p].child)

Asking ==
  \A p \in Procs : look[p].busy => op[p].kind = "idle" /\ fd[p][look[p].slot] # "none"

\* On one CPU, what a process has counted since it was dispatched still holds.
Snapshot ==
  \A p \in running : look[p].busy /\ look[p].fresh =>
    /\ look[p].fdRef \in {Unread, Cardinality(FdMaps(fd[p][look[p].slot]))}
    /\ look[p].dataRef \in {Unread, Cardinality(DataMaps)}

PairInv ==
  TypeOK /\ Paired /\ Inactive /\ Duplicating /\ OneParent /\ Copied /\ Asking
OneCpuInv == PairInv /\ Snapshot
=============================================================================
