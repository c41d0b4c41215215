------------------------------- MODULE Shell -------------------------------
(***************************************************************************)
(* A command line "a | b | c" of user/sh.c: runcmd() makes a pipe, forks a *)
(* shell for what is right of it, spawns the command left of it and waits  *)
(* for both.  A shell goes through a list of library calls, a system call  *)
(* a step; a command reads its standard input to the end and writes what   *)
(* it reads, as user/cat.c does.                                           *)
(*                                                                         *)
(* Who has a pipe open is known from how often its pages are mapped, as in *)
(* Pipe.  There is one CPU, so that the answer of pipeisclosed() is one    *)
(* step (Pipe has why).  The ring is a number of bytes (PipeRing), and no  *)
(* call fails for want of memory.                                          *)
(***************************************************************************)
EXTENDS Naturals, Sequences, FiniteSets

CONSTANTS
  N,        \* the longest command line
  Words,    \* what a command may be: "cat" (or echo), "missing" (spawn() fails) or "empty"
  Size,     \* PIPEBUFSIZ
  MaxBytes  \* bound: what the first command has to say

ASSUME ShellAssumption ==
  /\ N \in Nat \ {0} /\ Size \in Nat \ {0} /\ MaxBytes \in Nat
  /\ Words \subseteq {"cat", "missing", "empty"}

Stage  == 1 .. N
Sub(i) == i      \* the shell that runs runcmd() from stage i on
Cmd(i) == N + i  \* the command it spawns
Procs  == 1 .. 2 * N
StageOf(p) == IF p > N THEN p - N ELSE p

\* Descriptors 0 and 1 are open from the start, as the console, so that
\* pipe() gives out 2 and 3.
Fd == 0 .. 3
Rd(i) == <<i, "rd">>
Wr(i) == <<i, "wr">>
End   == Stage \X {"rd", "wr"}
None  == <<0, "none">> \* closed, or the console
NoPipe == 0

VARIABLES
  line,    \* the commands of the line
  status,  \* of a process: "free" or not started yet, "live", "dead"
  todo,    \* the calls it still has to make
  fd,      \* the end of a pipe whose Fd page it maps for a descriptor
  data,    \* the pipe whose data page it maps for one
  bytes,   \* how many are in a pipe
  at,      \* where a command is
  said     \* how much the first has written, while it does

vars == <<line, status, todo, fd, data, bytes, at, said>>
pages == <<fd, data>>
text  == <<bytes, said>>

-----------------------------------------------------------------------------
(* The library calls a process makes, as lists of records.  A record stays *)
(* in front until the last of its system calls.                            *)

Close(S)      == <<[call |-> "close", fds |-> S]>>
Dup(old, new) == Close({new}) \o <<[call |-> "mapData", old |-> old, new |-> new],
                                   [call |-> "mapFd", old |-> old, new |-> new]>>
CloseAll      == Close(Fd)
Exit          == CloseAll \o <<[call |-> "destroy"]>>
Wait(q)       == <<[call |-> "wait", child |-> q]>>
\* fork() and, with copy_shared_pages(), spawn(): of what they map in the
\* child, only pages of descriptors count here.
Create(q)     == <<[call |-> "create", child |-> q]>>

\* The wait for the right-hand part, if there is one.
WaitPipeChild(i) == IF i < Len(line) THEN Wait(Sub(i + 1)) ELSE <<>>

\* Mutant: a shell that could not spawn its command waits for nobody.
RunitWaitsIfSpawned(i) ==
  CASE line[i] = "empty"   -> Exit
    [] line[i] = "missing" -> CloseAll \o Exit
    [] OTHER -> Create(Cmd(i)) \o CloseAll \o Wait(Cmd(i)) \o WaitPipeChild(i) \o Exit

\* Mutant: a shell closes its descriptors when all it waits for have ended.
RunitWaitsFirst(i) ==
  CASE line[i] = "empty"   -> Exit
    [] line[i] = "missing" -> CloseAll \o WaitPipeChild(i) \o Exit
    [] OTHER -> Create(Cmd(i)) \o Wait(Cmd(i)) \o WaitPipeChild(i) \o Exit

\* runcmd() from "runit" on, in the shell of stage i.
Runit(i) ==
  CASE line[i] = "empty"   -> Exit
    [] line[i] = "missing" -> CloseAll \o WaitPipeChild(i) \o Exit
    [] OTHER -> Create(Cmd(i)) \o CloseAll \o Wait(Cmd(i)) \o WaitPipeChild(i) \o Exit

\* runcmd() from "again" on.  At a "|" the parent's end of the pipe becomes
\* its standard output and it runs its own command.
Runcmd(i) ==
  (IF i < Len(line)
   THEN <<[call |-> "pipe", pipe |-> i]>> \o Create(Sub(i + 1)) \o Dup(3, 1) \o Close({3}) \o Close({2})
   ELSE <<>>) \o Runit(i)

\* The child's becomes its standard input, and it goes on with the rest.
Forked(i) == Dup(2, 0) \o Close({2}) \o Close({3}) \o Runcmd(i)

-----------------------------------------------------------------------------
Closed == [s \in Fd |-> None]

Init ==
  /\ line \in UNION {[1 .. n -> Words] : n \in 1 .. N}
  /\ status = [p \in Procs |-> IF p = Sub(1) THEN "live" ELSE "free"]
  /\ todo = [p \in Procs |-> IF p = Sub(1) THEN Runcmd(1) ELSE <<>>]
  /\ fd = [p \in Procs |-> Closed]
  /\ data = [p \in Procs |-> [s \in Fd |-> NoPipe]]
  /\ bytes = [i \in Stage |-> 0]
  /\ at = [i \in Stage |-> "none"]
  /\ said = 0

-----------------------------------------------------------------------------
(* System calls *)

\* fd_lookup() finds it, or its close() is half done.
Open(p, s) == fd[p][s] # None \/ data[p][s] # NoPipe
First(S)   == CHOOSE s \in S : \A t \in S : s <= t

Done(p)    == todo' = [todo EXCEPT ![p] = Tail(@)]

\* pipe(): nobody else maps the new pages, so its system calls are one step.
Pipe(p, c) ==
  /\ c.call = "pipe" /\ Done(p)
  /\ fd' = [fd EXCEPT ![p][2] = Rd(c.pipe), ![p][3] = Wr(c.pipe)]
  /\ data' = [data EXCEPT ![p][2] = c.pipe, ![p][3] = c.pipe]
  /\ UNCHANGED <<line, status, text, at>>

\* Mutant: devpipe_close() unmaps the data page first.
CloseDataFirst(p, c) ==
  /\ c.call = "close"
  /\ LET open == {s \in c.fds : Open(p, s)}
         s    == First(open)
     IN \/ /\ open = {}
           /\ Done(p) /\ UNCHANGED pages
        \/ /\ open # {} /\ data[p][s] # NoPipe
           /\ data' = [data EXCEPT ![p][s] = NoPipe]
           /\ UNCHANGED <<todo, fd>>
        \/ /\ open # {} /\ data[p][s] = NoPipe
           /\ fd' = [fd EXCEPT ![p][s] = None]
           /\ IF open = {s} THEN Done(p) ELSE UNCHANGED todo
           /\ UNCHANGED data
  /\ UNCHANGED <<line, status, text, at>>

\* close() and close_all(): devpipe_close() unmaps the Fd page before the data
\* page, and close_all() goes from descriptor 0 up.  What is not open is left
\* alone.
CloseFd(p, c) ==
  /\ c.call = "close"
  /\ LET open == {s \in c.fds : Open(p, s)}
         s    == First(open)
     IN \/ /\ open = {}
           /\ Done(p) /\ UNCHANGED pages
        \/ /\ open # {} /\ fd[p][s] # None
           /\ fd' = [fd EXCEPT ![p][s] = None]
           /\ UNCHANGED <<todo, data>>
        \/ /\ open # {} /\ fd[p][s] = None
           /\ data' = [data EXCEPT ![p][s] = NoPipe]
           /\ IF open = {s} THEN Done(p) ELSE UNCHANGED todo
           /\ UNCHANGED fd
  /\ UNCHANGED <<line, status, text, at>>

\* dup() after its close(): the data page before the Fd page.
MapData(p, c) ==
  /\ c.call = "mapData" /\ Done(p)
  /\ data' = [data EXCEPT ![p][c.new] = data[p][c.old]]
  /\ UNCHANGED <<line, status, fd, text, at>>

MapFd(p, c) ==
  /\ c.call = "mapFd" /\ Done(p)
  /\ fd' = [fd EXCEPT ![p][c.new] = fd[p][c.old]]
  /\ UNCHANGED <<line, status, data, text, at>>

\* After sys_exofork() their loops go through the address space from the
\* bottom: FDTABLE, with all the Fd pages, is below FILEDATA.
FdsLeft(p, q)  == {s \in Fd : fd[p][s] # fd[q][s]}
DataLeft(p, q) == {s \in Fd : data[p][s] # data[q][s]}

Copy(p, c) ==
  /\ c.call = "create"
  /\ LET q == c.child IN
       \/ /\ FdsLeft(p, q) # {}
          /\ LET s == First(FdsLeft(p, q)) IN fd' = [fd EXCEPT ![q][s] = fd[p][s]]
          /\ UNCHANGED data
       \/ /\ FdsLeft(p, q) = {} /\ DataLeft(p, q) # {}
          /\ LET s == First(DataLeft(p, q)) IN data' = [data EXCEPT ![q][s] = data[p][s]]
          /\ UNCHANGED fd
  /\ UNCHANGED <<line, status, todo, text, at>>

\* sys_env_set_status(child, ENV_RUNNABLE).
Start(p, c) ==
  /\ c.call = "create"
  /\ LET q == c.child
         i == StageOf(q)
     IN /\ FdsLeft(p, q) = {} /\ DataLeft(p, q) = {}
        /\ status' = [status EXCEPT ![q] = "live"]
        /\ IF q = Cmd(i)
           THEN /\ Done(p)
                /\ at' = [at EXCEPT ![i] = IF i = 1 THEN "write" ELSE "read"]
           ELSE /\ todo' = [todo EXCEPT ![p] = Tail(@), ![q] = Forked(i)]
                /\ UNCHANGED at
  /\ UNCHANGED <<line, pages, text>>

\* wait() asks and yields until the environment is free.
WaitEnds(p, c) ==
  /\ c.call = "wait" /\ Done(p)
  /\ status[c.child] = "dead"
  /\ UNCHANGED <<line, status, pages, text, at>>

\* env_free drops what is still mapped.
Free(p) ==
  /\ status' = [status EXCEPT ![p] = "dead"]
  /\ todo' = [todo EXCEPT ![p] = <<>>]
  /\ fd' = [fd EXCEPT ![p] = Closed]
  /\ data' = [data EXCEPT ![p] = [s \in Fd |-> NoPipe]]

Destroy(p, c) ==
  /\ c.call = "destroy" /\ Free(p)
  /\ UNCHANGED <<line, text, at>>

SystemCall(p) ==
  /\ status[p] = "live" /\ todo[p] # <<>>
  /\ LET c == Head(todo[p]) IN
       \/ Pipe(p, c) \/ CloseFd(p, c) \/ MapData(p, c) \/ MapFd(p, c)
       \/ Copy(p, c) \/ Start(p, c) \/ WaitEnds(p, c) \/ Destroy(p, c)

-----------------------------------------------------------------------------
(* The commands *)

\* The command of stage i is in its own code or in read() or write().
In(i, where) == status[Cmd(i)] = "live" /\ todo[Cmd(i)] = <<>> /\ at[i] = where
Goes(i, where) == at' = [at EXCEPT ![i] = where]
Stdin(i)  == fd[Cmd(i)][0]
Stdout(i) == fd[Cmd(i)][1]

\* It is in its own code no more.
Stops(i) == /\ at' = [at EXCEPT ![i] = "exit"]
            /\ said' = IF i = 1 THEN 0 ELSE said

\* It returns from umain(): exit().
Exits(i) == /\ todo' = [todo EXCEPT ![Cmd(i)] = Exit]
            /\ Stops(i)

\* pageref() of an Fd page and of a data page are the sizes of these.
Maps(e)     == {m \in Procs \X Fd : fd[m[1]][m[2]] = e}
DataMaps(i) == {m \in Procs \X Fd : data[m[1]][m[2]] = i}

pipeisclosed(e) == Cardinality(Maps(e)) = Cardinality(DataMaps(e[1]))

\* devpipe_read(): a byte, or an empty ring.
Read(i) ==
  /\ In(i, "read") /\ Stdin(i) # None
  /\ IF bytes[Stdin(i)[1]] > 0
     THEN bytes' = [bytes EXCEPT ![Stdin(i)[1]] = @ - 1] /\ Goes(i, "write")
     ELSE bytes' = bytes /\ Goes(i, "empty")
  /\ UNCHANGED <<line, status, todo, pages, said>>

\* ... and whether its writers are gone.
AskWriters(i) ==
  /\ In(i, "empty")
  /\ Goes(i, IF pipeisclosed(Stdin(i)) THEN "eof" ELSE "read")
  /\ UNCHANGED <<line, status, todo, pages, text>>

\* What the first command says is its own; then it ends.
Says(i) == IF i = 1 THEN said' = said + 1 ELSE said' = said
Again(i) == Goes(i, IF i = 1 THEN "write" ELSE "read")

\* devpipe_write(): a byte, or a full ring.  The last command's output is the
\* console.
Write(i) ==
  /\ In(i, "write") /\ (i = 1 => said < MaxBytes)
  /\ \/ /\ Stdout(i) = None
        /\ Says(i) /\ Again(i) /\ UNCHANGED bytes
     \/ /\ Stdout(i) # None /\ bytes[Stdout(i)[1]] < Size
        /\ bytes' = [bytes EXCEPT ![Stdout(i)[1]] = @ + 1]
        /\ Says(i) /\ Again(i)
     \/ /\ Stdout(i) # None /\ bytes[Stdout(i)[1]] = Size
        /\ Goes(i, "full") /\ UNCHANGED text
  /\ UNCHANGED <<line, status, todo, pages>>

\* ... and whether its readers are gone.
AskReaders(i) ==
  /\ In(i, "full")
  /\ Goes(i, IF pipeisclosed(Stdout(i)) THEN "broken" ELSE "write")
  /\ UNCHANGED <<line, status, todo, pages, text>>

\* read() has returned 0, and cat() with it.
Ends(i) ==
  /\ In(i, "eof")
  /\ Exits(i)
  /\ UNCHANGED <<line, status, pages, bytes>>

\* write() has returned 0.  cat() panics: a breakpoint over and over again, in
\* the monitor, and nothing is closed.  echo, which can only be the first,
\* goes on with what is left.
Panics(i) ==
  /\ In(i, "broken")
  /\ at' = [at EXCEPT ![i] = "panic"]
  /\ said' = IF i = 1 THEN 0 ELSE said
  /\ UNCHANGED <<line, status, todo, pages, bytes>>

PassesOver(i) ==
  /\ i = 1 /\ In(i, "broken")
  /\ Says(i) /\ Again(i)
  /\ UNCHANGED <<line, status, todo, pages, bytes>>

\* The first command has said all.
Finish(i) ==
  /\ i = 1 /\ In(i, "write") /\ said = MaxBytes
  /\ Exits(i)
  /\ UNCHANGED <<line, status, pages, bytes>>

\* A command may end before its input does, or fault.  One that has panicked
\* is there until somebody destroys it.
Quit(i) ==
  /\ \E where \in {"read", "write"} : In(i, where)
  /\ Exits(i)
  /\ UNCHANGED <<line, status, pages, bytes>>

Fault(i) ==
  /\ status[Cmd(i)] = "live" /\ at[i] # "exit" /\ Free(Cmd(i)) /\ Stops(i)
  /\ UNCHANGED <<line, bytes>>

Command(i) == \/ Read(i) \/ AskWriters(i) \/ Write(i) \/ AskReaders(i)
              \/ Ends(i) \/ Panics(i) \/ PassesOver(i) \/ Finish(i)

Next == \/ \E p \in Procs : SystemCall(p)
        \/ \E i \in Stage : Command(i) \/ Quit(i) \/ Fault(i)

\* KernEnv!NoStarvation: whoever can run is run, as long as nobody has the
\* monitor keep the lock.  No command need give up.
Fairness == /\ WF_vars(\E p \in Procs : SystemCall(p))
            /\ \A i \in Stage : WF_vars(Command(i))

Spec == Init /\ [][Next]_vars /\ Fairness

-----------------------------------------------------------------------------
TypeOK ==
  /\ status \in [Procs -> {"free", "live", "dead"}]
  /\ fd \in [Procs -> [Fd -> End \cup {None}]]
  /\ data \in [Procs -> [Fd -> Stage \cup {NoPipe}]]
  /\ bytes \in [Stage -> 0 .. Size]
  /\ at \in [Stage -> {"none", "read", "empty", "eof", "write", "full", "broken", "panic", "exit"}]
  /\ said \in 0 .. MaxBytes

\* A command that read() tells the end of its input, or write() that nobody
\* reads on, is told so truly: no process has the other end of that pipe, and
\* none is yet to get it.  Shells that hand the ends on, close them, or are
\* still making a child, do not make it look so too early (_pipeisclosed of
\* lib/pipe.c in a line that runcmd() of user/sh.c has put together).
ToldTruly ==
  /\ TypeOK
  /\ \A i \in Stage :
       /\ In(i, "eof")    => Maps(Wr(Stdin(i)[1])) = {}
       /\ In(i, "broken") => Maps(Rd(Stdout(i)[1])) = {}

\* "Do not return until the shell command is finished" (user/sh.c:17): when
\* the first runcmd() ends and the shell prompts again, nothing of the line
\* is left running, whichever of its commands could not be spawned.
PromptLast == status[Sub(1)] = "dead" => \A p \in Procs : status[p] \in {"free", "dead"}

\* Every line ends: each end of each pipe is closed by all who have it, so
\* that a reader finds the end of its input and a writer into a full pipe that
\* its reader has gone, and every wait() comes to an end (the closes of
\* user/sh.c:99-112 and 161).  The exception is a command that panics because
\* what reads its output has gone, which stops the machine.
PipelineEnds ==
  <>(\/ \A p \in Procs : status[p] \in {"free", "dead"}
     \/ \E i \in Stage : at[i] = "panic")
=============================================================================
