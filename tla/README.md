# TLA+ models of the JOS kernel (lab 5) and its library

This directory models `src/lab5/lab5_work`: the JOS exokernel with symmetric
multiprocessing, preemption, message passing and copy-on-write processes, and
the user library on top of it. Paths below are relative to that directory.
`lab1` to `lab4` are earlier states of the same program and `obj/` holds
generated code; neither is modelled.

Run everything from this directory: `tlc -workers 2 -config X.cfg M` checks
module `M`, `tlapm MProofs.tla` checks proofs. `PROJECT.json` lists components,
runs, mutants, the lines each definition stands for, findings, hazards and
theorems.

## The system

| Part | State | Operations | Interacts with |
|---|---|---|---|
| Big kernel lock, `kern/spinlock.c` | `locked`, `cpu` | `spin_lock`, `spin_unlock`, `holding` | every entry to and exit from the kernel |
| Environments, `kern/env.c` | `envs[]`, `env_free_list`, `curenv` per CPU | `env_alloc`, `env_free`, `env_destroy`, `env_run`, `envid2env` | scheduler, system calls, page tables |
| Scheduler, `kern/sched.c` | `env_status`, `cpu_status` | `sched_yield`, `sched_halt` | timer interrupt, lock, monitor |
| Trap path, `kern/trap.c` | the trap frames | `trap`, `trap_dispatch`, `page_fault_handler` | all of the above |
| Pages, `kern/pmap.c` | `page_free_list`, `pp_ref`, page directories and tables | `page_alloc`, `page_insert`, `page_remove`, `pgdir_walk`, `page_decref` | system calls, `env_setup_vm`, `env_free` |
| System calls, `kern/syscall.c` | none of their own | 16 calls | environments, pages, IPC fields of `struct Env` |
| IPC, `lib/ipc.c` | `env_ipc_*` of `struct Env` | `ipc_send` (retries), `ipc_recv` (blocks) | pages; file client and server |
| Fork, `lib/fork.c`, and page fault upcall, `lib/pgfault.c`, `lib/pfentry.S` | `PTE_COW` bits, TLBs, the exception stack | `fork`, `duppage`, `pgfault`, `_pgfault_upcall` | page system calls, `page_fault_handler` |
| Descriptors, pipes, `lib/fd.c`, `lib/pipe.c` | shared `Fd` and `Pipe` pages, their reference counts | `dup`, `close`, `read`, `write`, `pipeisclosed` | `pageref` through `uvpt` |
| File server, `fs/serv.c`, client `lib/file.c` | `opentab`, one request page | open, read, write, stat, flush, set size | IPC, `pageref`, file system |
| File system, `fs/fs.c`, `fs/bc.c`, `fs/ide.c` | bitmap, files, block cache, disk | block allocation, read, write, flush | one server, one disk |
| Shell and spawn, `user/sh.c`, `lib/spawn.c`, `lib/wait.c`, `lib/exit.c` | descriptors of a command line's processes, a child half built | `runcmd`, `spawn`, `wait`, `exit` | pipes, fork, file client |
| Console, interrupt controllers, boot, monitor, C library | device registers, tables | | |

What is hard about it:

* **Concurrency.** Kernel code runs under one lock, but user code, the way into
  the kernel and the way out of it do not. An environment can be destroyed or
  given a status by one CPU while another runs it. User programs share pages,
  and between any two system calls anything may happen.
* **Failure.** Memory runs out in the middle of calls; environments die while
  others wait for them or send to them; the machine stops between two disk
  writes.
* **Counting.** `pp_ref` decides when a page is free, user programs read it
  (`pageref`) to decide whether a pipe or an open file is still in use, and it
  has 16 bits.
* **Waiting.** Blocking receive, retrying send, round robin over slots, halted
  CPUs, and a monitor that keeps the lock.

## Modules

| Module | Models | Written against |
|---|---|---|
| `Mutex` | what the kernel lock promises, with progress | |
| `SpinLock` | `kern/spinlock.c`, one shared memory access a step | implements `Mutex` |
| `KernEnv` | environments, scheduler, trap path and the life-cycle system calls on several CPUs | uses `Mutex`: `Acquire` is atomic |
| `Rendezvous` | what IPC promises | |
| `Ipc` | `sys_ipc_recv`, `sys_ipc_try_send`, `ipc_recv()`, `ipc_send()` | implements `Rendezvous`; assumes KernEnv's `ReceiverAsleep` and `NoStarvation` |
| `PageMap` | the page allocator, page tables, page system calls, birth and death of address spaces | called under the lock of `KernEnv`; called by `Ipc` to transfer a page |
| `Pipe` | the descriptors of a pipe: `pipe`, `close`, `dup`, `exit`, `pipeisclosed`, and how `fork` and `spawn` pass them on | one system call a step (`KernEnv`), exact `pp_ref` (`PageMap`) |
| `Channel` | what a pipe promises about its bytes | |
| `PipeRing` | `devpipe_read`, `devpipe_write` on the shared page | implements `Channel`; takes the answer of `pipeisclosed` as right (`Pipe`) |
| `ForkMemory` | what `fork` promises: a memory for each environment | |
| `CowFork` | `fork`, `duppage`, `pgfault` with page tables and TLBs | implements `ForkMemory`; one system call a step (`KernEnv`) |
| `UserFault` | `page_fault_handler` and `_pgfault_upcall` on the words of the stacks | stack and upcall are there (`CowFork`) |
| `FsServ` | `opentab[]` of `fs/serv.c`, the clients of `lib/file.c` | a message is one step (`Ipc`), exact `pp_ref` (`PageMap`) |
| `FsDisk` | `fs/fs.c` over the block cache, and crashes | one operation after the other (`FsServ`) |
| `Shell` | `runcmd` of `user/sh.c` with `spawn`, `wait` and `exit`, and commands on pipes | `pipeisclosed` in one step on one CPU (`Pipe`), the ring a counter (`PipeRing`) |
| `MCPageMap`, `MCPipe`, `MCCowFork`, `MCFsDisk` | symmetry sets, the bound of `MCPipe`, the view of `MCCowFork`, for TLC | |
| `Cpus` | the processors, for `SpinLock` and `KernEnv` | |
| `KernEnvProofs` | theorems about `SpinLock` and `KernEnv` | |
| `CowForkProofs` | theorems about `CowFork` and `UserFault` | |
| `PipeProofs` | theorems about `Pipe` and `PipeRing` | |
| `IpcProofs`, `PageMapProofs`, `FsServProofs`, `FsDiskProofs`, `ShellProofs` | theorems about the module they are named after | |

Two modules that are proved about in one place keep their names apart: `LockInit`,
`LockSpec` of `SpinLock`, `RingSpec` of `PipeRing`, `FaultSpec` of `UserFault`, and so on.

Operators carry the name of the C function they stand for. `Mutant` comments
mark definitions that are wrong on purpose: each property has one that breaks
it, and nothing else uses them.

### SpinLock

`at[c]` is where CPU `c` is inside `spin_lock` or `spin_unlock`; `locked` and
`cpu` are the fields of the lock. `holding()` reads the two fields one after the
other without the lock, so `CheckLocked`/`CheckCpu` and `HoldsLocked`/`HoldsCpu`
are separate steps, and the release clears `cpu` before `locked`. Memory is
sequentially consistent: on x86 the stores of a CPU stay in order, `xchg`
drains its store buffer before a lock or a release takes effect, and the only
plain store is the holder's write of `cpu`, which other CPUs compare with
themselves and which the releasing `xchg` makes visible. A check that reads an
older value of `cpu` reads the name of an earlier holder, never of itself: a
CPU sees its own stores.

### KernEnv

One CPU is in user mode, spins for the lock on its way in (`trap`, `timer`,
`wake`, `boot`), runs one handler while it holds the lock, and ends in user
mode, in `hlt` or in the monitor. A handler is one step because everything it
touches is accessed under the lock only. The step includes all the handler
calls: a system call ends with `TrapReturn`, the last lines of `trap()`, which
runs the current environment or searches for another (`SchedYield`, `EnvRun`,
`SchedHalt`). One handler is two steps: a breakpoint enters the monitor
(`Breakpoint`), which keeps the lock, whatever the other CPUs are doing, until
the operator gives a command that fails (`LeaveMonitor`). Every `panic()` of a
user program does this. The monitor that `sched_halt` enters with the lock held
is another place (`monitor`): a CPU does not come back from it, since it is in a
loop (`kern/sched.c:72-73`), and `NoneLeftToRun` says that nobody loses by that.

The environment's identifier is a generation and a slot, so that a slot reused
is not the environment a parent remembers. Generations wrap as in `env_alloc`:
from the largest positive one to 1. Address spaces are one Boolean here
(`env_pgdir # NULL`): `env_run` of a slot without one panics, and `env_free` of
one faults.

What kernel code relies on but does not check is that programs use two calls in
a disciplined way. `LibSpec` has that discipline, taken from the programs of the
repository: `fork`, `dumbfork` and `spawn` set the status of a child that they
have not started yet (`lib/fork.c:190`, `lib/spawn.c:135`, `user/dumbfork.c:75`),
and nobody destroys an environment twice (`lib/spawn.c:141`, `lib/exit.c:8`,
`user/spin.c:29`, `user/testpiperace2.c:59`). `Spec` is the kernel under any
programs at all, under which `TypeOK` and `FreeListSound` are proved to hold all
the same (what else goes wrong is under "Findings"). Beyond the point where a page
directory that a CPU still uses has been freed, real hardware does not stop at
these steps, so nothing more is claimed of `Spec`.

### Rendezvous and Ipc

`Rendezvous` has offers and inboxes: a message goes from an environment that
offers it to one that waits, once and unchanged. `Ipc` has the fields of
`struct Env`, the checks of `sys_ipc_try_send` in their order (`TryResult`), the
retry loop, all failures (a bad argument, a dead receiver, no memory for a page
table: `ipc_send` panics) and deaths at any point. The refinement maps a sender
in its loop to an offer and the receiver's fields, once it has returned, to its
inbox. Each environment has one buffer page, as the programs of `user/` and the
file client do.

### PageMap

`pde` and `pte` are the entries of page directories and page tables below UTOP,
`env_pgdir` the page each directory is in, `pp_ref` the counts modulo `RefMod`.
`PageInsert` is `page_insert` with the page that `pgdir_walk` may take for a new
table; the callers differ in where their page comes from and in what they undo.
`EnvFree` drops everything at once and works out which counts pass zero on the
way (`Freed`), so that a wrong count shows. A call that fails leaves everything
as it was, except `sys_page_alloc`, which must give its page back.

The free list is a set: `page_alloc` may return any free page, which covers the
code's last-in-first-out list and more. Pages mapped only above UTOP are the
kernel's and have no counts (`env_setup_vm` says so).

### Pipe

An open descriptor of a pipe is two pages in its owner's address space: the `Fd`
page, shared by all descriptors of that end, and the pipe's data page, shared by
all descriptors of both ends. `fd[p][i]` and `data[p][i]` say which of them
process `p` maps for descriptor `i`; `pageref` counts them (`FdMaps`,
`DataMaps`). An end has no other side when the two counts are equal.

A library call is a record `op[p]` and goes on by one system call a step:
`close` is `UnmapFd`, `UnmapData`; `dup` is a `close` if the new descriptor is
open and then `DupData`, `DupFd`; `exit` closes all descriptors one after the
other and then destroys itself; `fork` and `copy_shared_pages` walk the address
space, all Fd pages first (`ForkFd`), then all data pages (`ForkData`), and start
the child. `look[p]` is `_pipeisclosed`: two reads in either order, since C does
not order the operands of `==`, and the test whether `env_runs` has moved.
`Dispatch` is what moves it. Between any two steps a process may lose its CPU or
die; one destroyed by another while it waits for a CPU is taken to die when it
is next given one, which nobody can tell apart, since its destroyer is inside a
system call of its own and not in `pipeisclosed`.

`pageref` itself reads a page table entry and a count; on one CPU a preemption
between the two moves `env_runs` and the answer is thrown away, so that one step
for both loses nothing there. On two CPUs the coarser step already fails.

One pipe exists at a time, and is made anew when nobody maps it any more.
Several pipes share no pages, so that they meet only in the descriptors they
take up. Out of memory is left out: on failure `pipe` and `dup` unmap what they
have mapped, and `fork` panics. A user program that panics executes a
breakpoint over and over, which hands the machine to the monitor; it keeps what
it maps and takes no step more, in all these models, until somebody destroys it.

### PipeRing and Channel

The two positions, the buffer, and where a `read` and a `write` are: at the test
for an empty or full ring (`test`), at `_pipeisclosed` (`ask`), at the byte
(`move`) or at the position (`step`). Each access to the shared page is a step,
so that preemption and a second CPU are the same thing; x86 keeps stores in
program order. The test for a full ring is unsigned because of `sizeof`, and the
index has the sign of the position, as in C (`Full`, `Index`). Positions wrap
after `Width` bits. `Channel` is a bounded queue of bytes and what the call of
`read` under way has received; a byte is received when `p_rpos` has passed it.

### CowFork and ForkMemory

`ForkMemory` has a `view` of memory for each environment. `CowFork` has what is
really there: `mem` per physical page, `pa` and `perm` per page table entry, and
a TLB for each environment, since `KernEnv` runs an environment on one CPU at a
time and `env_run` empties that CPU's. A TLB may hold any entry that was in the
table since then, and instructions go by the TLB. `fork` is a walk over the
pages (`Walk`, `DupAsIs`, `DupCow`, `DupOwn`), a system call a step, on a stack
that is itself copied; `pgfault` is four steps. Between any two, others write,
fault, fork and die. A nested return address that the upcall pushes is a `Store`.

`page_alloc` is a `CHOOSE`, since which free page it is cannot matter, and the
view of `MCCowFork` says the same to TLC: it forgets the number of a physical
page and what free ones hold, neither of which any action or property reads. The
exception stack is above `USTACKTOP` and belongs to nobody else, so it is a set of
environments that have one. `sfork`, which ends in a panic, is left out.

### UserFault

The stacks are words. A `UTrapframe` has two of the eight general registers, `eip`,
`eflags` and `esp`. `PageFault` pushes a frame where the code does (`FrameAt`);
the upcall calls a handler that may use the stack, write to it, and fault
again; `Adjust`, `WriteFaults` and `Return` are the assembly of
`lib/pfentry.S`, in the pieces a fault can separate. `saved` is a ghost: the
registers and the stack of what was interrupted. Words that are on no stack are
set to 0 when user code runs, so that they do not multiply states.
`CareSpec` asks of a handler that it does not take more of the stack than there
is; without it, see "Findings".

### FsServ

An entry of `opentab[]` has one Fd page, which the server shares with every client
that has the file open; `pageref` counts clients' descriptors and the server's
own mapping, and is all the server knows of its clients. A request goes through
`serving` one step at a time, while clients share, drop and move descriptors or
die. `named` is a ghost, the file a descriptor was opened on. A client may also
unmap a descriptor's page behind the server's back and go on with a copy of it,
as `user/testfile.c` does (`Unmap`, `OnCopy`): with any id that was ever given
out. The variables of a request are reset where they mean nothing any more.

The file system behind it is left open: an open may fail, a transfer may be
short, and `fs/bc.c` may panic in the middle of either (`FileSystemPanics`). The
server panics as well when it cannot send its answer, because the client is dead
or, for an open, because there is no memory to map the Fd page into a living one
(`ReplyPanics`). A server that has panicked serves nobody any more; the client
whose request it was waits for ever, and all others try to send for ever.

The request page must be writable when it is sent. `fsipcbuf` follows
this through `fork`: every call but `sync()` writes to the page first, so that
it is copied. After a `fork`, `sync()` as the next call panics.

### FsDisk

`bitmap`, `file` and `word` are the server's memory, `dbitmap`, `dfile` and
`dword` the disk. A step goes up to the next disk write, `FlushBlock` writes one
block, and `Crash` copies the disk back. `flushes` are the blocks the operation
will flush before it goes on. A block's contents are what an indirect block
needs, `NINDIRECT` pointers; data is what would be read in their place. One
directory block holds all the files, and a size counts blocks. Transfers past
the largest file are left out.

`CareSpec` is the discipline under which the file system is right: whoever grows
a file past its direct blocks gets a blank block for its indirect one, and the
machine stops only when no file has an indirect block or all has been synced.
Both are needed, see "Findings": the code neither clears that block nor orders
its writes behind `file_flush`.

### Shell

A shell's way through `runcmd()` is fixed once its line is parsed, so it is a list
of library calls (`Runcmd`, `Runit`, `Forked`) of which `todo[p]` is what is left;
each call takes its system calls one step at a time, with the page mappings of
`Pipe` for several pipes: `close` as `UnmapFd`, `UnmapData`, `dup` the other way
round, `fork` and `spawn` all Fd pages first. A command is `cat`: a byte from the
left, a byte to the right, the end or a full ring in between; the first command
has a bounded number of bytes to say. It may also be a word that `spawn` cannot load, end
early, or fault. `echo` ignores that `write` returns 0; `cat` panics.

The child between `sys_exofork` and `ENV_RUNNABLE` is one call, `create`. Out of
memory is left out: `spawn` would panic and leave a child that maps the ends of
pipes for ever. Redirections (an `open` and a `dup`), nested lines and builtins
are left out.

## Runs

| Run | Bounds | Distinct states | Shows |
|---|---|---|---|
| `SpinLock` | 3 CPUs | 351 | `LockInv` (mutual exclusion and what makes it inductive), `ChecksNeverPanic`, `ImplementsMutex` with progress |
| `KernEnv` | 2 CPUs, 3 slots, 2 generations, 1 first environment | 82,262 | `TypeOK`, `FreeListSound`, `LibInv` and its parts, `NoneLeftToRun`, `LifeCycle`, `NoStarvation` |
| `Ipc` | 2 senders, 1 receiver, 2 values | 335,822 | `BlockedIsReceiving`, `ImplementsRendezvous`, `PageArrived`, `SenderServed` |
| `MCPageMap` | 6 pages, 2 address spaces of 2 tables with 2 entries, symmetric | 1,564 | `RefCounts`, `FreeListSound`, `TablesPrivate`, `WriteNotGained` |
| `MCPipe` | 3 processes, 2 descriptors each, 1 CPU, two at a time inside calls, symmetric | 2,325,025 | `Paired`, `ClosedUnlessForking`, `OpenMeansOpen` |
| `PipeRing` | 2 byte values, ring of 2, calls of up to 3 bytes, positions up to 5 of 4 bits | 44,688 | `ImplementsChannel`, `WriterReleased`, `NeverBothWait` |
| `MCCowFork` | 2 environments, 3 pages (a stack, a shared one), 5 physical pages, 2 values, view | 161,769 | `TlbCoherent`, `CanFault`, `ImplementsForkMemory` |
| `UserFault` | user stack of 2 words, exception stack of 19, frames of 5, 2 values | 2,285,136 | `StacksKept`, `Resumes` |
| `FsServ` | 2 clients, 2 descriptors, 2 files, `MAXOPEN` 1, the entry used 3 times, offsets 0 and 1 | 149,330 | `FdNamesFile`, `NewFdIsFresh`, `NobodyForgotten`, `RefusedExactlyWhenStale`, `RequestsEnd` |
| `MCFsDisk` | 2 files, 3 blocks, 1 direct and 1 indirect pointer, crashes only with no indirect block or all synced, symmetric | 1,896,022 | `TypeOK`, `OneOwner`, `OneOwnerOnDisk`, `FlushedSurvives` |
| `Shell` | lines of up to 3 commands, ring of 1, 2 bytes | 297,058 | `ToldTruly`, `PromptLast`, `PipelineEnds` |
| `FsDiskStale` | as `MCFsDisk`, no crashes, no care | | the finding below |

The types of `Ipc`, `PageMap`, `Pipe`, `CowFork` and `FsServ` are proved and need no run;
those of `UserFault` and `Shell` are the first conjunct of `StacksKept` and
`ToldTruly`.

Why the bounds are enough to be interesting:

* Three CPUs spin while one holds the lock; with three, one may be in a check
  while two others change hands.
* Three slots hold a parent, a running child and a third that the scheduler
  passes over; two CPUs make a parent and a child run at once, or one halt while
  the other runs. `KernEnvProofs` has the invariants for any number of either, and
  `FreeListSound` under any programs. Two values of the
  generation (`NGEN = 2`) leave one that can be used, so that every reuse of a
  slot wraps and an old id names the new environment: the worst case for
  `envid2env`. The code has 2^19 - 1 of them.
* Two senders and one receiver give the race for the flag; two values tell the
  messages apart. `IpcProofs` lets every environment send and receive.
* Six pages are fewer than two address spaces ask for (two directories, four
  tables, eight leaves), so that every allocation fails somewhere.
* Three processes: one asks, while one of the other two makes the third or closes
  what it got from it. Two descriptors are the two ends, and let `dup` overwrite
  one with the other and itself. `TwoInCalls` leaves out the states in which all
  three are inside a library call at once; the proofs cover those.
* A ring of 2 with calls of 3 bytes makes both sides wait inside a call; five
  positions go round it more than twice, so that each cell is overwritten.
  Four bits keep the positions positive, as those of the first 2^31 bytes are.

* Two environments fork each other's pages back and forth: a child forks again
  when its parent has died and its slot is free. Five physical pages are fewer
  than the seven they can ask for (two pages of their own each, a shared one, and
  two that faults are copying to). The stack page is the one
  written during `fork`.
* Nineteen words are three frames with two gaps and two words to spare: faults
  go three deep, and a fourth does not fit and destroys the environment.
* Two clients share a descriptor by `fork`, or race for an entry; three uses of
  one make two reuses and two stale ids. There is one entry: what happens to it
  is only what the count of its own page lets happen, and the second client finds
  the table full. `FsServProofs` has the safety properties for any number of
  entries. The offset matters as 0 or not 0.
* Three blocks are too few for two files of two blocks and an indirect block,
  so that blocks change owner and allocations fail. Data may look like the
  number of a block (`4`), which is what makes a stale indirect block dangerous.
* Three commands: the middle one has two pipes and inherits, from two shells,
  copies of ends it must not keep. A ring of 1 makes the first of two bytes fill it.

Deadlock is checked in `SpinLock`, `MCPageMap`, `MCFsDisk` and `FsDiskStale`. In
the others processes that have all ended, CPUs that have all stopped in the
monitor, a panicked server and environments that have all died or panicked,
really stop.

### Fairness

* `SpinLock`: a CPU that is in the middle of `spin_lock` or `spin_unlock` goes
  on. `xchg` is not fair to one CPU, and `Mutex` promises only that somebody
  gets a free lock.
* `KernEnv`: somebody gets a free lock; the holder's handler ends (there is
  no loop in a handler), except that the monitor of a breakpoint is left when the
  operator says so, which is a premise of `NoStarvation`; a halted CPU is
  woken; the timer interrupts user code again and again. The last is strong
  fairness, since user mode is left and entered all the time: the local APIC
  latches an interrupt that arrives in the kernel, and it is taken at the `iret`.
  `NoStarvation` has the other premise that no more environments end, since after each
  end the search starts at slot 0 again.
* `Ipc`: an environment that retries makes its next call, which is what
  `NoStarvation` says of it.
* `PipeRing`: a process inside `read` or `write` is run again and again
  (`NoStarvation`). Nobody has to call, to close, or to die.
* `Shell`: some process that has a system call to make makes it, and each
  command goes on (`NoStarvation`, with nobody in the monitor). The shells' calls are
  finite, so weak fairness for them together is enough. No command has to quit or fault.
* `FsServ`: the server, and a client that has sent a request and must still
  receive, are run again and again (`NoStarvation`). No client has to send, to
  unmap, or to die.
* `CowFork`, `UserFault` and `FsDisk` have safety properties only.

## Findings

`FsDiskStale` shows one: the comment of `fs/fs.c:143` asks "Don't forget to clear any
block you allocate", and `file_block_walk` (`fs/fs.c:165`) does not clear the
block it takes for an indirect block. A block that held data and was
freed is then read as block numbers, and a file gets pointers to blocks of others:
`OneOwner` fails by the same trace.

Other places where the code does not do what it says, met while modelling. They
are described here and no run is spent on them; the models state their
properties with the premise that leaves them out.

* `kern/env.c:539-542` promises that a zombie is freed when it next traps; a
  second `sys_env_destroy` frees it at once, under the CPU that runs it.
* `kern/sched.c:26` promises never to choose an environment that runs on another
  CPU; `sys_env_set_status` of a running child makes it eligible.
* `kern/syscall.c:450` and `lib/ipc.c:11` promise a permission of 0 when no page
  came; the permission of an earlier message is left.
* `lib/pipe.c:123` notes end of file "if all the writers are gone". `fork` and
  `copy_shared_pages` share a child's Fd pages before its data pages, and until
  they are done a third process that asks is told that the other end is closed.
  With the parent destroyed in the middle it stays that way.
* `lib/pipe.c:87` says "pipe race avoided", and `user/testpiperace.c:58` relies on
  it. On two CPUs an unchanged `env_runs` says nothing about what the other did
  between the two reads.
* `user/testpipe.c:27-30` expects the whole message before end of file.
  `devpipe_read` (`lib/pipe.c:124`) finds the ring empty first and asks for
  writers after that; bytes written just before the last `close` are left behind.
* `kern/trap.c:430-432` promises to destroy an environment whose exception stack
  overflows. A handler that has moved `esp` below the page is not on that stack
  any more (`kern/trap.c:450`), so that its fault pushes a frame at the top, over
  the frames in use.
* `user/sh.c:17` promises not to return "until the shell command is finished". With nothing
  left of a `|`, `runcmd` returns at once (`user/sh.c:130-134`) and does not wait
  for the right-hand part.
* `user/cat.c:13` panics when what reads its output has gone, as in a line whose
  second command cannot be spawned; the breakpoint hands the machine to the
  monitor. `PipelineEnds` says so.

Limits the models take as premises rather than as subjects of runs:

* `pp_ref` is 16 bits wide and is incremented unchecked (`kern/pmap.c:598`):
  `CountsFit` is what keeps it exact.
* The positions of a pipe are signed 32-bit offsets: after 2^31 bytes
  `p_wpos % PIPEBUFSIZ` is negative and the byte goes in front of the buffer
  (`lib/pipe.c:167`). `PipeRing` ends there.
* `kern/sched.c:18-20` promises to search from the environment last run; after it
  has ended (`kern/env.c:550`) the search starts at slot 0. It is the premise of
  `NoStarvation`.
* `o_fileid` grows by `MAXOPEN` with every open (`MaxUse` bounds it), and would
  wrap after 2^22 opens of an entry.
* `devfile_write` does not cut a write to the size of the request's buffer
  (`lib/file.c:149`); no program writes more at once.
* The file server panics when a client dies between its request and the answer
  or has no memory for the Fd page it is sent (`ReplyPanics`, `fs/serv.c:354`
  with `lib/ipc.c:78` and `kern/syscall.c:531`), and on memory or bad blocks in
  `fs/bc.c` (`FileSystemPanics`). A living client whose request it was waits for
  ever. `NobodyForgotten` says that it is the only one, `RequestsEnd` that without
  a panic there is none.

## Proofs

All theorems hold for every value of the constants that satisfies the named
assumptions (finite sets of pages, indices and processes, distinct model
values, at least one slot, two generations).

| Theorem | Says | Argument |
|---|---|---|
| `KernEnvProofs!LockSafety` | `LockInv` | inductive as it is: who is past the `xchg` holds the lock, and `cpu` names nobody else |
| `KernEnvProofs!LockNeverPanics` | `ChecksNeverPanic` | follows from `LockInv` |
| `KernEnvProofs!LockIsMutex` | the safety part of `Mutex` | every step maps to `Ask`, `Grant`, `Release` or a stutter |
| `KernEnvProofs!KernelUsesLock` | no CPU is in user mode or in `hlt` with the lock; each step of `KernEnv` maps to one of `Mutex` or a stutter, under `Spec` | `HolderInKernel` is inductive; every handler ends by giving the lock back, or in one of the two monitors (`HandlerEnds`). Not a property of a run |
| `KernEnvProofs!TypeCorrect`, `FreeListCorrect` | `TypeOK`, `FreeListSound` under `Spec` | `FreeListSound` is inductive with `TypeOK`; the scheduler does not touch the list |
| `KernEnvProofs!OwnershipCorrect` | `LibInv` under `LibSpec` | needs `LockDiscipline`: the lock is held only within a handler or by a monitor, idle CPUs have no environment, and `sched_halt`'s monitor was entered when nothing could run |
| `KernEnvProofs!HaltsWhenNoneIsLeft` | `NoneLeftToRun` | part of `LockDiscipline`: a CPU in user mode, or at a breakpoint, owns a RUNNING or DYING environment, and `sched_halt` looks for both |
| `KernEnvProofs!LivesAreOrderly` | `LifeCycle` under `LibSpec` | every handler is followed by the scheduler or the return of the trap, and the scheduler only turns RUNNABLE and RUNNING into each other (`Scheduled`); then one case per handler, with `LibInv` for the caller's state |
| `IpcProofs!FlagCorrect` | `TypeOK`, `BlockedIsReceiving` | one case per system call |
| `IpcProofs!PageCorrect` | `PageArrived` | only the sender's own success wakes its receiver |
| `IpcProofs!Refinement` | `ImplementsRendezvous` | `BlockedIsReceiving` gives that a successful send finds a waiting inbox |
| `PageMapProofs!PagesCorrect` | `RefCounts`, `FreeListSound`, `TablesPrivate`, `Hierarchy`, types | see below |
| `PageMapProofs!WritesPassedOn` | `WriteNotGained` | every new writable entry is of a page just allocated or of one that was writable |
| `IpcProofs!TypeCorrect`; `PageMapProofs!FreeListCorrect`, `TablesStayPrivate`, `TypeCorrect` | the parts of the above by themselves | corollaries |
| `CowForkProofs!TypeCorrect`, `TlbStaysCoherent`, `FaultsCanBeTaken` | `TypeOK`, `TlbCoherent`, `CanFault` | `IInv`, see below |
| `CowForkProofs!ForkCopiesMemory` | `ImplementsForkMemory` | every step maps to a step of `ForkMemory` or a stutter |
| `CowForkProofs!StacksStay`, `ReturnsResume` | `StacksKept`, `Resumes` of `UserFault`, under `CareSpec` | `StacksInv`, see below |
| `PipeProofs!RingIsQueue` | `ImplementsChannel`, if `MaxPos < Half` | `RingInv`, see below; every step maps to a step of `Channel` or a stutter |
| `ShellProofs!LineIsToldTruly` | `ToldTruly` | `IInv`, see below |
| `ShellProofs!PromptComesLast` | `PromptLast`, if no command left of a `\|` is empty (`NoGap`) | `Nested`, see below |
| `FsServProofs!TypeCorrect`, `DescriptorsNameFiles`, `NewIsFresh`, `RefusalsJustified`, `NobodyIsForgotten` | `TypeOK` and the four safety properties of `FsServ` | `IInv`, see below |
| `FsDiskProofs!TypeCorrect`, `BlocksHaveOneOwner`, `DiskHasOneOwner`, `FlushedStays` | the four properties of `FsDisk` under `CareSpec` | `IInv`, see below |
| `PipeProofs!TypeCorrect`, `PairedAlways` | `TypeOK`, `Paired`, on any number of CPUs | `PairInv`, see below |
| `PipeProofs!NoFalseEof`, `NoMissedEof` | `ClosedUnlessForking`, `OpenMeansOpen`, on one CPU | `OneCpuInv` adds `Snapshot`: what has been counted since the last dispatch still holds |

`PairInv` needs more than `Paired`: a child inherits descriptors its parent may
close or die with (`Copied`: what has been walked over is the same in both,
`OneParent`: nobody else fills that child), and the middle of `dup` must know
whether the old descriptor is there (`Duplicating`). With `Paired`, the mappings
of an end's Fd page are a subset of those of the data page. If the counts are
equal, finiteness makes the two sets equal, and nobody maps the other end; if
they differ, some data page has no Fd page of this end beside it, which is the
other end's or that of somebody in a call. `Snapshot` holds on one CPU only: every
step that changes a mapping is one of a running process, and so of the one that
asks. The premise `NCpu = 1` is needed: on two CPUs another changes a mapping
between the two reads, and both properties fail.

`PagesCorrect` has one premise, `CountsFit`: there are fewer entries than
`pp_ref` can count. With fewer counts (`RefMod` of 4) `RefCounts` fails. The five
properties are inductive only together: `FreeListSound` makes a page that is
allocated one that nothing points to, `TablesPrivate` makes sure that a page
taken from a mapping is no page table, and `RefCounts` ties what the code tests
to both. The proof rests on lemmas about cardinalities (`CountChanged`: writing
one entry moves one reference; `CountCleared`: emptying some loses what they
held), on `PageInsertInv` for `page_insert` and on `DropInv` for every step that
only gives references up.

`CowForkProofs!IInv` says who may have a physical page: nobody else maps one that
is writable and not shared, except the child that `fork` has just given it
(`WriterInv`), a shared one is the same page for all that map it (`SharedInv`),
and a page being copied to is nobody else's (`TempInv`). It says where `fork` is:
the parent's own entry still is what `duppage` looked at (`StepInv`), where the
loop has not been the child has nothing (`LeftInv`), and the child maps nothing
writable, does not run and has one parent (`EmbryoInv`, `ChildInv`, `IdleInv`).
The exception in `WriterInv` is the gap between the two `sys_page_map` of `duppage`; it is
harmless because `fork` writes only the stack, which the child may still see change.
`UpcallInv` and `FaultInv` lead to `CanFault`.

`FsServProofs!IInv` adds to the properties where the server is and what it has
found (`EntryIds`, `OpenRight`, `FileRight`, `AnswerRight`, `ClientRight`). The
argument turns on one lemma, `NobodyHas`: as every descriptor's entry is mapped
by the server too, a count of 1 means the server alone, and the entry may be given
out again. Opens, which reuse entries, and clients, which add mappings, interleave; a
mapping is only ever copied from a client that has one. `FoundMeansOpen` turns
what `openfile_lookup` tests into what it is meant to find out: the count is
above 1 and the last id given out for the entry is the one asked for, exactly
when some client has a descriptor whose Fd page holds that id.

`FsDiskProofs!IInv` relates the two copies: the disk has no block free that memory
has not, and a pointer on it is the one in memory or still missing
(`DiskBehind`), which gives `OneOwnerOnDisk`; no pointer lies outside its file's size
(`Inside`); the operation under way is within its file and not on one called
flushed (`OpRight`); and what a flush has not written yet is still in `flushes`
(`FlushRight`). The care of `CareSpec` is needed in two places only: where a block
becomes an indirect block (`NeedsIndirect => FirstIsBlank` in `OpRight`), and in
a crash.

`CowForkProofs!StacksInv` is about the contexts: 0 is what runs, `i` is what was
interrupted as the `i`-th latest. Each but the last is the upcall or the
handler on the exception stack, with the frame of the fault that it handles above
it (`Chain`), and the last is user code (`UserLast`). The stacks do not overlap: what
a context has on the stack, its frame included, is above what later ones have
(`Nested`). That is why a push, and all a handler writes,
misses every word that is kept (`Kept`). The one word that is written in the middle
of others is the return address, in the gap `page_fault_handler` leaves below an
interrupted stack. `Handles` and `HasRegisters` say what frame and registers still
hold at each point of the upcall, `Resumed` that the return restores them all.

`PipeProofs!RingInv` has the distance of the positions between 0 and
`PIPEBUFSIZ` (`Positions`). A test may be old when its result is used, but a reader past
its test still has a byte and a writer past its test still has room (`ReaderRight`, `WriterRight`),
since each of the two only makes more of what the other has tested for. Two positions that are in the ring
at once have different cells (`OwnByte`), so that a store changes no byte that waits.
The premise `MaxPos < Half` says that no position passes the largest `off_t`,
where the ring really stops being one ("Findings").

`ShellProofs!IInv` first says where everybody is: what a shell still has to call is the
end of its list (`Lists`, `TailOf`), and its length tells which call is next (`Front`),
what it has in its four descriptors (`Fits`), and who has been started (`Order`). `Paired` is that of
`Pipe`, here across copies that `fork` and `spawn` have not finished
(`HalfMade`) and the middle of `dup` (`DupAt`). An end that nobody maps stays
unmapped: only a shell that is still before the command of its stage can
pass an end on, and nobody has an end of a pipe that is not made (`Fresh`). So an
answer that was true when it was given stays true (`Told`). `Nested` gives
`PromptLast`: for whoever runs of the line, the shell left of it has a
`wait()` in its list and is alive until then. An empty command left of a `|`
breaks it, as its shell returns at once, without its `wait()`; the run has no empty commands.

Every safety property that a run checks is stated by a theorem. Only model-checked: everything about liveness (`NoStarvation`, `SenderServed`,
`WriterReleased`, `NeverBothWait`, `PipelineEnds`, `RequestsEnd`, the progress part of
`ImplementsMutex`), which is out of the prover's reach, as are ENABLED, induction over
data and recursive operators.

## Not modelled, and the plan

* Boot, device drivers (console, IDE disk, interrupt controllers), the monitor's
  commands, debugging information and the C library: sequential code over device registers
  or text. The disk is an atomic block store in `FsDisk`, the timer is in
  `KernEnv`, and so is the way into the monitor and out of it.
* `entrypgdir.c` is a table of constants.
* The user programs and tests: they are where `LibSpec`, `CareSpec` of
  `UserFault`, and the senders, receivers and commands of the models come from.
* `lab1` to `lab4`: earlier states of the same program. What is modelled of
  `lab5` covers what they have in common with it; the lines of the map are
  `lab5`'s alone, which is why they are a small part of the repository's.
* Of the modelled parts: `load_icode` and boot-time mappings; `user_mem_check`;
  paths, names and modes of files; more than one directory block; running out of memory in
  `pipe`, `dup`, `fork` and `spawn`, which undo or panic; `sfork`; redirections.

The plan, most important first:

1. `Shell` with redirections and with memory that runs out in `fork` and `spawn`.
2. `FsDisk` with a directory of several blocks and `fs_init`'s checks.
3. `Console`: the input ring. `user_mem_check` as an operator with 32-bit
   arithmetic against its definition.
