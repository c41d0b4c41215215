------------------------------ MODULE UserFault ------------------------------
(***************************************************************************)
(* The page fault upcall: page_fault_handler() of kern/trap.c, the         *)
(* assembly of lib/pfentry.S and a handler in C, on the words of the user  *)
(* stack and of the exception stack of one environment.  A fault may come  *)
(* in user code, in the handler, or when the upcall writes to the user     *)
(* stack, and again in the handler of that fault.                          *)
(*                                                                         *)
(* A UTrapframe has what is restored: two general registers for the eight  *)
(* that popal loads, eip, eflags and esp.  The page of the exception stack *)
(* is there and the upcall is set, as CowFork has it.  Instructions that   *)
(* cannot fault go together with the one before them.                      *)
(***************************************************************************)
EXTENDS Naturals, Sequences

CONSTANTS
  USTACK, GAP, XSTACK, \* the user stack, what is empty above it, the exception
                       \* stack, in words
  User,                \* instructions of user code
  Contents,            \* what is in a register or on a stack
  MaxUse               \* bound: words of the stack the C handler uses

ASSUME StackAssumption == /\ USTACK \in Nat \ {0} /\ GAP \in Nat /\ XSTACK \in Nat
                          /\ Contents \subseteq Nat /\ 0 \in Contents /\ MaxUse \in Nat

\* Addresses are counted in words, and stacks grow down.
USTACKTOP  == USTACK
XBOTTOM    == USTACKTOP + GAP \* UXSTACKTOP - PGSIZE
UXSTACKTOP == XBOTTOM + XSTACK
OnXStack(a) == a \in XBOTTOM .. UXSTACKTOP - 1
OnUStack(a) == a \in 0 .. USTACKTOP - 1

\* sizeof(struct UTrapframe), and where its fields are.
SIZE   == 5
REGS   == 0 \* eax, and edx after it
EIP    == 2
EFLAGS == 3
ESP    == 4

ASSUME GapAssumption == GAP > SIZE

\* Instructions: _pgfault_upcall, the handler in C, its return to the upcall,
\* and the upcall's write to the trap-time stack.
Upcall  == 1
Handler == 2
Back    == 3
Write   == 4

ASSUME UserAssumption == User \subseteq Nat /\ User \cap {Upcall, Handler, Back, Write} = {}

VARIABLES
  alive,
  cpu,   \* the registers
  word,  \* the words of both stacks
  saved  \* ghost: what was interrupted and not yet resumed, the latest first:
         \* its registers and all that is on its stack

faultVars == <<alive, cpu, word, saved>>

Registers == [eip : Nat, esp : Nat, eax : Nat, edx : Nat, eflags : Nat]
Words     == {a \in 0 .. UXSTACKTOP - 1 : OnXStack(a) \/ OnUStack(a)}

\* What is on the stack of code with these registers.
Live(c) == {a \in Words : a >= c.esp /\ (OnUStack(a) <=> c.esp <= USTACKTOP)}
Now     == [cpu |-> cpu, stack |-> [a \in Live(cpu) |-> word[a]]]

FaultTypeOK ==
  /\ alive \in BOOLEAN
  /\ cpu \in Registers
  /\ word \in [Words -> Nat]
  /\ \A i \in DOMAIN saved : /\ saved[i].cpu \in Registers
                             /\ saved[i].stack \in [Live(saved[i].cpu) -> Nat]

\* User code is somewhere, with something on its stack.
UserContext(c, m) ==
  \E eip \in User, esp \in 1 .. USTACKTOP, eax, edx, eflags \in Contents :
    /\ c = [eip |-> eip, esp |-> esp, eax |-> eax, edx |-> edx, eflags |-> eflags]
    /\ \E stack \in [esp .. USTACKTOP - 1 -> Contents] :
         m = [a \in Words |-> IF a \in DOMAIN stack THEN stack[a] ELSE 0]

FaultInit ==
  /\ alive = TRUE
  /\ UserContext(cpu, word)
  /\ saved = <<>>

-----------------------------------------------------------------------------
(***************************************************************************)
(* page_fault_handler()                                                    *)
(***************************************************************************)
\* Mutant: every frame goes to the top.
FrameAtTop(esp) == UXSTACKTOP - SIZE

\* utf_addr
FrameAt(esp) == IF OnXStack(esp) THEN esp - SIZE - 1 ELSE UXSTACKTOP - SIZE

\* user_mem_assert() looks at the lowest byte.
PushFrame ==
  LET utf == FrameAt(cpu.esp) IN
  /\ OnXStack(utf)
  /\ word' = [word EXCEPT ![utf + REGS] = cpu.eax, ![utf + REGS + 1] = cpu.edx,
                          ![utf + EIP] = cpu.eip, ![utf + EFLAGS] = cpu.eflags,
                          ![utf + ESP] = cpu.esp]
  /\ cpu' = [cpu EXCEPT !.eip = Upcall, !.esp = utf]

PageFault ==
  \/ /\ PushFrame
     /\ saved' = <<Now>> \o saved
     /\ UNCHANGED alive
  \/ /\ ~OnXStack(FrameAt(cpu.esp))
     /\ alive' = FALSE
     /\ UNCHANGED <<cpu, word, saved>>

-----------------------------------------------------------------------------
(***************************************************************************)
(* User code, and the handler in C.                                        *)
(***************************************************************************)
At(eip) == alive /\ cpu.eip = eip

UserFaults == cpu.eip \in User /\ alive /\ PageFault

\* What user code does between two faults.
UserRuns ==
  /\ cpu.eip \in User /\ alive
  /\ UserContext(cpu', word')
  /\ UNCHANGED <<alive, saved>>

\* pushl %esp, call *%eax.  The handler keeps in eax (its %ebp) how much of
\* the stack it has in use.
CallHandler ==
  /\ At(Upcall)
  /\ IF OnXStack(cpu.esp - 2)
     THEN /\ word' = [word EXCEPT ![cpu.esp - 1] = cpu.esp, ![cpu.esp - 2] = Back]
          /\ cpu' = [cpu EXCEPT !.eip = Handler, !.esp = @ - 2, !.eax = 0]
          /\ UNCHANGED <<alive, saved>>
     ELSE PageFault

\* subl: nothing is touched yet.
HandlerExtends(n) ==
  /\ At(Handler) /\ cpu.eax + n <= MaxUse
  /\ cpu' = [cpu EXCEPT !.esp = @ - n, !.eax = @ + n]
  /\ UNCHANGED <<alive, word, saved>>

\* A word of the handler's own.
HandlerWrites(i, v) ==
  /\ At(Handler) /\ i < cpu.eax /\ OnXStack(cpu.esp + i)
  /\ word' = [word EXCEPT ![cpu.esp + i] = v]
  /\ UNCHANGED <<alive, cpu, saved>>

\* There or anywhere else, the handler may touch what is not mapped.
HandlerFaults == At(Handler) /\ PageFault

HandlerReturns ==
  /\ At(Handler) /\ OnXStack(cpu.esp + cpu.eax)
  /\ \E v \in Contents :
       cpu' = [cpu EXCEPT !.eip = word[cpu.esp + cpu.eax], !.esp = @ + cpu.eax + 1,
                          !.eax = v, !.edx = v, !.eflags = v]
  /\ UNCHANGED <<alive, word, saved>>

-----------------------------------------------------------------------------
(***************************************************************************)
(* The way back.                                                           *)
(***************************************************************************)
\* addl $4, %esp; movl; subl; movl
Adjust ==
  LET utf == cpu.esp + 1 IN
  /\ At(Back)
  /\ word' = [word EXCEPT ![utf + ESP] = @ - 1]
  /\ cpu' = [cpu EXCEPT !.eip = Write, !.esp = utf, !.edx = word[utf + EIP],
                        !.eax = word'[utf + ESP], !.eflags = 0]
  /\ UNCHANGED <<alive, saved>>

\* The user stack may be copy-on-write: the fault's handler is not part of
\* the first any more.
WriteFaults == At(Write) /\ OnUStack(cpu.eax) /\ PageFault

\* Mutant: an addl after popfl.
ReturnSkipsLate ==
  /\ At(Write)
  /\ word' = [word EXCEPT ![cpu.eax] = cpu.edx]
  /\ LET utf == cpu.esp
         esp == word'[utf + ESP]
     IN cpu' = [eip |-> word'[esp], esp |-> esp + 1, eax |-> word'[utf + REGS],
                edx |-> word'[utf + REGS + 1], eflags |-> 0]
  /\ saved' = Tail(saved)
  /\ UNCHANGED alive

\* movl %edx, (%eax), and then popal, popfl, popl %esp, ret.
Return ==
  /\ At(Write)
  /\ word' = [word EXCEPT ![cpu.eax] = cpu.edx]
  /\ LET utf == cpu.esp
         esp == word'[utf + ESP]
     IN cpu' = [eip |-> word'[esp], esp |-> esp + 1, eax |-> word'[utf + REGS],
                edx |-> word'[utf + REGS + 1], eflags |-> word'[utf + EFLAGS]]
  /\ saved' = Tail(saved)
  /\ UNCHANGED alive

-----------------------------------------------------------------------------
Common ==
  \/ UserFaults \/ UserRuns
  \/ CallHandler
  \/ \E i \in 0 .. MaxUse - 1, v \in Contents : HandlerWrites(i, v)
  \/ HandlerFaults \/ HandlerReturns
  \/ Adjust \/ WriteFaults \/ Return

FaultNext == Common \/ \E n \in 1 .. MaxUse : HandlerExtends(n)
FaultSpec == FaultInit /\ [][FaultNext]_faultVars

\* The care that keeps it right: a handler does not take more of the stack
\* than there is.
CareNext == Common \/ \E n \in 1 .. MaxUse : OnXStack(cpu.esp - n) /\ HandlerExtends(n)
CareSpec == FaultInit /\ [][CareNext]_faultVars

-----------------------------------------------------------------------------
\* Besides the types: what is on the stack of interrupted code stays as it is while faults are
\* handled below it, and faults in their handlers: the frames are apart from
\* it and from each other, and the word that the upcall writes for its return
\* is nobody's (kern/trap.c:457, lib/pfentry.S:72).
StacksKept ==
  /\ FaultTypeOK
  /\ \A i \in DOMAIN saved : \A a \in DOMAIN saved[i].stack : word[a] = saved[i].stack[a]

\* An upcall that returns, returns to the latest code interrupted, at its
\* instruction and with all its registers, and leaves its stack as it was,
\* however many faults were handled in between (what user/faultregs.c tests
\* for one).
Resumes ==
  [][saved' # saved /\ Len(saved') <= Len(saved) =>
       saved # <<>> /\ Now' = Head(saved) /\ saved' = Tail(saved)]_faultVars
=============================================================================
