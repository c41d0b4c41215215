-------------------------------- MODULE Ipc --------------------------------
(***************************************************************************)
(* Messages between environments: sys_ipc_recv and sys_ipc_try_send of     *)
(* kern/syscall.c with all their checks, and the library's ipc_recv() and  *)
(* ipc_send() of lib/ipc.c on top of them.                                 *)
(*                                                                         *)
(* A system call is one step: it runs under the kernel lock (KernEnv).     *)
(* Between two calls of one environment any others may run.  Each          *)
(* environment sends from and receives at one page of its address space,   *)
(* its buffer, as the programs of user/ and the file client do.            *)
(*                                                                         *)
(* Environments keep the library's discipline of KernEnv, so that one that *)
(* waits is woken by a message only.  Slots are not reused here: an id     *)
(* names one environment for ever.                                         *)
(***************************************************************************)

CONSTANTS
  Envs,
  Senders, Receivers,  \* the environments whose programs send, and receive
  Values,    \* what a message may say
  Nothing,   \* no page, no permission, no message
  ReadOnly, Writable  \* PTE_P|PTE_U and PTE_P|PTE_U|PTE_W

Perms    == {ReadOnly, Writable}
\* A page is named after the environment that allocated it.
Pages    == [page : Envs, perm : Perms]
Calls    == [to : Envs, value : Values, page : BOOLEAN, perm : Perms]
Messages == [to : Envs, value : Values]

ASSUME RolesAssumption == Senders \subseteq Envs /\ Receivers \subseteq Envs
ASSUME NothingAssumption == /\ ReadOnly # Writable
                            /\ Nothing \notin Perms \cup Pages \cup Calls \cup Messages

VARIABLES
  at,               \* where each environment is in ipc_send() / ipc_recv()
  call,             \* the arguments of ipc_send(), while it retries
  buffer,           \* what the buffer maps: [page, perm], or Nothing
  env_ipc_recving,
  env_ipc_dstva,    \* whether the receiver asked for a page (dstva < UTOP)
  env_ipc_from,
  env_ipc_value,
  env_ipc_perm

ipcFields == <<env_ipc_recving, env_ipc_dstva, env_ipc_from, env_ipc_value, env_ipc_perm>>
vars == <<at, call, buffer, ipcFields>>

Mappings == Pages \cup {Nothing}
Places   == {"code",      \* neither sending nor receiving
             "sending",   \* in the loop of ipc_send()
             "blocked",   \* NOT_RUNNABLE in sys_ipc_recv
             "returned",  \* sys_ipc_recv returned 0; thisenv not read yet
             "panicked",  \* panic() in ipc_send()
             "dead"}

TypeOK ==
  /\ at \in [Envs -> Places]
  /\ call \in [Envs -> Calls \cup {Nothing}]
  /\ buffer \in [Envs -> Mappings]
  /\ env_ipc_recving \in [Envs -> BOOLEAN]
  /\ env_ipc_dstva \in [Envs -> BOOLEAN]
  /\ env_ipc_from \in [Envs -> Envs \cup {Nothing}]
  /\ env_ipc_value \in [Envs -> Values \cup {Nothing}]
  /\ env_ipc_perm \in [Envs -> Perms \cup {Nothing}]
  /\ \A p \in Envs : call[p] # Nothing <=> at[p] = "sending"

Init ==
  /\ at = [p \in Envs |-> "code"]
  /\ call = [p \in Envs |-> Nothing]
  /\ buffer = [p \in Envs |-> Nothing]
  /\ env_ipc_recving = [p \in Envs |-> FALSE]
  /\ env_ipc_dstva = [p \in Envs |-> FALSE]
  /\ env_ipc_from = [p \in Envs |-> Nothing]
  /\ env_ipc_value = [p \in Envs |-> Nothing]
  /\ env_ipc_perm = [p \in Envs |-> Nothing]

-----------------------------------------------------------------------------
(***************************************************************************)
(* The buffer: sys_page_alloc and sys_page_unmap at its address            *)
(***************************************************************************)
PageAlloc(p, perm) ==
  /\ at[p] = "code"
  /\ buffer' = [buffer EXCEPT ![p] = [page |-> p, perm |-> perm]]
  /\ UNCHANGED <<at, call, ipcFields>>

PageUnmap(p) ==
  /\ at[p] = "code" /\ buffer[p] # Nothing
  /\ buffer' = [buffer EXCEPT ![p] = Nothing]
  /\ UNCHANGED <<at, call, ipcFields>>

(***************************************************************************)
(* ipc_send()                                                              *)
(***************************************************************************)

\* With page FALSE the library passes an address above UTOP.
IpcSend(p, args) ==
  /\ at[p] = "code"
  /\ call' = [call EXCEPT ![p] = args]
  /\ at' = [at EXCEPT ![p] = "sending"]
  /\ UNCHANGED <<buffer, ipcFields>>

\* Mutants: the receiver's flag is not looked at; a read-only page may be sent
\* with write permission; a page nobody asked for is an error to wait out.
TryResultUnguarded(p) ==
  LET args == call[p]  e == args.to
  IN  IF at[e] = "dead" THEN "E_BAD_ENV"
      ELSE IF args.page /\ buffer[p] = Nothing THEN "E_INVAL"
      ELSE "OK"

TryResultAnyPerm(p) ==
  LET args == call[p]  e == args.to
  IN  IF at[e] = "dead" THEN "E_BAD_ENV"
      ELSE IF ~env_ipc_recving[e] THEN "E_IPC_NOT_RECV"
      ELSE IF args.page /\ buffer[p] = Nothing THEN "E_INVAL"
      ELSE "OK"

TryResultRefusesPage(p) ==
  LET args == call[p]  e == args.to
  IN  IF at[e] = "dead" THEN "E_BAD_ENV"
      ELSE IF ~env_ipc_recving[e] \/ (args.page /\ ~env_ipc_dstva[e])
           THEN "E_IPC_NOT_RECV"
      ELSE IF args.page /\ buffer[p] = Nothing THEN "E_INVAL"
      ELSE "OK"

\* What sys_ipc_try_send returns to p, page_insert's lack of memory apart.
\* (The library always passes a page-aligned address and PTE_P|PTE_U.)
TryResult(p) ==
  LET args == call[p]  e == args.to
  IN  IF at[e] = "dead" THEN "E_BAD_ENV"
      ELSE IF ~env_ipc_recving[e] THEN "E_IPC_NOT_RECV"
      ELSE IF args.page /\ buffer[p] = Nothing THEN "E_INVAL"
      ELSE IF args.page /\ args.perm = Writable /\ buffer[p].perm # Writable
           THEN "E_INVAL"
      ELSE "OK"

\* The receiver gets a page when the sender passes one and the receiver
\* asked for one.
Transfers(p) == call[p].page /\ env_ipc_dstva[call[p].to]

\* The error ipc_send() waits out: sys_yield() and once more.
Retry(p) ==
  /\ at[p] = "sending" /\ TryResult(p) = "E_IPC_NOT_RECV"
  /\ UNCHANGED vars

\* Every other error panics; page_insert may always lack a page table.
SendFails(p) ==
  /\ at[p] = "sending"
  /\ \/ TryResult(p) \in {"E_BAD_ENV", "E_INVAL"}
     \/ TryResult(p) = "OK" /\ Transfers(p)
  /\ at' = [at EXCEPT ![p] = "panicked"]
  /\ call' = [call EXCEPT ![p] = Nothing]
  /\ UNCHANGED <<buffer, ipcFields>>

\* Mutant: the flag stays set.
DeliverOpen(p) ==
  LET e == call[p].to
  IN  /\ env_ipc_from' = [env_ipc_from EXCEPT ![e] = p]
      /\ env_ipc_value' = [env_ipc_value EXCEPT ![e] = call[p].value]
      /\ UNCHANGED <<env_ipc_recving, env_ipc_perm, env_ipc_dstva>>

\* What sys_ipc_try_send writes into the receiver's struct Env: env_ipc_perm
\* only when a page was mapped.
Deliver(p) ==
  LET e == call[p].to
  IN  /\ env_ipc_recving' = [env_ipc_recving EXCEPT ![e] = FALSE]
      /\ env_ipc_from' = [env_ipc_from EXCEPT ![e] = p]
      /\ env_ipc_value' = [env_ipc_value EXCEPT ![e] = call[p].value]
      /\ env_ipc_perm' = IF Transfers(p)
                         THEN [env_ipc_perm EXCEPT ![e] = call[p].perm]
                         ELSE env_ipc_perm
      /\ UNCHANGED env_ipc_dstva

SendSucceeds(p) ==
  LET e == call[p].to
  IN  /\ at[p] = "sending" /\ TryResult(p) = "OK"
      /\ Deliver(p)
      /\ buffer' = IF Transfers(p)
                   THEN [buffer EXCEPT ![e] = [page |-> buffer[p].page,
                                               perm |-> call[p].perm]]
                   ELSE buffer
      /\ at' = [at EXCEPT ![p] = "code", ![e] = "returned"]
      /\ call' = [call EXCEPT ![p] = Nothing]

(***************************************************************************)
(* ipc_recv()                                                              *)
(***************************************************************************)
IpcRecv(p, dstva) ==
  /\ at[p] = "code"
  /\ env_ipc_recving' = [env_ipc_recving EXCEPT ![p] = TRUE]
  /\ env_ipc_dstva' = [env_ipc_dstva EXCEPT ![p] = dstva]
  /\ at' = [at EXCEPT ![p] = "blocked"]
  /\ UNCHANGED <<call, buffer, env_ipc_from, env_ipc_value, env_ipc_perm>>

\* *perm_store, which ipc_recv() zeroes itself when it asked for no page.
PermStore(p) == IF env_ipc_dstva[p] THEN env_ipc_perm[p] ELSE Nothing

\* ipc_recv() has read thisenv and returns.
RecvReturns(p) ==
  /\ at[p] = "returned"
  /\ at' = [at EXCEPT ![p] = "code"]
  /\ UNCHANGED <<call, buffer, ipcFields>>

\* An environment exits, or its parent destroys it, wherever it is; env_free
\* drops its mappings and leaves the IPC fields.
Die(p) ==
  /\ at[p] # "dead"
  /\ at' = [at EXCEPT ![p] = "dead"]
  /\ call' = [call EXCEPT ![p] = Nothing]
  /\ buffer' = [buffer EXCEPT ![p] = Nothing]
  /\ UNCHANGED ipcFields

-----------------------------------------------------------------------------
Sending(p) == Retry(p) \/ SendFails(p) \/ SendSucceeds(p)

Next ==
  \E p \in Envs :
    \/ PageUnmap(p) \/ \E perm \in Perms : PageAlloc(p, perm)
    \/ p \in Senders /\ \E args \in Calls : args.to \in Receivers /\ IpcSend(p, args)
    \/ Sending(p)
    \/ p \in Receivers /\ \E dstva \in BOOLEAN : IpcRecv(p, dstva)
    \/ RecvReturns(p) \/ Die(p)

\* Round robin runs every environment that can run (KernEnv's NoStarvation):
\* a sender makes its next call.
Spec == Init /\ [][Next]_vars /\ \A p \in Envs : WF_vars(Sending(p))

(***************************************************************************)
(* Properties                                                              *)
(***************************************************************************)

\* The receiver flag and the block go together, so that a sender never finds
\* a receiver that has already returned, nor misses one that waits.
BlockedIsReceiving ==
  \A p \in Envs : at[p] # "dead" => (env_ipc_recving[p] <=> at[p] = "blocked")

\* The messages on offer, and what each environment has received: what
\* Rendezvous calls offer and inbox.
Offered == [p \in Envs |-> IF call[p] = Nothing THEN Nothing
                           ELSE [to |-> call[p].to, value |-> call[p].value]]
Inbox   == [p \in Envs |->
             IF at[p] = "blocked" THEN [inbox |-> "waiting"]
             ELSE IF at[p] = "returned"
                  THEN [from |-> env_ipc_from[p], value |-> env_ipc_value[p]]
                  ELSE [inbox |-> "idle"]]

Rv == INSTANCE Rendezvous WITH
        Idle  <- [inbox |-> "idle"], Waiting <- [inbox |-> "waiting"],
        offer <- Offered,            inbox   <- Inbox

\* Racing senders, failed sends and deaths included, a message reaches the
\* one receiver that waited for it once and unchanged.
ImplementsRendezvous == Rv!Spec

\* A receiver that has returned finds at its buffer the page that came with
\* the message, with the permission it is told, as long as a page came.
PageArrived ==
  [][\A p, e \in Envs :
       at[p] = "sending" /\ at[e] = "blocked" /\ at'[e] = "returned" /\ call[p].to = e
         /\ at'[p] = "code" /\ Transfers(p)
         => /\ buffer'[e] = [page |-> buffer[p].page, perm |-> PermStore(e)']
            /\ buffer[p].perm = ReadOnly => buffer'[e].perm = ReadOnly]_vars

\* No send retries for ever while the receiver waits.
SenderServed ==
  \A p \in Senders, e \in Receivers :
    at[p] = "sending" /\ call[p].to = e /\ at[e] = "blocked"
      ~> at[p] # "sending" \/ at[e] # "blocked"
=============================================================================
