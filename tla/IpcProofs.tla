----------------------------- MODULE IpcProofs -----------------------------
(***************************************************************************)
(* Ipc for any number of environments: the receiver flag tells who waits,  *)
(* a page arrives with the permission that is reported, and the system     *)
(* calls with the library around them implement Rendezvous.                *)
(***************************************************************************)
EXTENDS Ipc, TLAPS

Inv == TypeOK /\ BlockedIsReceiving

LEMMA InitInv == Init => Inv
BY NothingAssumption DEF Init, Inv, TypeOK, BlockedIsReceiving, Mappings, Places

\* What the steps of ipc_send() preserve.
LEMMA SendingInv ==
  ASSUME Inv, NEW p \in Envs, Sending(p) PROVE Inv'
<1> USE DEF Inv, TypeOK, BlockedIsReceiving
<1>1. CASE Retry(p)
  BY <1>1 DEF Retry, vars, ipcFields
<1>2. CASE SendFails(p)
  BY <1>2 DEF SendFails, ipcFields, Places
<1>3. CASE SendSucceeds(p)
  <2> DEFINE e == call[p].to
  <2>1. /\ at[p] = "sending" /\ call[p] \in Calls
        /\ e \in Envs /\ call[p].value \in Values /\ call[p].perm \in Perms
    BY <1>3 DEF SendSucceeds, Calls
  <2>2. env_ipc_recving[e] /\ at[e] = "blocked" /\ e # p
    BY <1>3, <2>1 DEF SendSucceeds, TryResult
  <2>3. buffer' \in [Envs -> Mappings]
    <3>1. CASE Transfers(p)
      <4>1. buffer[p] \in Pages
        BY <1>3, <2>1, <2>2, <3>1 DEF SendSucceeds, TryResult, Transfers, Mappings
      <4>2. [page |-> buffer[p].page, perm |-> call[p].perm] \in Mappings
        BY <4>1, <2>1 DEF Pages, Mappings
      <4> QED BY <1>3, <3>1, <4>2 DEF SendSucceeds
    <3> QED BY <1>3, <3>1 DEF SendSucceeds
  <2>4. /\ at' = [at EXCEPT ![p] = "code", ![e] = "returned"]
        /\ call' = [call EXCEPT ![p] = Nothing]
        /\ env_ipc_recving' = [env_ipc_recving EXCEPT ![e] = FALSE]
        /\ env_ipc_from' = [env_ipc_from EXCEPT ![e] = p]
        /\ env_ipc_value' = [env_ipc_value EXCEPT ![e] = call[p].value]
        /\ env_ipc_perm' \in [Envs -> Perms \cup {Nothing}]
        /\ env_ipc_dstva' = env_ipc_dstva
    BY <1>3, <2>1 DEF SendSucceeds, Deliver
  <2> HIDE DEF e
  <2>5. at' \in [Envs -> Places] /\ \A q \in Envs : at'[q] =
              IF q = e THEN "returned" ELSE IF q = p THEN "code" ELSE at[q]
    BY <2>2, <2>4, <2>1 DEF Places
  <2>6. TypeOK'
    BY <2>1, <2>2, <2>3, <2>4, <2>5
  <2>7. BlockedIsReceiving'
    BY <2>1, <2>2, <2>4, <2>5
  <2> QED BY <2>6, <2>7
<1> QED BY <1>1, <1>2, <1>3 DEF Sending

LEMMA StepInv == Inv /\ [Next]_vars => Inv'
<1> SUFFICES ASSUME Inv, [Next]_vars PROVE Inv'
  OBVIOUS
<1> USE DEF Inv, TypeOK, BlockedIsReceiving
<1>1. CASE UNCHANGED vars
  BY <1>1 DEF vars, ipcFields
<1>2. ASSUME NEW p \in Envs, PageUnmap(p) PROVE Inv'
  BY <1>2 DEF PageUnmap, ipcFields, Mappings
<1>3. ASSUME NEW p \in Envs, NEW perm \in Perms, PageAlloc(p, perm) PROVE Inv'
  <2>1. [page |-> p, perm |-> perm] \in Mappings
    BY <1>3 DEF Mappings, Pages
  <2> QED BY <1>3, <2>1 DEF PageAlloc, ipcFields
<1>4. ASSUME NEW p \in Envs, NEW args \in Calls, IpcSend(p, args) PROVE Inv'
  <2>1. args # Nothing
    BY <1>4, NothingAssumption
  <2> QED BY <1>4, <2>1 DEF IpcSend, ipcFields, Places
<1>5. ASSUME NEW p \in Envs, Sending(p) PROVE Inv'
  BY <1>5, SendingInv
<1>6. ASSUME NEW p \in Envs, NEW dstva \in BOOLEAN, IpcRecv(p, dstva) PROVE Inv'
  BY <1>6 DEF IpcRecv, Places
<1>7. ASSUME NEW p \in Envs, RecvReturns(p) PROVE Inv'
  BY <1>7 DEF RecvReturns, ipcFields, Places
<1>8. ASSUME NEW p \in Envs, Die(p) PROVE Inv'
  BY <1>8 DEF Die, ipcFields, Places, Mappings
<1> QED BY <1>1, <1>2, <1>3, <1>4, <1>5, <1>6, <1>7, <1>8 DEF Next

\* sys_ipc_recv and sys_ipc_try_send (syscall.c:489, 541, 570-572) keep flag
\* and block together, and every field has its type.
THEOREM FlagCorrect == Spec => [](TypeOK /\ BlockedIsReceiving)
<1>1. Spec => []Inv
  BY InitInv, StepInv, PTL DEF Spec
<1> QED BY <1>1, PTL DEF Inv

\* Every field of struct Env that IPC uses has its type.
THEOREM TypeCorrect == Spec => []TypeOK
BY FlagCorrect, PTL

-----------------------------------------------------------------------------
(***************************************************************************)
(* The sender that meets a receiver                                        *)
(***************************************************************************)

\* Only one action ends the wait of a living receiver.
LEMMA OnlySendsWake ==
  ASSUME Inv, [Next]_vars, NEW e \in Envs, at[e] = "blocked", at'[e] = "returned"
  PROVE  \E p \in Envs : SendSucceeds(p) /\ call[p].to = e /\ p # e
<1> USE DEF Inv, TypeOK
<1>1. PICK p \in Envs : SendSucceeds(p)
  BY DEF Next, Sending, Retry, SendFails, PageUnmap, PageAlloc, IpcSend, IpcRecv,
         RecvReturns, Die, vars
<1>2. at' = [at EXCEPT ![p] = "code", ![call[p].to] = "returned"]
  BY <1>1 DEF SendSucceeds
<1> QED BY <1>1, <1>2 DEF SendSucceeds

\* The page that arrives and its permission are those of the message that
\* ended the wait, and a read-only page stays one (syscall.c:516-537).
THEOREM PageCorrect == Spec => PageArrived
<1>1. Inv /\ [Next]_vars =>
        [\A p, e \in Envs :
           at[p] = "sending" /\ at[e] = "blocked" /\ at'[e] = "returned"
             /\ call[p].to = e /\ at'[p] = "code" /\ Transfers(p)
             => /\ buffer'[e] = [page |-> buffer[p].page, perm |-> PermStore(e)']
                /\ buffer[p].perm = ReadOnly => buffer'[e].perm = ReadOnly]_vars
  <2> SUFFICES ASSUME Inv, [Next]_vars, NEW p \in Envs, NEW e \in Envs,
                      at[p] = "sending", at[e] = "blocked", at'[e] = "returned",
                      call[p].to = e, at'[p] = "code", Transfers(p)
               PROVE  /\ buffer'[e] = [page |-> buffer[p].page, perm |-> PermStore(e)']
                      /\ buffer[p].perm = ReadOnly => buffer'[e].perm = ReadOnly
    OBVIOUS
  <2> USE DEF Inv, TypeOK
  <2>1. PICK q \in Envs : SendSucceeds(q) /\ call[q].to = e /\ q # e
    BY OnlySendsWake
  <2>2. q = p
    BY <2>1 DEF SendSucceeds
  <2>3. /\ buffer' = [buffer EXCEPT ![e] = [page |-> buffer[p].page,
                                            perm |-> call[p].perm]]
        /\ env_ipc_perm' = [env_ipc_perm EXCEPT ![e] = call[p].perm]
        /\ env_ipc_dstva'[e]
        /\ buffer[p].perm = ReadOnly => call[p].perm # Writable
    BY <2>1, <2>2, NothingAssumption DEF SendSucceeds, Deliver, Transfers, TryResult
  <2>4. call[p].perm \in Perms
    BY DEF Calls, Transfers
  <2> QED BY <2>3, <2>4 DEF PermStore, Perms
<1>2. Spec => []Inv
  BY InitInv, StepInv, PTL DEF Spec
<1> QED BY <1>1, <1>2, PTL DEF Spec, PageArrived

-----------------------------------------------------------------------------
(***************************************************************************)
(* Refinement                                                              *)
(***************************************************************************)
LEMMA OfferIsMessage ==
  ASSUME Inv, NEW p \in Envs, at[p] = "sending" PROVE Offered[p] # Nothing
<1>1. call[p] # Nothing /\ call[p] \in Calls
  BY DEF Inv, TypeOK
<1>2. [to |-> call[p].to, value |-> call[p].value] \in Messages
  BY <1>1 DEF Calls, Messages
<1> QED BY <1>1, <1>2, NothingAssumption DEF Offered

LEMMA StepRefines == Inv /\ [Next]_vars => [Rv!Next]_<<Offered, Inbox>>
<1> SUFFICES ASSUME Inv, [Next]_vars PROVE [Rv!Next]_<<Offered, Inbox>>
  OBVIOUS
<1> USE DEF Inv, TypeOK
<1>1. CASE UNCHANGED vars
  BY <1>1 DEF vars, ipcFields, Offered, Inbox
<1>2. ASSUME NEW p \in Envs, PageUnmap(p) \/ \E perm \in Perms : PageAlloc(p, perm)
      PROVE  UNCHANGED <<Offered, Inbox>>
  BY <1>2 DEF PageUnmap, PageAlloc, ipcFields, Offered, Inbox
<1>3. ASSUME NEW p \in Envs, NEW args \in Calls, IpcSend(p, args)
      PROVE  Rv!Offer(p, args.to, args.value)
  <2>1. args # Nothing
    BY NothingAssumption
  <2>2. UNCHANGED Inbox
    BY <1>3 DEF IpcSend, ipcFields, Inbox
  <2>3. Offered[p] = Nothing /\ Inbox[p] = [inbox |-> "idle"]
    BY <1>3 DEF IpcSend, Offered, Inbox
  <2>4. Offered' = [Offered EXCEPT ![p] = [to |-> args.to, value |-> args.value]]
    BY <1>3, <2>1 DEF IpcSend, Offered
  <2> QED BY <2>2, <2>3, <2>4 DEF Rv!Offer, Offered, Inbox
<1>4. ASSUME NEW p \in Envs, Retry(p) PROVE UNCHANGED <<Offered, Inbox>>
  BY <1>4 DEF Retry, vars, ipcFields, Offered, Inbox
<1>5. ASSUME NEW p \in Envs, SendFails(p) PROVE Rv!Withdraw(p)
  <2>1. UNCHANGED Inbox
    BY <1>5 DEF SendFails, ipcFields, Inbox
  <2>2. Offered' = [Offered EXCEPT ![p] = Nothing]
    BY <1>5 DEF SendFails, Offered
  <2>3. Offered[p] # Nothing
    BY <1>5, OfferIsMessage DEF SendFails
  <2> QED BY <2>1, <2>2, <2>3 DEF Rv!Withdraw, Offered, Inbox
<1>6. ASSUME NEW p \in Envs, SendSucceeds(p) PROVE Rv!Meet(p, call[p].to)
  <2> DEFINE e == call[p].to
  <2>1. /\ call[p] \in Calls /\ at[p] = "sending"
        /\ e \in Envs /\ at[e] = "blocked" /\ e # p
    BY <1>6 DEF SendSucceeds, TryResult, BlockedIsReceiving, Calls
  <2>2. Offered[p] = [to |-> e, value |-> call[p].value] /\ Offered[p] # Nothing
    BY <2>1, OfferIsMessage DEF Offered
  <2>3. Inbox[e] = [inbox |-> "waiting"]
    BY <2>1 DEF Inbox
  <2>4. Offered' = [Offered EXCEPT ![p] = Nothing]
    BY <1>6 DEF SendSucceeds, Offered
  <2>5. at'[e] = "returned" /\ \A q \in Envs \ {e} : q # p => at'[q] = at[q]
    BY <1>6, <2>1 DEF SendSucceeds
  <2>6. at'[p] = "code"
    BY <1>6, <2>1 DEF SendSucceeds
  <2>7. /\ env_ipc_from' = [env_ipc_from EXCEPT ![e] = p]
        /\ env_ipc_value' = [env_ipc_value EXCEPT ![e] = call[p].value]
    BY <1>6 DEF SendSucceeds, Deliver
  <2>8. Inbox'[e] = [from |-> p, value |-> call[p].value]
    BY <2>1, <2>5, <2>7 DEF Inbox
  <2>9. \A q \in Envs \ {e} : Inbox'[q] = Inbox[q]
    BY <2>1, <2>5, <2>6, <2>7 DEF Inbox
  <2>10. Inbox' = [Inbox EXCEPT ![e] = [from |-> p, value |-> call[p].value]]
    <3>1. Inbox = [q \in Envs |-> Inbox[q]] /\ Inbox' = [q \in Envs |-> Inbox'[q]]
      BY DEF Inbox
    <3>2. \A q \in Envs : Inbox'[q] = IF q = e THEN [from |-> p, value |-> call[p].value]
                                    ELSE Inbox[q]
      BY <2>8, <2>9
    <3> HIDE DEF e
    <3> QED BY <2>1, <3>1, <3>2
  <2>11. Offered[p].to = e /\ Offered[p].value = call[p].value
    BY <2>2
  <2> QED BY <2>2, <2>3, <2>4, <2>10, <2>11 DEF Rv!Meet
<1>7. ASSUME NEW p \in Envs, NEW dstva \in BOOLEAN, IpcRecv(p, dstva) PROVE Rv!Wait(p)
  <2>1. UNCHANGED Offered
    BY <1>7 DEF IpcRecv, Offered
  <2>2. Inbox[p] = [inbox |-> "idle"] /\ Offered[p] = Nothing
    BY <1>7 DEF IpcRecv, Inbox, Offered
  <2>3. Inbox' = [Inbox EXCEPT ![p] = [inbox |-> "waiting"]]
    BY <1>7 DEF IpcRecv, Inbox
  <2> QED BY <2>1, <2>2, <2>3 DEF Rv!Wait, Offered, Inbox
<1>8. ASSUME NEW p \in Envs, RecvReturns(p) PROVE Rv!Leave(p)
  <2>1. UNCHANGED Offered
    BY <1>8 DEF RecvReturns, Offered
  <2>2. Inbox[p] # [inbox |-> "idle"]
    BY <1>8 DEF RecvReturns, Inbox
  <2>3. Inbox' = [Inbox EXCEPT ![p] = [inbox |-> "idle"]]
    BY <1>8 DEF RecvReturns, ipcFields, Inbox
  <2> QED BY <2>1, <2>2, <2>3 DEF Rv!Leave, Offered, Inbox
<1>9. ASSUME NEW p \in Envs, Die(p)
      PROVE  Rv!Withdraw(p) \/ Rv!Leave(p) \/ UNCHANGED <<Offered, Inbox>>
  <2>1. /\ Offered' = [Offered EXCEPT ![p] = Nothing]
        /\ Inbox' = [Inbox EXCEPT ![p] = [inbox |-> "idle"]]
    BY <1>9 DEF Die, ipcFields, Offered, Inbox
  <2>2. CASE at[p] = "sending"
    <3>1. Offered[p] # Nothing
      BY <2>2, OfferIsMessage
    <3>2. Inbox[p] = [inbox |-> "idle"]
      BY <2>2 DEF Inbox
    <3>3. UNCHANGED Inbox
      BY <2>1, <3>2 DEF Inbox
    <3> QED BY <2>1, <3>1, <3>3 DEF Rv!Withdraw, Offered, Inbox
  <2>3. CASE at[p] \in {"blocked", "returned"}
    <3>1. Offered[p] = Nothing /\ Inbox[p] # [inbox |-> "idle"]
      BY <2>3 DEF Offered, Inbox
    <3>2. UNCHANGED Offered
      BY <2>1, <3>1 DEF Offered
    <3> QED BY <2>1, <3>1, <3>2 DEF Rv!Leave, Offered, Inbox
  <2>4. CASE at[p] \notin {"sending", "blocked", "returned"}
    <3>1. Offered[p] = Nothing /\ Inbox[p] = [inbox |-> "idle"]
      BY <2>4 DEF Offered, Inbox
    <3>2. Offered' = Offered
      BY <2>1, <3>1 DEF Offered
    <3>3. Inbox' = Inbox
      BY <2>1, <3>1 DEF Inbox
    <3> QED BY <3>2, <3>3
  <2> QED BY <2>2, <2>3, <2>4
<1>10. ASSUME NEW p \in Envs, SendSucceeds(p) PROVE call[p].to \in Envs
  BY <1>10 DEF SendSucceeds, Calls
<1>11. \A args \in Calls : args.value \in Values /\ args.to \in Envs
  BY DEF Calls
<1>12. CASE ~ UNCHANGED vars
  <2> HIDE DEF Inv, TypeOK
  <2>1. PICK p \in Envs :
           \/ PageUnmap(p) \/ \E perm \in Perms : PageAlloc(p, perm)
           \/ \E args \in Calls : IpcSend(p, args)
           \/ Retry(p) \/ SendFails(p) \/ SendSucceeds(p)
           \/ \E dstva \in BOOLEAN : IpcRecv(p, dstva)
           \/ RecvReturns(p) \/ Die(p)
    BY <1>12 DEF Next, Sending
  <2>2. \/ Rv!Withdraw(p) \/ Rv!Wait(p) \/ Rv!Leave(p)
        \/ \E q \in Envs : Rv!Meet(p, q) \/ \E v \in Values : Rv!Offer(p, q, v)
        \/ UNCHANGED <<Offered, Inbox>>
    <3>1. CASE \E args \in Calls : IpcSend(p, args)
      BY <3>1, <1>3, <1>11
    <3>2. CASE SendSucceeds(p)
      BY <3>2, <1>6, <1>10
    <3> QED BY <2>1, <3>1, <3>2, <1>2, <1>4, <1>5, <1>7, <1>8, <1>9
  <2> QED BY <2>2 DEF Rv!Next
<1> QED BY <1>1, <1>12

\* Racing senders, failed sends and deaths included, a message reaches the one
\* receiver that waited for it once and unchanged (syscall.c:474-579, ipc.c).
THEOREM Refinement == Spec => ImplementsRendezvous
<1>1. Init => Rv!Init
  BY DEF Init, Rv!Init, Offered, Inbox
<1>2. Spec => []Inv
  BY InitInv, StepInv, PTL DEF Spec
<1>3. Inv /\ [Next]_vars => [Rv!Next]_(Rv!rvVars)
  BY StepRefines DEF Rv!rvVars, Offered, Inbox
<1> QED BY <1>1, <1>2, <1>3, PTL DEF Spec, ImplementsRendezvous, Rv!Spec
=============================================================================
