----------------------------- MODULE Rendezvous -----------------------------
(***************************************************************************)
(* What IPC promises user programs: ipc_send() blocks until its message is *)
(* taken over by a receiver that waits in ipc_recv(), a receiver gets one  *)
(* message per call, the one some sender offered to it, and no message is  *)
(* delivered twice or overwritten before it is read.                       *)
(***************************************************************************)

CONSTANTS Envs, Values, Idle, Waiting, Nothing

VARIABLES
  offer,  \* what each environment is trying to send: [to, value], or Nothing
  inbox   \* Idle, Waiting in ipc_recv(), or the message: [from, value]

rvVars == <<offer, inbox>>

Init ==
  /\ offer = [p \in Envs |-> Nothing]
  /\ inbox = [p \in Envs |-> Idle]

Offer(p, q, v) ==
  /\ inbox[p] = Idle /\ offer[p] = Nothing
  /\ offer' = [offer EXCEPT ![p] = [to |-> q, value |-> v]]
  /\ UNCHANGED inbox

\* The send fails for good, or the sender dies: the message reaches nobody.
Withdraw(p) ==
  /\ offer[p] # Nothing
  /\ offer' = [offer EXCEPT ![p] = Nothing]
  /\ UNCHANGED inbox

Wait(p) ==
  /\ inbox[p] = Idle /\ offer[p] = Nothing
  /\ inbox' = [inbox EXCEPT ![p] = Waiting]
  /\ UNCHANGED offer

\* Sender and receiver meet: the offer is used up as it is delivered.
Meet(p, q) ==
  /\ offer[p] # Nothing /\ offer[p].to = q /\ inbox[q] = Waiting
  /\ offer' = [offer EXCEPT ![p] = Nothing]
  /\ inbox' = [inbox EXCEPT ![q] = [from |-> p, value |-> offer[p].value]]

\* The receiver reads its message, or dies before it could.
Leave(p) ==
  /\ inbox[p] # Idle
  /\ inbox' = [inbox EXCEPT ![p] = Idle]
  /\ UNCHANGED offer

Next ==
  \E p \in Envs :
    \/ Withdraw(p) \/ Wait(p) \/ Leave(p)
    \/ \E q \in Envs : Meet(p, q) \/ \E v \in Values : Offer(p, q, v)

Spec == Init /\ [][Next]_rvVars
=============================================================================
