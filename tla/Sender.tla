------------------------------- MODULE Sender -------------------------------
(***************************************************************************)
(* TransactionSender.send: the lock that keeps the transactions of one      *)
(* account in order, and what the nodes of one network make of them.  Every *)
(* call signs one transaction, so a call and its transaction share a name.  *)
(***************************************************************************)
EXTENDS Integers, Sequences, FiniteSets, SequencesExt

CONSTANTS
  Calls,        \* calls of send
  Nodes,        \* the configured RPC endpoints of the network
  Primary,      \* the first of them, asked unless it fails
  MaxFaults     \* bound: cancellations, time-outs and node failures

VARIABLES
  pc,       \* where a call is
  nonce,    \* the number a call signed its transaction with
  lock,     \* asyncio.Lock: the holder, then those who wait for it
  flight,   \* signed transactions on the way to a node
  pool,     \* what each node knows of the account: pending and mined
  faults

vars == <<pc, nonce, lock, flight, pool, faults>>

PCs == {"idle", "waiting", "pricing", "numbering", "sending", "sent", "failed"}
Finished == {"sent", "failed"}

Holds(c) == lock # <<>> /\ Head(lock) = c

(* eth_getTransactionCount(account, "pending") as node n answers it.        *)
(* Before it, a defect: the count of "latest", which lacks what is pending. *)
CountOfLatest(n) == 0
PendingCount(n) == Cardinality({nonce[c] : c \in pool[n]})

Accepted == UNION {pool[n] : n \in Nodes}

(* A node takes a transaction unless another one has its number already.    *)
Takes(n, c) == \A d \in pool[n] : nonce[d] # nonce[c]

Fault == faults < MaxFaults /\ faults' = faults + 1

(* call_with_failover: the next endpoint answers when the first one fails.  *)
Asks(n) == IF n = Primary THEN UNCHANGED faults ELSE Fault

Release == lock' = Tail(lock)

(***************************************************************************)
(* The call                                                                 *)
(***************************************************************************)
Request(c) ==
  /\ pc[c] = "idle"
  /\ lock' = Append(lock, c)
  /\ pc' = [pc EXCEPT ![c] = "waiting"]
  /\ UNCHANGED <<nonce, flight, pool, faults>>

Enter(c) ==
  /\ pc[c] = "waiting" /\ Holds(c)
  /\ pc' = [pc EXCEPT ![c] = "pricing"]
  /\ UNCHANGED <<nonce, lock, flight, pool, faults>>

(* estimate_gas, when the caller gave no limit, and gas_price. *)
Price(c) ==
  /\ pc[c] = "pricing"
  /\ pc' = [pc EXCEPT ![c] = "numbering"]
  /\ UNCHANGED <<nonce, lock, flight, pool, faults>>

PricingFails(c) ==
  /\ pc[c] = "pricing" /\ Fault
  /\ pc' = [pc EXCEPT ![c] = "failed"]
  /\ Release
  /\ UNCHANGED <<nonce, flight, pool>>

(* The number is read, the transaction signed and send_raw called. *)
Number(c) ==
  /\ pc[c] = "numbering"
  /\ \E n \in Nodes : Asks(n) /\ nonce' = [nonce EXCEPT ![c] = PendingCount(n)]
  /\ pc' = [pc EXCEPT ![c] = "sending"]
  /\ flight' = flight \cup {c}
  /\ UNCHANGED <<lock, pool>>

(* A node takes the transaction, and the caller learns its hash. *)
Answer(c) ==
  /\ pc[c] = "sending" /\ c \in flight
  /\ \E n \in Nodes : Asks(n) /\ Takes(n, c) /\ pool' = [pool EXCEPT ![n] = @ \cup {c}]
  /\ pc' = [pc EXCEPT ![c] = "sent"]
  /\ flight' = flight \ {c}
  /\ Release
  /\ UNCHANGED nonce

(* The node has a transaction with that number: "nonce too low", or the     *)
(* price is too low for a replacement.                                      *)
Refuse(c) ==
  /\ pc[c] = "sending" /\ c \in flight
  /\ \E n \in Nodes : Asks(n) /\ ~Takes(n, c)
  /\ pc' = [pc EXCEPT ![c] = "failed"]
  /\ flight' = flight \ {c}
  /\ Release
  /\ UNCHANGED <<nonce, pool>>

(* The caller is cancelled or the request times out.  asyncio gives up the  *)
(* lock; a transaction under way stays under way: a merged request goes on  *)
(* behind its shield, and what was written to a socket may still arrive.    *)
Abandon(c) ==
  /\ pc[c] \in {"waiting", "pricing", "numbering", "sending"} /\ Fault
  /\ pc' = [pc EXCEPT ![c] = "failed"]
  /\ \E k \in DOMAIN lock : lock[k] = c /\ lock' = RemoveAt(lock, k)
  /\ UNCHANGED <<nonce, flight, pool>>

(***************************************************************************)
(* The network                                                              *)
(***************************************************************************)
(* What was abandoned arrives after all, or is lost. *)
ArriveLate(c) ==
  /\ pc[c] = "failed" /\ c \in flight
  /\ flight' = flight \ {c}
  /\ \/ UNCHANGED pool
     \/ \E n \in Nodes : Takes(n, c) /\ pool' = [pool EXCEPT ![n] = @ \cup {c}]
  /\ UNCHANGED <<pc, nonce, lock, faults>>

(* A node learns of a transaction from another. *)
Gossip(c) ==
  /\ \E m, n \in Nodes : /\ c \in pool[m] \ pool[n] /\ Takes(n, c)
                         /\ pool' = [pool EXCEPT ![n] = @ \cup {c}]
  /\ UNCHANGED <<pc, nonce, lock, flight, faults>>

Init ==
  /\ pc = [c \in Calls |-> "idle"]
  /\ nonce = [c \in Calls |-> 0]
  /\ lock = <<>> /\ flight = {}
  /\ pool = [n \in Nodes |-> {}]
  /\ faults = 0

Step(c) == Enter(c) \/ Price(c) \/ PricingFails(c) \/ Number(c) \/ Answer(c) \/ Refuse(c)

Next == \E c \in Calls : Request(c) \/ Step(c) \/ Abandon(c) \/ ArriveLate(c) \/ Gossip(c)

Spec == Init /\ [][Next]_vars

(* The loop keeps running the task that can go on, and every request is     *)
(* answered or times out.                                                   *)
Fairness == \A c \in Calls : WF_vars(Step(c))

FairSpec == Spec /\ Fairness

(***************************************************************************)
(* Properties                                                               *)
(***************************************************************************)
TypeOK ==
  /\ pc \in [Calls -> PCs]
  /\ nonce \in [Calls -> Nat]
  /\ lock \in Seq(Calls)
  /\ flight \subseteq Calls
  /\ pool \in [Nodes -> SUBSET Calls]
  /\ faults \in 0..MaxFaults

(* One call at a time is between the reading of its number and the answer   *)
(* of the node, and it is the one the lock belongs to.                      *)
OneAtATime ==
  \A c \in Calls : pc[c] \in {"pricing", "numbering", "sending"} => Holds(c)

(* Without cancellations, time-outs and node failures no two transactions   *)
(* of the account get the same number, and none is refused.                 *)
NumbersAreOwn ==
  faults = 0 => /\ \A c, d \in Accepted : c # d => nonce[c] # nonce[d]
                /\ \A c \in Calls : pc[c] # "failed"

(* Whatever is lost, the numbers in use have no gap: a gap would keep every *)
(* later transaction of the account from being executed.                    *)
NoGap == {nonce[c] : c \in Accepted} = 0..(Cardinality({nonce[c] : c \in Accepted}) - 1)

(* With the types of the variables: the numbers of an account are used up   *)
(* in order (send, nonce).                                                  *)
NumbersInOrder == TypeOK /\ NumbersAreOwn /\ NoGap

(* The lock is given up in the end, whatever happened to the holder: every  *)
(* call that was made returns or raises.                                    *)
CallsEnd == \A c \in Calls : pc[c] = "waiting" ~> pc[c] \in Finished

(* Two sends would get one number, and one of the transactions would push   *)
(* the other out; the lock is there to prevent it (sender.py).              *)
NoSharedNumber ==
  \A c, d \in Calls : c # d /\ {c, d} \subseteq flight \cup Accepted => nonce[c] # nonce[d]
=============================================================================
