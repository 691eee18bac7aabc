------------------------------ MODULE Trading ------------------------------
(***************************************************************************)
(* The trading subsystem of the "ann" mode: the deals kept in SQLite       *)
(* (repositories/sqlite/positions.py), the trading account on one network, *)
(* and the two asyncio tasks that work on both:                            *)
(*                                                                         *)
(*   executor  the scan task's call of TradeExecutor.consider              *)
(*   watcher   the positions task's call of PositionWatcher.tick           *)
(*                                                                         *)
(* Each await of the code at which another task can change what was read   *)
(* ends an action.  The tasks share nothing in memory but the sender's     *)
(* lock (module Sender); the position a task works on is a private copy of *)
(* the row, and every update writes that whole copy back.                  *)
(***************************************************************************)
EXTENDS Integers, Sequences, FiniteSets

CONSTANTS
  MaxDeals,               \* bound: deals opened in a behaviour
  MaxTxs,                 \* bound: transactions sent in a behaviour
  MaxFaults,              \* bound: exceptions, cancellations and crashes
  Tokens,                 \* target tokens
  Target,                 \* the target token of the n-th deal
  InitialBase,            \* base token on the account at the start
  Stake,                  \* raw_input of a deal
  Lot,                    \* what a successful buy brings
  Gas,                    \* cost of one mined transaction, in base token
  Offers,                 \* min_output_raw an aggregator may commit to
  MinExitProfit,          \* threshold right after the purchase
  MinExitProfitWaiting    \* threshold of a deal that waits

Deals == 1..MaxDeals

ASSUME BoundsAssumption ==
  MaxDeals \in Nat /\ MaxTxs \in Nat /\ MaxFaults \in Nat
ASSUME TokensAssumption == Target \in [Deals -> Tokens]
ASSUME AmountsAssumption ==
  /\ InitialBase \in Nat /\ Stake \in Nat \ {0} /\ Lot \in Nat \ {0} /\ Gas \in Nat
  /\ Offers \subseteq Nat
ASSUME ThresholdsAssumption ==    \* the validator of TradingConfig
  /\ MinExitProfit \in Nat /\ MinExitProfitWaiting \in Nat \ {0}
  /\ MinExitProfitWaiting <= MinExitProfit

VARIABLES
  db,       \* the table positions: deal -> row
  chain,    \* transactions the network accepted, in nonce order
  base,     \* balance of the base token
  held,     \* balance of each target token
  act,      \* what each task is doing
  queue,    \* deals the watcher's tick has still to advance (its snapshot)
  notices,  \* LongWaitNotices of the tick, with the snapshots they carry
  faults,   \* faults so far
  merging,  \* resources.deduplicate_in_flight: requests of one key are merged
  lost      \* history: deals with a sale that was lost sight of (LoseSight)

vars == <<db, chain, base, held, act, queue, notices, faults, merging, lost>>

Actors == {"executor", "watcher"}
None == 0            \* of a hash, which is a transaction's place in chain

Statuses == {"absent", "buying", "holding", "selling", "closed", "failed"}
OpenWithoutSelling == {"buying", "holding"}     \* defect: open_positions
OpenStatuses == {"buying", "holding", "selling"}

(* The mutable columns of a row; "absent" is the row that does not exist.   *)
(* sellGas is sell_gas_wei, counted in reverted or mined sale attempts.     *)
Position ==
  [status: Statuses, buyHash: Nat, sellHash: Nat, acquired: Nat,
   targetBefore: Nat, baseBefore: Nat, returned: Nat, sellGas: Nat,
   notified: BOOLEAN]

Absent ==
  [status |-> "absent", buyHash |-> None, sellHash |-> None, acquired |-> 0,
   targetBefore |-> 0, baseBefore |-> 0, returned |-> 0, sellGas |-> 0,
   notified |-> FALSE]

Transaction ==
  [deal: Deals, kind: {"buy", "sell"}, amount: Nat, price: Nat,
   outcome: {"pending", "succeeded", "reverted"}]

PCs == {"idle", "reserve", "prepare", "create", "sendBuy", "recordBuy",
        "waitBuy", "buyReverted", "buyMined", "acquired",
        "exit", "sellBalance", "sendSell", "recordSell",
        "waitSell", "sellReverted", "sellMined", "returned",
        "next", "notify"}

(* A task's local variables: the deal, its copy of the row, the hash it     *)
(* waits for, the offer it accepted, the last balance it read.              *)
Task == [pc: PCs, deal: 0..MaxDeals, pos: Position, tx: Nat,
         offer: Nat, bal: Nat]

At(pc) == [pc |-> pc, deal |-> 0, pos |-> Absent, tx |-> None,
           offer |-> 0, bal |-> 0]

Snapshot == [deal: Deals, pos: Position]

(***************************************************************************)
(* Helpers                                                                  *)
(***************************************************************************)
Outcome(h) == chain[h].outcome
NonNegative(n) == IF n < 0 THEN 0 ELSE n
AtLeastOne(n) == IF n < 1 THEN 1 ELSE n

Reserving == {d \in Deals : db[d].status \in {"buying", "holding"}}

(* reserved_raw_input *)
Reserved == Stake * Cardinality(Reserving)

IsOpen(p) == p.status \in OpenStatuses

(* profit_if_sold_for(min_output_raw, raw_costs): the gas of the buy, of the *)
(* attempts this copy of the row knows of, and of the sale to come.          *)
ProfitIfSold(p, offer) == offer - Stake - Gas * (p.sellGas + 2)

Needed(a) == IF a = "executor" THEN MinExitProfit ELSE MinExitProfitWaiting

(* open_positions *)
OpenRows == {[deal |-> d, pos |-> db[d]] : d \in {n \in Deals : IsOpen(db[n])}}

(* The order of both loops of a tick: the oldest deal of the set first. *)
Oldest(s, snapshots) == s \in snapshots /\ \A r \in snapshots : s.deal <= r.deal

(* Bound: a task decides to send only while the behaviour may have another  *)
(* transaction.                                                             *)
Room ==
  Len(chain) + Cardinality({a \in Actors :
      act[a].pc \in {"create", "sendBuy", "sellBalance", "sendSell"}}) < MaxTxs

(* The task has nothing more to do for its deal: consider returns, or the   *)
(* tick goes on with the next row.                                          *)
Done(a) == act' = [act EXCEPT ![a] = At(IF a = "executor" THEN "idle" ELSE "next")]

Go(a, pc) == act' = [act EXCEPT ![a].pc = pc]

(* Two copies of a row that know the same sales of the deal.                *)
SameSales(p, q) ==
  /\ (p.status = "closed") <=> (q.status = "closed")
  /\ p.sellHash = q.sellHash /\ p.sellGas = q.sellGas

(* History: the row does not count a sale of d.  The answer to its sending   *)
(* was lost, or a task sent it, or wrote the row, with a copy that knows      *)
(* other sales than the row does.                                            *)
LoseSight(d, when) == lost' = IF when THEN lost \cup {d} ELSE lost
Outdated(d, p) == ~SameSales(p, db[d])
Recording(d) == {a \in Actors : act[a].pc = "recordSell" /\ act[a].deal = d}

(* positions.update: the whole private copy replaces the row. *)
Save(a, p) ==
  /\ db' = [db EXCEPT ![act[a].deal] = p]
  /\ LoseSight(act[a].deal, Outdated(act[a].deal, act[a].pos))

(* receipt and send_raw pass an empty deduplication key, which ChainAccount *)
(* turns into one key for the whole network.  With deduplication on, a      *)
(* request joins the one that another task has in flight, and gets its      *)
(* answer.  Answers: the hashes whose receipt a query for the receipt of h  *)
(* may be answered with.                                                    *)
Answers(a, h) ==
  {h} \cup {act[b].tx : b \in {b \in Actors \ {a} :
                 merging /\ act[b].pc \in {"waitBuy", "waitSell"}}}

(***************************************************************************)
(* Defects: plausible errors in the actions below, each of which breaks a   *)
(* property.  No specification of this module uses them.                    *)
(***************************************************************************)
(* The row is written only once the buy is sent. *)
CreateRecordLater ==
  LET p == [Absent EXCEPT !.status = "buying", !.targetBefore = act["executor"].bal]
  IN /\ act["executor"].pc = "create"
     /\ act' = [act EXCEPT !["executor"].pc = "sendBuy", !["executor"].pos = p]
     /\ UNCHANGED <<db, chain, base, held, queue, notices, faults, lost>>

(* The status of the receipt is not looked at. *)
AnyReceiptIsRevert(a) ==
  /\ act[a].pc = "waitBuy" /\ Outcome(act[a].tx) # "pending"
  /\ Go(a, "buyReverted")
  /\ UNCHANGED <<db, chain, base, held, queue, notices, faults, lost>>

(* A receipt that did not come means that the transaction is executed by now. *)
NoReceiptIsSuccess(a) ==
  /\ act[a].pc = "waitBuy" /\ Outcome(act[a].tx) = "pending"
  /\ Go(a, "buyMined")
  /\ UNCHANGED <<db, chain, base, held, queue, notices, faults, lost>>

(* A sale that reverted is held to be free. *)
RevertIsFree(a) ==
  /\ act[a].pc = "sellReverted"
  /\ Save(a, [act[a].pos EXCEPT !.status = "holding", !.sellHash = None])
  /\ Done(a)
  /\ UNCHANGED <<chain, base, held, queue, notices, faults>>

(* The operator is told of a purchase without a hash as of a long wait. *)
AdvanceTellsOfPurchase ==
  /\ act["watcher"].pc = "next"
  /\ \E s \in queue :
       LET Work(pc, h) == act' = [act EXCEPT !["watcher"] =
                                    [At(pc) EXCEPT !.deal = s.deal, !.pos = s.pos, !.tx = h]]
       IN /\ Oldest(s, queue)
          /\ queue' = queue \ {s}
          /\ \/ /\ s.pos.status = "buying" /\ s.pos.buyHash = None
                /\ notices' = notices \cup {s} /\ UNCHANGED act
             \/ s.pos.status = "buying" /\ s.pos.buyHash # None
                /\ Work("waitBuy", s.pos.buyHash) /\ UNCHANGED notices
             \/ s.pos.status = "holding" /\ Work("exit", None) /\ UNCHANGED notices
  /\ UNCHANGED <<db, chain, base, held, faults, lost>>

(***************************************************************************)
(* TradeExecutor.consider: choosing a find and opening a deal               *)
(***************************************************************************)
ReadBalance ==
  /\ act["executor"].pc = "idle"
  /\ \E d \in Deals : db[d].status = "absent"
  /\ act' = [act EXCEPT !["executor"] = [At("reserve") EXCEPT !.bal = base]]
  /\ UNCHANGED <<db, chain, base, held, queue, notices, faults, lost>>

(* No find is affordable, the switch is off, or no candidate's offer pays.  *)
RejectFinds ==
  /\ act["executor"].pc = "reserve"
  /\ act' = [act EXCEPT !["executor"] = At("idle")]
  /\ UNCHANGED <<db, chain, base, held, queue, notices, faults, lost>>

ChooseFind ==
  /\ act["executor"].pc = "reserve"
  /\ Stake <= NonNegative(act["executor"].bal - Reserved)
  /\ Go("executor", "prepare")
  /\ UNCHANGED <<db, chain, base, held, queue, notices, faults, lost>>

(* simulate succeeds on the current state, then the target balance is read  *)
(* and the next number of the sequence taken.                               *)
PrepareBuy ==
  /\ act["executor"].pc = "prepare"
  /\ base >= Stake /\ Room
  /\ \E d \in Deals :
       /\ db[d].status = "absent" /\ \A n \in 1..(d - 1) : db[n].status # "absent"
       /\ act' = [act EXCEPT !["executor"] =
                    [At("create") EXCEPT !.deal = d, !.bal = held[Target[d]]]]
  /\ UNCHANGED <<db, chain, base, held, queue, notices, faults, lost>>

BuyWouldRevert ==
  /\ act["executor"].pc = "prepare"
  /\ act' = [act EXCEPT !["executor"] = At("idle")]
  /\ UNCHANGED <<db, chain, base, held, queue, notices, faults, lost>>

CreateRecord ==
  LET p == [Absent EXCEPT !.status = "buying", !.targetBefore = act["executor"].bal]
  IN /\ act["executor"].pc = "create"
     /\ Save("executor", p)
     /\ act' = [act EXCEPT !["executor"].pc = "sendBuy", !["executor"].pos = p]
     /\ UNCHANGED <<chain, base, held, queue, notices, faults>>

Accept(d, kind, amount, price) ==
  chain' = Append(chain, [deal |-> d, kind |-> kind, amount |-> amount,
                          price |-> price, outcome |-> "pending"])

SendBuy ==
  /\ act["executor"].pc = "sendBuy"
  /\ Accept(act["executor"].deal, "buy", Lot, Stake)
  /\ act' = [act EXCEPT !["executor"].pc = "recordBuy", !["executor"].tx = Len(chain) + 1]
  /\ UNCHANGED <<db, base, held, queue, notices, faults, lost>>

RecordBuy ==
  LET p == [act["executor"].pos EXCEPT !.buyHash = act["executor"].tx]
  IN /\ act["executor"].pc = "recordBuy"
     /\ Save("executor", p)
     /\ act' = [act EXCEPT !["executor"].pc = "waitBuy", !["executor"].pos = p]
     /\ UNCHANGED <<chain, base, held, queue, notices, faults>>

(***************************************************************************)
(* Settling a buy: TradeExecutor.settle_buy, called by both tasks           *)
(***************************************************************************)
BuyReceipt(a) ==
  /\ act[a].pc = "waitBuy"
  /\ \E h \in Answers(a, act[a].tx) :
       \/ Outcome(h) = "succeeded" /\ Go(a, "buyMined")
       \/ Outcome(h) = "reverted" /\ Go(a, "buyReverted")
  /\ UNCHANGED <<db, chain, base, held, queue, notices, faults, lost>>

(* The polls ran out (executor) or the one query found no receipt (watcher). *)
NoReceipt(a) ==
  /\ act[a].pc \in {"waitBuy", "waitSell"}
  /\ \E h \in Answers(a, act[a].tx) : Outcome(h) = "pending"
  /\ Done(a)
  /\ UNCHANGED <<db, chain, base, held, queue, notices, faults, lost>>

WriteFailed(a) ==
  /\ act[a].pc = "buyReverted"
  /\ Save(a, [act[a].pos EXCEPT !.status = "failed", !.returned = Stake])
  /\ Done(a)
  /\ UNCHANGED <<chain, base, held, queue, notices, faults>>

ReadAcquired(a) ==
  /\ act[a].pc = "buyMined"
  /\ act' = [act EXCEPT ![a].pc = "acquired", ![a].bal = held[Target[act[a].deal]]]
  /\ UNCHANGED <<db, chain, base, held, queue, notices, faults, lost>>

(* The executor goes on to consider_now; the watcher's tick goes on.        *)
WriteHolding(a) ==
  LET p == [act[a].pos EXCEPT !.status = "holding",
              !.acquired = AtLeastOne(act[a].bal - act[a].pos.targetBefore)]
  IN /\ act[a].pc = "acquired"
     /\ Save(a, p)
     /\ IF a = "executor"
        THEN act' = [act EXCEPT ![a] = [At("exit") EXCEPT !.deal = act[a].deal, !.pos = p]]
        ELSE Done(a)
     /\ UNCHANGED <<chain, base, held, queue, notices, faults>>

(***************************************************************************)
(* PositionWatcher._consider_exit and _sell, run by both tasks              *)
(***************************************************************************)
(* _wait: the exit does not pay, its cost is unknown, or the swap would     *)
(* revert.  A notice is due once the deal has waited max_wait_notice_seconds *)
(* (7200 s), longer than a deal can stay in the executor's hands.           *)
Postpone(a) ==
  /\ act[a].pc = "exit"
  /\ Done(a)
  /\ \/ UNCHANGED notices
     \/ /\ a = "watcher" /\ ~act[a].pos.notified
        /\ act["executor"].deal # act[a].deal
        /\ notices' = notices \cup {[deal |-> act[a].deal, pos |-> act[a].pos]}
  /\ UNCHANGED <<db, chain, base, held, queue, faults, lost>>

AgreeToSell(a) ==
  /\ act[a].pc = "exit"
  /\ held[Target[act[a].deal]] >= act[a].pos.acquired      \* simulate
  /\ Room
  /\ \E offer \in Offers :
       /\ ProfitIfSold(act[a].pos, offer) >= Needed(a)
       /\ act' = [act EXCEPT ![a].pc = "sellBalance", ![a].offer = offer]
  /\ UNCHANGED <<db, chain, base, held, queue, notices, faults, lost>>

ReadBaseBefore(a) ==
  /\ act[a].pc = "sellBalance"
  /\ act' = [act EXCEPT ![a].pc = "sendSell", ![a].bal = base]
  /\ UNCHANGED <<db, chain, base, held, queue, notices, faults, lost>>

SendSell(a) ==
  /\ act[a].pc = "sendSell"
  /\ Accept(act[a].deal, "sell", act[a].pos.acquired, act[a].offer)
  /\ act' = [act EXCEPT ![a].pc = "recordSell", ![a].tx = Len(chain) + 1]
  /\ LoseSight(act[a].deal, Outdated(act[a].deal, act[a].pos) \/ Recording(act[a].deal) # {})
  /\ UNCHANGED <<db, base, held, queue, notices, faults>>

RecordSell(a) ==
  LET p == [act[a].pos EXCEPT !.status = "selling", !.sellHash = act[a].tx,
                              !.baseBefore = act[a].bal]
  IN /\ act[a].pc = "recordSell"
     /\ Save(a, p)
     /\ act' = [act EXCEPT ![a].pc = "waitSell", ![a].pos = p]
     /\ UNCHANGED <<chain, base, held, queue, notices, faults>>

(***************************************************************************)
(* Settling a sale: PositionWatcher._settle_pending_sell                    *)
(***************************************************************************)
SellReceipt(a) ==
  /\ act[a].pc = "waitSell"
  /\ \E h \in Answers(a, act[a].tx) :
       \/ Outcome(h) = "succeeded" /\ Go(a, "sellMined")
       \/ Outcome(h) = "reverted" /\ Go(a, "sellReverted")
  /\ UNCHANGED <<db, chain, base, held, queue, notices, faults, lost>>

WriteSellReverted(a) ==
  /\ act[a].pc = "sellReverted"
  /\ Save(a, [act[a].pos EXCEPT !.status = "holding", !.sellHash = None, !.sellGas = @ + 1])
  /\ Done(a)
  /\ UNCHANGED <<chain, base, held, queue, notices, faults>>

ReadBaseAfter(a) ==
  /\ act[a].pc = "sellMined"
  /\ act' = [act EXCEPT ![a].pc = "returned", ![a].bal = base]
  /\ UNCHANGED <<db, chain, base, held, queue, notices, faults, lost>>

WriteClosed(a) ==
  /\ act[a].pc = "returned"
  /\ Save(a, [act[a].pos EXCEPT !.status = "closed", !.sellGas = @ + 1,
                !.returned = NonNegative(act[a].bal - act[a].pos.baseBefore)])
  /\ Done(a)
  /\ UNCHANGED <<chain, base, held, queue, notices, faults>>

(***************************************************************************)
(* The positions task: PositionWatcher.tick, then mark_notified             *)
(***************************************************************************)
Tick ==
  /\ act["watcher"].pc = "idle"
  /\ queue' = OpenRows
  /\ act' = [act EXCEPT !["watcher"] = At("next")]
  /\ UNCHANGED <<db, chain, base, held, notices, faults, lost>>

(* _advance of a row as it was at the tick. *)
Advance ==
  /\ act["watcher"].pc = "next"
  /\ \E s \in queue :
       LET Work(pc, h) == act' = [act EXCEPT !["watcher"] =
                                    [At(pc) EXCEPT !.deal = s.deal, !.pos = s.pos, !.tx = h]]
       IN /\ Oldest(s, queue)
          /\ queue' = queue \ {s}
          /\ \/ s.pos.status = "buying" /\ s.pos.buyHash = None /\ UNCHANGED act
             \/ s.pos.status = "buying" /\ s.pos.buyHash # None /\ Work("waitBuy", s.pos.buyHash)
             \/ s.pos.status = "selling" /\ Work("waitSell", s.pos.sellHash)
             \/ s.pos.status = "holding" /\ Work("exit", None)
  /\ UNCHANGED <<db, chain, base, held, notices, faults, lost>>

EndTick ==
  /\ act["watcher"].pc = "next" /\ queue = {}
  /\ act' = [act EXCEPT !["watcher"] = At(IF notices = {} THEN "idle" ELSE "notify")]
  /\ UNCHANGED <<db, chain, base, held, queue, notices, faults, lost>>

(* The operator is told, then the snapshot is saved with the mark.          *)
MarkNotified ==
  /\ act["watcher"].pc = "notify"
  /\ \E s \in notices :
       /\ Oldest(s, notices)
       /\ db' = [db EXCEPT ![s.deal] = [s.pos EXCEPT !.notified = TRUE]]
       /\ notices' = notices \ {s}
       /\ act' = [act EXCEPT !["watcher"] = At(IF notices = {s} THEN "idle" ELSE "notify")]
       /\ LoseSight(s.deal, Outdated(s.deal, s.pos))
  /\ UNCHANGED <<chain, base, held, queue, faults>>

(***************************************************************************)
(* The network: the next transaction is executed or reverts                 *)
(***************************************************************************)
Pending(h) == h \in 1..Len(chain) /\ Outcome(h) = "pending"

Mine ==
  \E h \in 1..Len(chain) :
    LET tx == chain[h]
        token == Target[tx.deal]
        End(outcome) == chain' = [chain EXCEPT ![h].outcome = outcome]
    IN /\ Pending(h) /\ \A g \in 1..(h - 1) : ~Pending(g)
       /\ \/ End("reverted") /\ UNCHANGED <<base, held>>
          \/ /\ tx.kind = "buy" /\ base >= tx.price
             /\ End("succeeded")
             /\ base' = base - tx.price
             /\ held' = [held EXCEPT ![token] = @ + tx.amount]
          \/ /\ tx.kind = "sell" /\ held[token] >= tx.amount
             /\ End("succeeded")
             /\ base' = base + tx.price
             /\ held' = [held EXCEPT ![token] = @ - tx.amount]
       /\ UNCHANGED <<db, act, queue, notices, faults, lost>>

(***************************************************************************)
(* Deduplication between the two kinds of request                           *)
(***************************************************************************)
(* A send that joins a query for a receipt is not made, and its answer is   *)
(* no hash: an exception.  A query that joins a send gets no receipt.       *)
Join(a) ==
  /\ merging
  /\ \E b \in Actors \ {a} :
       \/ act[a].pc \in {"sendBuy", "sendSell"} /\ act[b].pc \in {"waitBuy", "waitSell"}
       \/ act[a].pc \in {"waitBuy", "waitSell"} /\ act[b].pc \in {"sendBuy", "sendSell"}
  /\ Done(a)
  /\ UNCHANGED <<db, chain, base, held, queue, notices, faults, lost>>

(***************************************************************************)
(* Faults                                                                   *)
(***************************************************************************)
Fault == faults < MaxFaults /\ faults' = faults + 1

(* An awaited call raises, or the scan task runs into its timeout.  tick    *)
(* isolates the failure of one deal; an exception while notices are handled *)
(* ends the positions task's run.                                           *)
Raise(a) ==
  /\ Fault
  /\ act[a].pc \notin {"idle", "next"}
  /\ IF act[a].pc = "notify"
     THEN act' = [act EXCEPT ![a] = At("idle")] /\ notices' = {}
     ELSE Done(a) /\ UNCHANGED notices
  /\ LoseSight(act[a].deal, act[a].pc = "recordSell")
  /\ UNCHANGED <<db, chain, base, held, queue>>

(* The node accepted the transaction, but the answer did not come back: a   *)
(* timeout, "already known" on the second node, a cancelled task.           *)
SendUnanswered(a) ==
  /\ Fault
  /\ \/ act[a].pc = "sendBuy" /\ Accept(act[a].deal, "buy", Lot, Stake)
     \/ act[a].pc = "sendSell" /\ Accept(act[a].deal, "sell", act[a].pos.acquired, act[a].offer)
  /\ LoseSight(act[a].deal, act[a].pc = "sendSell")
  /\ Done(a)
  /\ UNCHANGED <<db, base, held, queue, notices>>

(* The process stops, by a crash or a shutdown that cancels both tasks.     *)
Restart ==
  /\ Fault
  /\ \E a \in Actors : act[a].pc # "idle"
  /\ act' = [a \in Actors |-> At("idle")]
  /\ queue' = {} /\ notices' = {}
  /\ lost' = lost \cup {d \in Deals : Recording(d) # {}}
  /\ UNCHANGED <<db, chain, base, held>>

Init ==
  /\ db = [d \in Deals |-> Absent]
  /\ chain = <<>>
  /\ base = InitialBase
  /\ held = [t \in Tokens |-> 0]
  /\ act = [a \in Actors |-> At("idle")]
  /\ queue = {} /\ notices = {}
  /\ faults \in 0..MaxFaults /\ merging \in BOOLEAN /\ lost = {}

Open == \/ ReadBalance \/ RejectFinds \/ ChooseFind \/ PrepareBuy \/ BuyWouldRevert
        \/ CreateRecord \/ SendBuy \/ RecordBuy

Settle(a) == \/ BuyReceipt(a) \/ NoReceipt(a) \/ WriteFailed(a) \/ ReadAcquired(a)
             \/ WriteHolding(a) \/ SellReceipt(a) \/ WriteSellReverted(a)
             \/ ReadBaseAfter(a) \/ WriteClosed(a)

Exit(a) == \/ Postpone(a) \/ AgreeToSell(a) \/ ReadBaseBefore(a) \/ SendSell(a)
           \/ RecordSell(a)

Watch == Tick \/ Advance \/ EndTick \/ MarkNotified

Next ==
  /\ UNCHANGED merging
  /\ \/ Open
     \/ \E a \in Actors : Settle(a) \/ Exit(a) \/ Join(a) \/ Raise(a) \/ SendUnanswered(a)
     \/ Watch
     \/ Mine
     \/ Restart

Spec == Init /\ [][Next]_vars

(* Both tasks are asyncio tasks the loop keeps running, the positions task  *)
(* is rescheduled for ever, and the network keeps producing blocks.         *)
Fairness ==
  /\ WF_vars((Watch \/ Settle("watcher") \/ Exit("watcher")) /\ UNCHANGED merging)
  /\ WF_vars((Open \/ Settle("executor") \/ Exit("executor")) /\ UNCHANGED merging)
  /\ WF_vars(Mine /\ UNCHANGED merging)

FairSpec == Spec /\ Fairness
(***************************************************************************)
(* Properties                                                               *)
(***************************************************************************)
(* Every variable but the setting merging, which no step changes, keeps its  *)
(* type.                                                                     *)
TypeOK ==
  /\ db \in [Deals -> Position]
  /\ chain \in Seq(Transaction)
  /\ base \in Nat
  /\ held \in [Tokens -> Nat]
  /\ act \in [Actors -> Task]
  /\ queue \subseteq Snapshot /\ notices \subseteq Snapshot
  /\ faults \in Nat /\ lost \subseteq Deals

Sent(d, kind) == {h \in 1..Len(chain) : chain[h].deal = d /\ chain[h].kind = kind}

(* No transaction of the account belongs to a deal the database does not    *)
(* know, whatever failed and whenever the process restarted: the row is     *)
(* written before the buy is sent.                                          *)
RecordedBeforeSent == \A h \in 1..Len(chain) : db[chain[h].deal].status # "absent"

(* The status of a deal is true of its buy.  One that is not in a block yet *)
(* keeps the deal BUYING: neither the executor that gave up waiting nor a   *)
(* watcher with an old copy of the row declares it bought or failed.  FAILED *)
(* is only written of a buy that reverted, the later statuses of one that   *)
(* succeeded.                                                               *)
BuyStatusIsTrue ==
  ~merging => \A d \in Deals : \A h \in Sent(d, "buy") :
    /\ Pending(h) => db[d].status = "buying"
    /\ db[d].status = "failed" => Outcome(h) = "reverted"
    /\ db[d].status \in {"holding", "selling", "closed"} => Outcome(h) = "succeeded"

(* A sale goes out only for a deal whose purchase is on the account.        *)
SaleFollowsPurchase ==
  ~merging => \A d \in Deals : Sent(d, "sell") # {} => \E h \in Sent(d, "buy") : Outcome(h) = "succeeded"

(* The hashes in a row are those of the deal's own transactions. *)
HashesAreOwn ==
  \A d \in Deals :
    /\ db[d].buyHash # None => db[d].buyHash \in Sent(d, "buy")
    /\ db[d].sellHash # None => db[d].sellHash \in Sent(d, "sell")

(* The gas of a deal: of all its transactions, those that reverted included. *)
Burnt(d) == Gas * Cardinality({h \in 1..Len(chain) : chain[h].deal = d})

(* A closed deal was really sold, and for a guaranteed amount that covers   *)
(* the stake, the lower of the two thresholds and the gas of all its        *)
(* transactions, over reverted attempts, timeouts and restarts: the          *)
(* subsystem never closes a deal at a loss.  Of a deal with a sale that was  *)
(* lost sight of, the code counts the gas of the circle only.                *)
ClosedAtAProfit ==
  ~merging => \A d \in Deals : db[d].status = "closed" =>
    \E h \in Sent(d, "sell") :
      /\ Outcome(h) = "succeeded"
      /\ chain[h].price - Stake - (IF d \in lost THEN 2 * Gas ELSE Burnt(d))
           >= MinExitProfitWaiting

(* A deal that left BUYING never returns to it, a recorded hash of the buy  *)
(* is never lost, and FAILED is final, though every update writes back a    *)
(* whole old copy of the row.                                               *)
NoWayBack ==
  [][~merging => \A d \in Deals :
       /\ db[d].status \notin {"absent", "buying"} => db'[d].status \notin {"absent", "buying"}
       /\ db[d].buyHash # None => db'[d].buyHash = db[d].buyHash
       /\ db[d].status = "failed" => db'[d] = db[d]]_vars

(* The watcher brings what is recorded to its end: once the hash of the buy *)
(* is in the row the deal leaves BUYING, whoever stopped waiting for it, and *)
(* a sale under way gets its result.                                        *)
RecordedIsSettled ==
  \A d \in Deals :
    /\ (~merging /\ db[d].status = "buying" /\ db[d].buyHash # None) ~> db[d].status # "buying"
    /\ (~merging /\ db[d].status = "selling") ~> db[d].status # "selling"

(***************************************************************************)
(* What the comments of the code say and the code does not do               *)
(***************************************************************************)
(* The money of a deal is not spent on another one (_available): the buys   *)
(* that wait for a block never add up to more than the account has.         *)
NoMoneyPromisedTwice ==
  Stake * Cardinality({h \in 1..Len(chain) : Pending(h) /\ chain[h].kind = "buy"}) <= base

(* No restart leaves bought tokens that nobody follows (models/position.py): *)
(* a purchase that took place is followed by its hash in the row, or by the *)
(* executor.                                                                *)
PurchaseIsFollowed ==
  \A d \in Deals : (\E h \in Sent(d, "buy") : Outcome(h) = "succeeded") =>
    db[d].buyHash # None \/ act["executor"].deal = d

(* CLOSED means the circle is complete: nothing reopens the deal.           *)
ClosedIsFinal == [][\A d \in Deals : db[d].status = "closed" => db'[d].status = "closed"]_vars

(* The system never closes a position at a loss (watcher.py): the gas of a   *)
(* sale whose answer was lost, or that both tasks sent, is counted by no row. *)
ClosedCoversAll ==
  ~merging => \A d \in Deals : db[d].status = "closed" =>
    \E h \in Sent(d, "sell") :
      Outcome(h) = "succeeded" /\ chain[h].price - Stake - Burnt(d) >= MinExitProfitWaiting

(* raw_returned is the proceeds of the sale and nothing else.               *)
ReturnedIsProceeds ==
  \A d \in Deals : db[d].status = "closed" =>
    \E h \in Sent(d, "sell") : Outcome(h) = "succeeded" /\ db[d].returned = chain[h].price

(* raw_acquired is what the purchase brought and nothing else.              *)
AcquiredIsBought ==
  \A d \in Deals : db[d].status = "holding" => db[d].acquired = Lot

=============================================================================
