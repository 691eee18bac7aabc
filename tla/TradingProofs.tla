--------------------------- MODULE TradingProofs ---------------------------
(***************************************************************************)
(* Proofs about Trading, for every number of deals, transactions and faults *)
(* and every amount.                                                        *)
(***************************************************************************)
EXTENDS Trading, FiniteSetTheorems, TLAPS

(***************************************************************************)
(* The inductive invariant.  Every copy of a row that some task may still   *)
(* write back agrees with the row on the hash of the buy, and what its      *)
(* status claims is what the network did.                                   *)
(***************************************************************************)
HasBuy(d, h) == h \in 1..Len(chain) /\ chain[h].deal = d /\ chain[h].kind = "buy"
HasSell(d, h) == h \in 1..Len(chain) /\ chain[h].deal = d /\ chain[h].kind = "sell"

(* p may be a row of deal d. *)
Truthful(d, p) ==
  /\ p.status # "absent"
  /\ p.buyHash # None => HasBuy(d, p.buyHash)
  /\ p.sellHash # None => HasSell(d, p.sellHash)
  /\ p.buyHash = None => p.status = "buying"
  /\ p.status \in {"holding", "selling", "closed"} => Outcome(p.buyHash) = "succeeded"
  /\ p.status = "failed" => Outcome(p.buyHash) = "reverted"
  /\ p.status \in {"selling", "closed"} <=> p.sellHash # None
  /\ p.status = "closed" => Outcome(p.sellHash) = "succeeded"

(* A copy that may be written back, once the hash of the buy is recorded.   *)
Current(d, p) == Truthful(d, p) /\ p.buyHash # None /\ db[d].buyHash = p.buyHash

RowsTruthful == \A d \in Deals :
  \/ db[d].status = "absent" /\ db[d].buyHash = None /\ db[d].sellHash = None
  \/ Truthful(d, db[d])

SalesTruthful == \A h \in 1..Len(chain) :
  chain[h].kind = "sell" =>
    db[chain[h].deal].buyHash # None /\ Outcome(db[chain[h].deal].buyHash) = "succeeded"

OneBuy == \A g, h \in 1..Len(chain) :
  chain[g].kind = "buy" /\ chain[h].kind = "buy" /\ chain[g].deal = chain[h].deal => g = h

(* Until the hash is recorded only the executor knows the transaction.      *)
BuyKnown == \A h \in 1..Len(chain) :
  chain[h].kind = "buy" => db[chain[h].deal].buyHash \in {None, h}

(* The proceeds of a sale cover what ClosedAtAProfit asks for.              *)
Pays(price) == price - Stake - 2 * Gas >= MinExitProfitWaiting
SalesPay == \A h \in 1..Len(chain) : chain[h].kind = "sell" => Pays(chain[h].price)

Stored == RecordedBeforeSent /\ RowsTruthful /\ SalesTruthful /\ OneBuy /\ BuyKnown /\ SalesPay

Queued == \A s \in queue :
  IF s.pos.buyHash = None THEN s.pos.status = "buying"
                          ELSE Current(s.deal, s.pos) /\ IsOpen(s.pos)

Noticed == \A s \in notices : Current(s.deal, s.pos) /\ s.pos.status = "holding"

(* A deal whose hash is not recorded, and the executor's copy of its row.   *)
Unrecorded(w) ==
  /\ w.deal \in Deals
  /\ db[w.deal].buyHash = None /\ db[w.deal].status = "buying"
  /\ w.pos.status = "buying" /\ w.pos.buyHash = None /\ w.pos.sellHash = None

OpeningOK(w) ==
  /\ w.pc = "create" => w.deal \in Deals /\ db[w.deal].status = "absent"
  /\ w.pc = "sendBuy" =>
       Unrecorded(w) /\ \A h \in 1..Len(chain) : chain[h].deal # w.deal
  /\ w.pc = "recordBuy" => Unrecorded(w) /\ HasBuy(w.deal, w.tx)

BuyPCs == {"waitBuy", "buyMined", "buyReverted", "acquired"}
ExitPCs == {"exit", "sellBalance", "sendSell", "recordSell"}
SalePCs == {"waitSell", "sellMined", "sellReverted", "returned"}
WorkingPCs == BuyPCs \cup ExitPCs \cup SalePCs

WorkingOK(w) ==
  w.pc \in WorkingPCs =>
    /\ w.deal \in Deals
    /\ Current(w.deal, w.pos)
    /\ w.pc \in BuyPCs => w.pos.status = "buying"
    /\ w.pc \in ExitPCs => w.pos.status = "holding"
    /\ w.pc \in SalePCs => w.pos.status = "selling"
    /\ w.pc = "waitBuy" => w.tx = w.pos.buyHash
    /\ w.pc \in {"buyMined", "acquired"} => Outcome(w.pos.buyHash) = "succeeded"
    /\ w.pc = "buyReverted" => Outcome(w.pos.buyHash) = "reverted"
    /\ w.pc = "recordSell" => HasSell(w.deal, w.tx)
    /\ w.pc = "waitSell" => w.tx = w.pos.sellHash
    /\ w.pc \in {"sellMined", "returned"} => Outcome(w.pos.sellHash) = "succeeded"
    /\ w.pc \in {"sellBalance", "sendSell"} => Pays(w.offer)

Opening == OpeningOK(act["executor"])
Working == \A a \in Actors : WorkingOK(act[a])

Roles ==
  /\ act["watcher"].pc \in WorkingPCs \cup {"idle", "next", "notify"}
  /\ act["executor"].pc \in WorkingPCs \cup
       {"idle", "reserve", "prepare", "create", "sendBuy", "recordBuy"}

IInv == TypeOK /\ Stored /\ Queued /\ Noticed /\ Opening /\ Working /\ Roles

(***************************************************************************)
(* What a step of either task leaves alone                                  *)
(***************************************************************************)
(* The chain only grows, and an outcome once known does not change.         *)
Extends ==
  /\ Len(chain) \in Nat /\ Len(chain') \in Nat /\ Len(chain) <= Len(chain')
  /\ \A h \in 1..Len(chain) :
       /\ chain'[h].deal = chain[h].deal /\ chain'[h].kind = chain[h].kind
       /\ chain'[h].price = chain[h].price
       /\ chain[h].outcome # "pending" => chain'[h].outcome = chain[h].outcome

HashesKept == \A d \in Deals : db[d].buyHash # None => db'[d].buyHash = db[d].buyHash

(* Neither a longer chain nor another row falsifies a copy.                 *)
LEMMA TruthfulKept ==
  ASSUME Extends, NEW d \in Deals, NEW p \in Position, Truthful(d, p), p.buyHash # None
  PROVE  Truthful(d, p)'
<1>1. /\ HasBuy(d, p.buyHash) /\ HasBuy(d, p.buyHash)'
      /\ Outcome(p.buyHash) # "pending" => Outcome(p.buyHash)' = Outcome(p.buyHash)
  BY DEF Truthful, Extends, HasBuy, Outcome
<1>2. p.sellHash # None =>
        /\ HasSell(d, p.sellHash)'
        /\ Outcome(p.sellHash) # "pending" => Outcome(p.sellHash)' = Outcome(p.sellHash)
  BY DEF Truthful, Extends, HasSell, Outcome
<1> QED
  BY <1>1, <1>2 DEF Truthful

LEMMA CurrentKept ==
  ASSUME Extends, HashesKept, NEW d \in Deals, NEW p \in Position, Current(d, p)
  PROVE  Current(d, p)'
BY TruthfulKept DEF HashesKept, Current

(* What tasks not concerned by the step hold stays true of them.            *)
LEMMA WorkingKept ==
  ASSUME Extends, HashesKept, NEW w \in Task, WorkingOK(w)
  PROVE  WorkingOK(w)'
<1> SUFFICES ASSUME w.pc \in WorkingPCs
             PROVE  WorkingOK(w)'
  BY DEF WorkingOK
<1>1. w.deal \in Deals /\ w.pos \in Position /\ Current(w.deal, w.pos)
  BY DEF WorkingOK, Task
<1>2. Current(w.deal, w.pos)'
  BY <1>1, CurrentKept
<1> QED
  BY <1>1, <1>2, SMTT(30) DEF WorkingOK, Extends, HasSell, HasBuy, Outcome, Current, Truthful, BuyPCs,
     ExitPCs, SalePCs

LEMMA QueuedKept ==
  ASSUME TypeOK, Extends, HashesKept, Queued, Noticed, queue' \subseteq queue, notices' \subseteq notices
  PROVE  Queued' /\ Noticed'
<1>1. ASSUME NEW s \in Snapshot, Current(s.deal, s.pos)
      PROVE  Current(s.deal, s.pos)'
  BY <1>1, CurrentKept DEF Snapshot
<1>2. queue' \subseteq Snapshot /\ notices' \subseteq Snapshot
  BY DEF TypeOK
<1>3. Queued'
  BY <1>1, <1>2 DEF Queued
<1>4. Noticed'
  BY <1>1, <1>2 DEF Noticed
<1> QED
  BY <1>3, <1>4

LEMMA ChainType ==
  ASSUME TypeOK, NEW h \in 1..Len(chain)
  PROVE  chain[h] \in Transaction /\ chain[h].deal \in Deals /\ chain[h].kind \in {"buy", "sell"}
<1>1. chain[h] \in Transaction
  BY DEF TypeOK
<1> QED
  BY <1>1 DEF Transaction

(***************************************************************************)
(* How a step changes the rows and the chain                                *)
(***************************************************************************)
(* It changes neither. *)
LEMMA NothingStored ==
  ASSUME TypeOK, Stored, UNCHANGED <<db, chain>>
  PROVE  Stored' /\ Extends /\ HashesKept
<1>1. Extends /\ HashesKept
  BY DEF TypeOK, Extends, HashesKept
<1>2. Stored'
  BY DEF Stored, RecordedBeforeSent, RowsTruthful, SalesTruthful, OneBuy, BuyKnown, SalesPay,
     Truthful, HasBuy, HasSell, Outcome
<1> QED
  BY <1>1, <1>2

(* It saves a truthful copy that knows the recorded hash.                   *)
LEMMA CopySaved ==
  ASSUME TypeOK, Stored, UNCHANGED chain, NEW d \in Deals, NEW p \in Position,
         Current(d, p), db' = [db EXCEPT ![d] = p]
  PROVE  Stored' /\ Extends /\ HashesKept
<1>1. Extends /\ HashesKept
  BY DEF TypeOK, Extends, HashesKept, Current
<1>2. \A e \in Deals : db'[e] = IF e = d THEN p ELSE db[e]
  BY DEF TypeOK
<1>3. \A e \in Deals : db'[e].buyHash = db[e].buyHash
  BY <1>2 DEF Current
<1>4. p.status # "absent" /\ Truthful(d, p)
  BY DEF Current, Truthful
<1>5. \A h \in 1..Len(chain) : chain[h].deal \in Deals
  BY ChainType
<1>6. RecordedBeforeSent'
  BY <1>2, <1>4, <1>5 DEF Stored, RecordedBeforeSent
<1>7. RowsTruthful'
  BY <1>2, <1>4 DEF Stored, RowsTruthful, Truthful, HasBuy, HasSell, Outcome
<1>8. SalesTruthful' /\ OneBuy' /\ BuyKnown' /\ SalesPay'
  BY <1>3, <1>5 DEF Stored, SalesTruthful, OneBuy, BuyKnown, SalesPay, Outcome
<1> QED
  BY <1>1, <1>6, <1>7, <1>8 DEF Stored

(* It executes the transaction h.                                           *)
LEMMA OutcomeKnown ==
  ASSUME TypeOK, Stored, UNCHANGED db, NEW h \in 1..Len(chain), Outcome(h) = "pending",
         NEW outcome \in {"succeeded", "reverted"},
         chain' = [chain EXCEPT ![h].outcome = outcome]
  PROVE  Stored' /\ Extends /\ HashesKept
<1>1. /\ Len(chain) \in Nat /\ Len(chain') = Len(chain)
      /\ \A g \in 1..Len(chain) : chain[g] \in Transaction
  BY DEF TypeOK
<1>2. \A g \in 1..Len(chain) :
        /\ chain'[g].deal = chain[g].deal /\ chain'[g].kind = chain[g].kind
        /\ chain'[g].price = chain[g].price
        /\ chain'[g].outcome = IF g = h THEN outcome ELSE chain[g].outcome
  BY <1>1 DEF Transaction, TypeOK
<1>3. Extends /\ HashesKept
  BY <1>1, <1>2 DEF Extends, HashesKept, Outcome
<1>4. RecordedBeforeSent' /\ OneBuy' /\ BuyKnown' /\ SalesPay'
  BY <1>1, <1>2 DEF Stored, RecordedBeforeSent, OneBuy, BuyKnown, SalesPay
<1>5. SalesTruthful'
  BY <1>1, <1>2, SMTT(30) DEF Stored, SalesTruthful, RowsTruthful, Truthful, HasBuy, Outcome, TypeOK, Transaction
<1>6. RowsTruthful'
  <2> SUFFICES ASSUME NEW d \in Deals, Truthful(d, db[d])
               PROVE  Truthful(d, db[d])'
    BY DEF Stored, RowsTruthful
  <2>1. CASE db[d].buyHash = None
    BY <1>1, <1>2, <2>1 DEF Truthful, HasSell, TypeOK, Position, None
  <2>2. CASE db[d].buyHash # None
    BY <1>3, <2>2, TruthfulKept DEF TypeOK
  <2> QED
    BY <2>1, <2>2
<1> QED
  BY <1>3, <1>4, <1>5, <1>6 DEF Stored

(* It sends the buy of a deal that has none, or a sale of what was bought.  *)
LEMMA TransactionSent ==
  ASSUME TypeOK, Stored, UNCHANGED db, NEW tx \in Transaction,
         db[tx.deal].status # "absent",
         tx.kind = "buy" =>
           db[tx.deal].buyHash = None /\ \A h \in 1..Len(chain) : chain[h].deal # tx.deal,
         tx.kind = "sell" =>
           /\ db[tx.deal].buyHash # None /\ Outcome(db[tx.deal].buyHash) = "succeeded"
           /\ Pays(tx.price),
         chain' = Append(chain, tx)
  PROVE  Stored' /\ Extends /\ HashesKept
<1>1. /\ Len(chain) \in Nat /\ Len(chain') = Len(chain) + 1
      /\ \A h \in 1..Len(chain) : chain'[h] = chain[h]
      /\ chain'[Len(chain) + 1] = tx
      /\ \A h \in 1..Len(chain) : chain[h] \in Transaction
  BY DEF TypeOK
<1>2. Extends /\ HashesKept
  BY <1>1 DEF Extends, HashesKept
<1>3. RecordedBeforeSent'
  BY <1>1 DEF Stored, RecordedBeforeSent
<1>4. OneBuy' /\ BuyKnown' /\ SalesPay'
  BY <1>1 DEF Stored, OneBuy, BuyKnown, SalesPay, Transaction
<1>5. RowsTruthful'
  <2> SUFFICES ASSUME NEW d \in Deals, Truthful(d, db[d])
               PROVE  Truthful(d, db[d])'
    BY DEF Stored, RowsTruthful
  <2>1. CASE db[d].buyHash = None
    BY <1>1, <2>1 DEF Truthful, HasSell, TypeOK, Position, None
  <2>2. CASE db[d].buyHash # None
    BY <1>2, <2>2, TruthfulKept DEF TypeOK
  <2> QED
    BY <2>1, <2>2
<1>6. SalesTruthful'
  <2> SUFFICES ASSUME NEW h \in 1..(Len(chain) + 1), chain'[h].kind = "sell"
               PROVE  /\ db[chain'[h].deal].buyHash # None
                      /\ chain'[db[chain'[h].deal].buyHash].outcome = "succeeded"
    BY <1>1 DEF SalesTruthful, Outcome
  <2> DEFINE d == chain'[h].deal
  <2>1. db[d].buyHash # None /\ Outcome(db[d].buyHash) = "succeeded" /\ d \in Deals
    BY <1>1 DEF Stored, SalesTruthful, Transaction
  <2>2. db[d].buyHash \in 1..Len(chain)
    BY <2>1 DEF Stored, RowsTruthful, Truthful, HasBuy
  <2> QED
    BY <1>1, <2>1, <2>2 DEF Outcome
<1> QED
  BY <1>2, <1>3, <1>4, <1>5, <1>6 DEF Stored

(* It saves the row of a deal whose buy has no recorded hash: the new row,  *)
(* or the row with the hash of its one buy.                                 *)
LEMMA OpeningSaved ==
  ASSUME TypeOK, Stored, UNCHANGED chain, NEW d \in Deals, NEW p \in Position,
         db[d].buyHash = None, Truthful(d, p), db' = [db EXCEPT ![d] = p]
  PROVE  Stored' /\ Extends /\ HashesKept
<1>1. Extends /\ HashesKept
  BY DEF TypeOK, Extends, HashesKept
<1>2. \A e \in Deals : db'[e] = IF e = d THEN p ELSE db[e]
  BY DEF TypeOK
<1>3. \A h \in 1..Len(chain) : chain[h].deal \in Deals /\ chain[h].kind \in {"buy", "sell"}
  BY ChainType
<1>4. RecordedBeforeSent'
  BY <1>2, <1>3 DEF Stored, RecordedBeforeSent, Truthful
<1>5. RowsTruthful'
  BY <1>2 DEF Stored, RowsTruthful, Truthful, HasBuy, HasSell, Outcome
<1>6. SalesTruthful'
  BY <1>2, <1>3 DEF Stored, SalesTruthful, Outcome
<1>7. OneBuy' /\ SalesPay'
  BY DEF Stored, OneBuy, SalesPay
<1>8. BuyKnown'
  BY <1>2, <1>3 DEF Stored, BuyKnown, OneBuy, Truthful, HasBuy
<1> QED
  BY <1>1, <1>4, <1>5, <1>6, <1>7, <1>8 DEF Stored


(***************************************************************************)
(* What holds whether or not requests are merged: every task works on a     *)
(* deal the database knows, with a copy that names the deal's own           *)
(* transactions.                                                            *)
(***************************************************************************)
Own(d, p) ==
  /\ p.buyHash # None => HasBuy(d, p.buyHash)
  /\ p.sellHash # None => HasSell(d, p.sellHash)

Exists(d, p) == db[d].status # "absent" /\ p.status # "absent" /\ Own(d, p)

Rows == RecordedBeforeSent /\ \A d \in Deals : Own(d, db[d])

RestPCs == {"idle", "reserve", "prepare", "next", "notify"}

Named(w) ==
  /\ w.pc \notin RestPCs => w.deal \in Deals
  /\ w.pc \notin RestPCs \cup {"create"} => Exists(w.deal, w.pos)
  /\ w.pc = "recordBuy" => HasBuy(w.deal, w.tx)
  /\ w.pc = "recordSell" => HasSell(w.deal, w.tx)

Basis ==
  /\ TypeOK
  /\ Rows
  /\ \A a \in Actors : Named(act[a])
  /\ \A s \in queue \cup notices : Exists(s.deal, s.pos)

(***************************************************************************)
(* Types                                                                    *)
(***************************************************************************)
LEMMA AtType == \A pc \in PCs : At(pc) \in Task
BY BoundsAssumption DEF At, Task, Absent, Position, Statuses, None

LEMMA DoneType ==
  ASSUME act \in [Actors -> Task], NEW a \in Actors, Done(a)
  PROVE  act' \in [Actors -> Task]
<1>1. At("idle") \in Task /\ At("next") \in Task
  BY AtType DEF PCs
<1> QED
  BY <1>1 DEF Done

(* A task goes on, with at most one of its local variables changed.         *)
LEMMA GoType ==
  ASSUME act \in [Actors -> Task], NEW a \in Actors, NEW pc \in PCs
  PROVE  /\ [act EXCEPT ![a].pc = pc] \in [Actors -> Task]
         /\ \A n \in Nat :
              /\ [act EXCEPT ![a].pc = pc, ![a].tx = n] \in [Actors -> Task]
              /\ [act EXCEPT ![a].pc = pc, ![a].offer = n] \in [Actors -> Task]
              /\ [act EXCEPT ![a].pc = pc, ![a].bal = n] \in [Actors -> Task]
         /\ \A p \in Position : [act EXCEPT ![a].pc = pc, ![a].pos = p] \in [Actors -> Task]
BY DEF Task

LEMMA LostType ==
  ASSUME lost \subseteq Deals, NEW d, NEW when, when => d \in Deals, LoseSight(d, when)
  PROVE  lost' \subseteq Deals
BY DEF LoseSight

LEMMA SaveType ==
  ASSUME Basis, NEW a \in Actors, act[a].pc \notin RestPCs, NEW p, Save(a, p)
  PROVE  lost' \subseteq Deals
<1>1. act[a].deal \in Deals BY DEF Basis, Named
<1>2. LoseSight(act[a].deal, Outdated(act[a].deal, act[a].pos)) BY DEF Save
<1> QED BY <1>1, <1>2, LostType DEF Basis, TypeOK

LEMMA OpenType == ASSUME Basis, Open PROVE TypeOK'
<1> USE AmountsAssumption, TokensAssumption DEF Basis, TypeOK, Actors
<1>1. act["executor"] \in Task /\ act["executor"].pos \in Position
  BY DEF Task
<1>2. \A pc \in {"idle", "reserve", "create"} : At(pc) \in Task
  BY AtType DEF PCs
<1>3. CASE ReadBalance
  BY <1>2, <1>3 DEF ReadBalance, Task
<1>4. CASE RejectFinds
  BY <1>2, <1>4 DEF RejectFinds
<1>5. CASE ChooseFind
  BY <1>1, <1>5 DEF ChooseFind, Go, Task, PCs
<1>6. CASE PrepareBuy
  <2>1. PICK d \in Deals : act' = [act EXCEPT !["executor"] =
                    [At("create") EXCEPT !.deal = d, !.bal = held[Target[d]]]]
    BY <1>6 DEF PrepareBuy
  <2>2. held[Target[d]] \in Nat /\ d \in 0..MaxDeals
    BY BoundsAssumption DEF Deals
  <2> QED
    BY <1>2, <1>6, <2>1, <2>2 DEF PrepareBuy, Task
<1>7. CASE BuyWouldRevert
  BY <1>2, <1>7 DEF BuyWouldRevert
<1>8. CASE CreateRecord
  <2>1. [Absent EXCEPT !.status = "buying", !.targetBefore = act["executor"].bal] \in Position
    BY <1>1 DEF Absent, Position, Statuses, None, Task
  <2>2. lost' \subseteq Deals
    BY <1>8, SaveType DEF CreateRecord, RestPCs
  <2> QED
    BY <1>1, <1>8, <2>1, <2>2 DEF CreateRecord, Save, Task, PCs
<1>9. CASE SendBuy
  <2>1. act["executor"].deal \in Deals
    BY <1>9 DEF SendBuy, Named, RestPCs, Actors
  <2>2. chain' \in Seq(Transaction)
    BY <1>9, <2>1 DEF SendBuy, Accept, Transaction
  <2>3. act' \in [Actors -> Task]
    <3>1. PICK n \in Nat : n = Len(chain) + 1
      OBVIOUS
    <3>2. act' = [act EXCEPT !["executor"].pc = "recordBuy", !["executor"].tx = n]
      BY <1>9, <3>1 DEF SendBuy
    <3> QED
      BY <3>2, GoType DEF PCs
  <2> QED
    BY <1>9, <2>2, <2>3 DEF SendBuy
<1>10. CASE RecordBuy
  <2>1. [act["executor"].pos EXCEPT !.buyHash = act["executor"].tx] \in Position
    BY <1>1 DEF Position, Task
  <2>2. lost' \subseteq Deals
    BY <1>10, SaveType DEF RecordBuy, RestPCs
  <2> QED
    BY <1>1, <1>10, <2>1, <2>2 DEF RecordBuy, Save, Task, PCs
<1> QED
  BY <1>3, <1>4, <1>5, <1>6, <1>7, <1>8, <1>9, <1>10 DEF Open

LEMMA SettleType == ASSUME Basis, NEW a \in Actors, Settle(a) PROVE TypeOK'
<1> USE AmountsAssumption, TokensAssumption DEF Basis, TypeOK
<1>1. act[a] \in Task /\ act[a].pos \in Position
  BY DEF Task
<1>2. CASE BuyReceipt(a)
  <2>1. PICK pc \in PCs : act' = [act EXCEPT ![a].pc = pc]
    BY <1>2 DEF BuyReceipt, Go, PCs
  <2>2. act' \in [Actors -> Task]
    BY <2>1, GoType
  <2> QED
    BY <1>2, <2>2 DEF BuyReceipt
<1>3. CASE NoReceipt(a)
  BY <1>3, DoneType DEF NoReceipt
<1>4. CASE WriteFailed(a)
  <2>1. [act[a].pos EXCEPT !.status = "failed", !.returned = Stake] \in Position
    BY <1>1 DEF Position, Statuses
  <2>2. lost' \subseteq Deals
    BY <1>4, SaveType DEF WriteFailed, RestPCs
  <2> QED
    BY <1>4, <2>1, <2>2, DoneType DEF WriteFailed, Save
<1>5. CASE ReadAcquired(a)
  <2>1. held[Target[act[a].deal]] \in Nat
    BY <1>5 DEF ReadAcquired, Named, RestPCs
  <2> QED
    BY <1>1, <1>5, <2>1 DEF ReadAcquired, Task, PCs
<1>6. CASE WriteHolding(a)
  <2>1. AtLeastOne(act[a].bal - act[a].pos.targetBefore) \in Nat
    BY <1>1 DEF AtLeastOne, Task, Position
  <2>2. [act[a].pos EXCEPT !.status = "holding",
           !.acquired = AtLeastOne(act[a].bal - act[a].pos.targetBefore)] \in Position
    BY <1>1, <2>1 DEF Position, Statuses
  <2>3. At("exit") \in Task
    BY AtType DEF PCs
  <2>4. \A p \in Position : [At("exit") EXCEPT !.deal = act[a].deal, !.pos = p] \in Task
    BY <1>1, <2>3 DEF Task
  <2>5. db' \in [Deals -> Position]
    BY <1>6, <2>2 DEF WriteHolding, Save
  <2>6. act' \in [Actors -> Task]
    BY <1>6, <2>2, <2>4, DoneType DEF WriteHolding
  <2>7. lost' \subseteq Deals
    BY <1>6, SaveType DEF WriteHolding, RestPCs
  <2> QED
    BY <1>6, <2>5, <2>6, <2>7 DEF WriteHolding
<1>7. CASE SellReceipt(a)
  <2>1. PICK pc \in PCs : act' = [act EXCEPT ![a].pc = pc]
    BY <1>7 DEF SellReceipt, Go, PCs
  <2>2. act' \in [Actors -> Task]
    BY <2>1, GoType
  <2> QED
    BY <1>7, <2>2 DEF SellReceipt
<1>8. CASE WriteSellReverted(a)
  <2>1. \A p \in Position, n \in Nat :
          [p EXCEPT !.status = "holding", !.sellHash = None, !.sellGas = n] \in Position
    BY DEF Position, Statuses, None
  <2>2. act[a].pos.sellGas + 1 \in Nat
    BY <1>1 DEF Position
  <2>3. lost' \subseteq Deals
    BY <1>8, SaveType DEF WriteSellReverted, RestPCs
  <2> QED
    BY <1>1, <1>8, <2>1, <2>2, <2>3, DoneType DEF WriteSellReverted, Save
<1>9. CASE ReadBaseAfter(a)
  BY <1>1, <1>9 DEF ReadBaseAfter, Task, PCs
<1>10. CASE WriteClosed(a)
  <2>1. NonNegative(act[a].bal - act[a].pos.baseBefore) \in Nat
    BY <1>1 DEF NonNegative, Task, Position
  <2>2. \A p \in Position, m, n \in Nat :
          [p EXCEPT !.status = "closed", !.sellGas = m, !.returned = n] \in Position
    BY DEF Position, Statuses
  <2>3. act[a].pos.sellGas + 1 \in Nat
    BY <1>1 DEF Position
  <2>4. lost' \subseteq Deals
    BY <1>10, SaveType DEF WriteClosed, RestPCs
  <2> QED
    BY <1>1, <1>10, <2>1, <2>2, <2>3, <2>4, DoneType DEF WriteClosed, Save
<1> QED
  BY <1>2, <1>3, <1>4, <1>5, <1>6, <1>7, <1>8, <1>9, <1>10 DEF Settle

LEMMA ExitType == ASSUME Basis, NEW a \in Actors, Exit(a) PROVE TypeOK'
<1> USE AmountsAssumption, TokensAssumption DEF Basis, TypeOK
<1>1. act[a] \in Task /\ act[a].pos \in Position
  BY DEF Task
<1>2. CASE Postpone(a)
  <2>1. act[a].deal \in Deals
    BY <1>2 DEF Postpone, Named, RestPCs
  <2>2. notices' \subseteq Snapshot
    BY <1>1, <1>2, <2>1 DEF Postpone, Snapshot
  <2> QED
    BY <1>2, <2>2, DoneType DEF Postpone
<1>3. CASE AgreeToSell(a)
  <2>1. PICK offer \in Nat : act' = [act EXCEPT ![a].pc = "sellBalance", ![a].offer = offer]
    BY <1>3 DEF AgreeToSell
  <2>2. act' \in [Actors -> Task]
    BY <2>1, GoType, ZenonT(30) DEF PCs
  <2> QED
    BY <1>3, <2>2 DEF AgreeToSell
<1>4. CASE ReadBaseBefore(a)
  BY <1>4, GoType, ZenonT(40) DEF ReadBaseBefore, PCs
<1>5. CASE SendSell(a)
  <2>1. act[a].deal \in Deals
    BY <1>5 DEF SendSell, Named, RestPCs
  <2>2. chain' \in Seq(Transaction)
    BY <1>1, <1>5, <2>1 DEF SendSell, Accept, Transaction, Task, Position
  <2>3. act' \in [Actors -> Task]
    <3>1. PICK n \in Nat : n = Len(chain) + 1
      OBVIOUS
    <3>2. act' = [act EXCEPT ![a].pc = "recordSell", ![a].tx = n]
      BY <1>5, <3>1 DEF SendSell
    <3> QED
      BY <3>2, GoType, ZenonT(30) DEF PCs
  <2>4. lost' \subseteq Deals
    BY <1>5, <2>1, LostType DEF SendSell
  <2> QED
    BY <1>5, <2>2, <2>3, <2>4 DEF SendSell
<1>6. CASE RecordSell(a)
  <2> DEFINE q == [act[a].pos EXCEPT !.status = "selling", !.sellHash = act[a].tx,
                                     !.baseBefore = act[a].bal]
  <2>1. PICK p \in Position : p = q
    <3>1. q \in Position
      BY <1>1 DEF Position, Statuses, Task
    <3> QED
      BY <3>1
  <2>2. db' = [db EXCEPT ![act[a].deal] = p] /\ act' = [act EXCEPT ![a].pc = "waitSell", ![a].pos = p]
    BY <1>6, <2>1 DEF RecordSell, Save
  <2>3. db' \in [Deals -> Position]
    BY <2>2
  <2>4. act' \in [Actors -> Task]
    BY <2>2, GoType, ZenonT(30) DEF PCs
  <2>5. lost' \subseteq Deals
    BY <1>6, SaveType DEF RecordSell, RestPCs
  <2> QED
    BY <1>6, <2>3, <2>4, <2>5 DEF RecordSell
<1> QED
  BY <1>2, <1>3, <1>4, <1>5, <1>6 DEF Exit

LEMMA WatchType == ASSUME Basis, Watch PROVE TypeOK'
<1> USE DEF Basis, TypeOK
<1>1. \A pc \in {"idle", "next", "notify", "waitBuy", "waitSell", "exit"} : At(pc) \in Task
  BY AtType DEF PCs
<1>2. CASE Tick
  <2>1. OpenRows \subseteq Snapshot
    BY DEF OpenRows, Snapshot
  <2> QED
    BY <1>1, <1>2, <2>1 DEF Tick
<1>3. CASE Advance
  <2>1. PICK s \in queue :
          /\ queue' \subseteq queue
          /\ \/ UNCHANGED act
             \/ \E pc \in {"waitBuy", "waitSell", "exit"}, h \in {s.pos.buyHash, s.pos.sellHash, None} :
                  act' = [act EXCEPT !["watcher"] =
                            [At(pc) EXCEPT !.deal = s.deal, !.pos = s.pos, !.tx = h]]
    BY <1>3 DEF Advance
  <2>2. s.deal \in Deals /\ s.pos \in Position
    BY DEF Snapshot
  <2>3. s.deal \in 0..MaxDeals
    BY <2>2, BoundsAssumption DEF Deals
  <2>4. {s.pos.buyHash, s.pos.sellHash, None} \subseteq Nat
    BY <2>2, SMTT(30) DEF Position, None
  <2>5. \A pc \in {"waitBuy", "waitSell", "exit"}, h \in Nat :
          [At(pc) EXCEPT !.deal = s.deal, !.pos = s.pos, !.tx = h] \in Task
    BY <1>1, <2>2, <2>3 DEF Task
  <2>6. act' \in [Actors -> Task]
    <3>1. CASE UNCHANGED act
      BY <3>1
    <3>2. CASE ~UNCHANGED act
      <4>1. PICK pc \in {"waitBuy", "waitSell", "exit"}, h \in Nat :
              act' = [act EXCEPT !["watcher"] =
                        [At(pc) EXCEPT !.deal = s.deal, !.pos = s.pos, !.tx = h]]
        BY <2>1, <2>4, <3>2
      <4> QED
        BY <2>5, <4>1
    <3> QED
      BY <3>1, <3>2
  <2> QED
    BY <1>3, <2>1, <2>6 DEF Advance
<1>4. CASE EndTick
  BY <1>1, <1>4 DEF EndTick
<1>5. CASE MarkNotified
  <2>1. PICK s \in notices :
          /\ db' = [db EXCEPT ![s.deal] = [s.pos EXCEPT !.notified = TRUE]]
          /\ notices' = notices \ {s}
          /\ act' = [act EXCEPT !["watcher"] = At(IF notices = {s} THEN "idle" ELSE "notify")]
          /\ LoseSight(s.deal, Outdated(s.deal, s.pos))
    BY <1>5 DEF MarkNotified
  <2>2. [s.pos EXCEPT !.notified = TRUE] \in Position
    BY DEF Snapshot, Position
  <2>3. lost' \subseteq Deals
    BY <2>1, LostType DEF Snapshot
  <2> QED
    BY <1>1, <1>5, <2>1, <2>2, <2>3 DEF MarkNotified
<1> QED
  BY <1>2, <1>3, <1>4, <1>5 DEF Watch

LEMMA FaultType ==
  ASSUME Basis, NEW a \in Actors, Join(a) \/ Raise(a) \/ SendUnanswered(a) \/ Restart
  PROVE  TypeOK'
<1> USE AmountsAssumption DEF Basis, TypeOK, Fault
<1>1. At("idle") \in Task
  BY AtType DEF PCs
<1>2. CASE Raise(a)
  <2>1. act[a].pc = "recordSell" => act[a].deal \in Deals
    BY DEF Named, RestPCs
  <2>2. lost' \subseteq Deals
    BY <1>2, <2>1, LostType DEF Raise
  <2> QED
    BY <1>1, <1>2, <2>2, DoneType DEF Raise
<1>3. CASE SendUnanswered(a)
  <2>1. act[a] \in Task /\ act[a].pos.acquired \in Nat /\ act[a].offer \in Nat
    BY DEF Task, Position
  <2>4. lost' \subseteq Deals
    <3>1. act[a].pc = "sendSell" => act[a].deal \in Deals
      BY DEF Named, RestPCs
    <3> QED
      BY <1>3, <3>1, LostType DEF SendUnanswered
  <2>2. CASE act[a].pc = "sendBuy" /\ Accept(act[a].deal, "buy", Lot, Stake)
    <3>2. act[a].deal \in Deals
      BY <2>2 DEF Named, RestPCs
    <3>3. chain' \in Seq(Transaction)
      BY <2>2, <3>2 DEF Accept, Transaction
    <3> QED
      BY <1>3, <2>4, <3>3, DoneType DEF SendUnanswered
  <2>3. CASE /\ act[a].pc = "sendSell"
             /\ Accept(act[a].deal, "sell", act[a].pos.acquired, act[a].offer)
    <3>1. act[a].deal \in Deals
      BY <2>3 DEF Named, RestPCs
    <3>2. chain' \in Seq(Transaction)
      BY <2>1, <2>3, <3>1 DEF Accept, Transaction
    <3> QED
      BY <1>3, <2>4, <3>2, DoneType DEF SendUnanswered
  <2> QED
    BY <1>3, <2>2, <2>3 DEF SendUnanswered
<1>4. CASE Restart
  BY <1>1, <1>4 DEF Restart
<1>5. CASE Join(a)
  BY <1>5, DoneType DEF Join
<1> QED
  BY <1>2, <1>3, <1>4, <1>5

(* What a mined transaction does to the balances.                           *)
LEMMA BalanceType ==
  ASSUME base \in Nat, held \in [Tokens -> Nat],
         NEW price \in Nat, NEW amount \in Nat, NEW token \in Tokens,
         \/ base >= price /\ base' = base - price /\ held' = [held EXCEPT ![token] = @ + amount]
         \/ /\ held[token] >= amount /\ base' = base + price
            /\ held' = [held EXCEPT ![token] = @ - amount]
  PROVE  base' \in Nat /\ held' \in [Tokens -> Nat]
<1>1. base' \in Nat
  OBVIOUS
<1>2. \E n \in Nat : held' = [held EXCEPT ![token] = n]
  OBVIOUS
<1> QED
  BY <1>1, <1>2

LEMMA MineType == ASSUME TypeOK, Mine PROVE TypeOK'
<1> USE DEF TypeOK
<1>1. PICK h \in 1..Len(chain) :
        /\ \/ chain' = [chain EXCEPT ![h].outcome = "succeeded"]
           \/ chain' = [chain EXCEPT ![h].outcome = "reverted"]
        /\ \/ UNCHANGED <<base, held>>
           \/ /\ base >= chain[h].price /\ base' = base - chain[h].price
              /\ held' = [held EXCEPT ![Target[chain[h].deal]] = @ + chain[h].amount]
           \/ /\ held[Target[chain[h].deal]] >= chain[h].amount
              /\ base' = base + chain[h].price
              /\ held' = [held EXCEPT ![Target[chain[h].deal]] = @ - chain[h].amount]
  BY DEF Mine
<1>2. chain[h] \in Transaction
  OBVIOUS
<1>3. chain' \in Seq(Transaction)
  <2>1. /\ [chain[h] EXCEPT !.outcome = "succeeded"] \in Transaction
        /\ [chain[h] EXCEPT !.outcome = "reverted"] \in Transaction
    BY <1>2 DEF Transaction
  <2>2. \E tx \in Transaction : chain' = [chain EXCEPT ![h] = tx]
    BY <1>1, <2>1
  <2> QED
    BY <2>2
<1>4. chain[h].price \in Nat /\ chain[h].amount \in Nat /\ Target[chain[h].deal] \in Tokens
  BY <1>2, TokensAssumption DEF Transaction
<1>5. base' \in Nat /\ held' \in [Tokens -> Nat]
  <2>1. CASE UNCHANGED <<base, held>>
    BY <2>1
  <2>2. CASE ~UNCHANGED <<base, held>>
    BY <1>1, <1>4, <2>2, BalanceType
  <2> QED
    BY <2>1, <2>2
<1> QED
  BY <1>3, <1>5 DEF Mine

LEMMA TypeKept == ASSUME Basis, [Next]_vars PROVE TypeOK'
<1>1. CASE UNCHANGED vars
  BY <1>1 DEF vars, Basis, TypeOK
<1> QED
  BY <1>1, OpenType, SettleType, ExitType, WatchType, FaultType, MineType DEF Next, Basis, Actors

(* The chain only grows, and a row that exists is never deleted.            *)
Lasting ==
  /\ \A h \in 1..Len(chain) :
       h \in 1..Len(chain') /\ chain'[h].deal = chain[h].deal /\ chain'[h].kind = chain[h].kind
  /\ \A d \in Deals : db[d].status # "absent" => db'[d].status # "absent"

LEMMA ExistsKept ==
  ASSUME Lasting, NEW d \in Deals, NEW p, Exists(d, p)
  PROVE  Exists(d, p)'
BY DEF Lasting, Exists, Own, HasBuy, HasSell

LEMMA NothingWritten ==
  ASSUME Rows, UNCHANGED <<db, chain>>
  PROVE  Lasting /\ Rows'
BY DEF Lasting, Rows, RecordedBeforeSent, Own, HasBuy, HasSell

LEMMA RowWritten ==
  ASSUME TypeOK, Rows, UNCHANGED chain, NEW d \in Deals, NEW p, p.status # "absent", Own(d, p),
         db' = [db EXCEPT ![d] = p]
  PROVE  Lasting /\ Rows'
<1>1. \A e \in Deals : db'[e] = IF e = d THEN p ELSE db[e]
  BY DEF TypeOK
<1>2. \A h \in 1..Len(chain) : chain[h].deal \in Deals
  BY ChainType
<1> QED
  BY <1>1, <1>2 DEF Lasting, Rows, RecordedBeforeSent, Own, HasBuy, HasSell

LEMMA TransactionAdded ==
  ASSUME TypeOK, Rows, UNCHANGED db, NEW d \in Deals, NEW kind \in {"buy", "sell"},
         NEW amount, NEW price, db[d].status # "absent", Accept(d, kind, amount, price),
         NEW g, g = Len(chain) + 1
  PROVE  /\ Lasting /\ Rows'
         /\ kind = "buy" => HasBuy(d, g)'
         /\ kind = "sell" => HasSell(d, g)'
<1>1. /\ Len(chain) \in Nat /\ Len(chain') = g
      /\ \A h \in 1..Len(chain) : chain'[h] = chain[h]
      /\ chain'[g].deal = d /\ chain'[g].kind = kind
  BY DEF TypeOK, Accept
<1>2. /\ g \in 1..Len(chain')
      /\ \A h \in 1..Len(chain) : h \in 1..Len(chain')
      /\ \A h \in 1..Len(chain') : h \in 1..Len(chain) \/ h = g
  BY <1>1
<1>3. Lasting
  BY <1>1, <1>2 DEF Lasting
<1>4. ASSUME NEW e \in Deals, Own(e, db[e]) PROVE Own(e, db[e])'
  BY <1>1, <1>2, <1>4 DEF Own, HasBuy, HasSell
<1> QED
  BY <1>1, <1>2, <1>3, <1>4 DEF Rows, RecordedBeforeSent, HasBuy, HasSell

LEMMA TransactionMined ==
  ASSUME TypeOK, Rows, UNCHANGED db, NEW h \in 1..Len(chain), NEW outcome,
         chain' = [chain EXCEPT ![h].outcome = outcome]
  PROVE  Lasting /\ Rows'
<1>1. /\ Len(chain) \in Nat /\ Len(chain') = Len(chain)
      /\ \A g \in 1..Len(chain) : chain[g] \in Transaction
  BY DEF TypeOK
<1>2. \A g \in 1..Len(chain) : chain'[g].deal = chain[g].deal /\ chain'[g].kind = chain[g].kind
  BY <1>1 DEF Transaction, TypeOK
<1> QED
  BY <1>1, <1>2 DEF Lasting, Rows, RecordedBeforeSent, Own, HasBuy, HasSell

(* A step of one task, and what remains to show of it.                      *)
LEMMA BasisStep ==
  ASSUME Basis, TypeOK', Lasting, Rows', NEW a \in Actors,
         \A b \in Actors \ {a} : act'[b] = act[b],
         Named(act[a])',
         \A s \in queue' \cup notices' :
           \/ s \in queue \cup notices
           \/ s.deal \in Deals /\ Exists(s.deal, s.pos)
  PROVE  Basis'
<1>1. \A s \in queue' \cup notices' : Exists(s.deal, s.pos)'
  BY ExistsKept DEF Basis, TypeOK, Snapshot
<1>2. ASSUME NEW b \in Actors, b # a PROVE Named(act[b])'
  <2>1. act'[b] = act[b] /\ Named(act[b])
    BY <1>2 DEF Basis
  <2>2. act[b].pc \notin RestPCs \cup {"create"} => Exists(act[b].deal, act[b].pos)'
    BY <2>1, ExistsKept DEF Named
  <2> QED
    BY <2>1, <2>2 DEF Named, Lasting, HasBuy, HasSell, RestPCs
<1> QED
  BY <1>1, <1>2 DEF Basis

(* The task drops its deal.                                                 *)
LEMMA BasisDone ==
  ASSUME Basis, TypeOK', Lasting, Rows', NEW a \in Actors, NEW pc \in RestPCs,
         act' = [act EXCEPT ![a] = At(pc)],
         queue' \subseteq queue, notices' \subseteq notices
  PROVE  Basis'
<1>1. act'[a].pc = pc /\ \A b \in Actors \ {a} : act'[b] = act[b]
  BY DEF Basis, TypeOK, At
<1>2. Named(act[a])'
  BY <1>1 DEF Named, RestPCs
<1> QED
  BY <1>1, <1>2, BasisStep

(* The task goes on with its deal and its copy, and writes nothing.         *)
LEMMA BasisGoes ==
  ASSUME Basis, TypeOK', UNCHANGED <<db, chain, queue, notices>>, NEW a \in Actors,
         \A b \in Actors \ {a} : act'[b] = act[b],
         act[a].pc \notin RestPCs \cup {"create"},
         act'[a].deal = act[a].deal, act'[a].pos = act[a].pos,
         act'[a].pc \notin {"recordBuy", "recordSell"}
  PROVE  Basis'
<1>1. Lasting /\ Rows'
  BY NothingWritten DEF Basis
<1>2. act[a].deal \in Deals /\ Exists(act[a].deal, act[a].pos)
  BY DEF Basis, Named
<1>3. Named(act[a])'
  BY <1>1, <1>2, ExistsKept DEF Named
<1> QED
  BY <1>1, <1>3, BasisStep

LEMMA OpenBasis == ASSUME Basis, TypeOK', Open PROVE Basis'
<1> DEFINE w == act["executor"]
<1>1. w \in Task /\ w.pos \in Position /\ act \in [Actors -> Task] /\ "executor" \in Actors
  BY DEF Basis, TypeOK, Task, Actors
<1>2. UNCHANGED <<queue, notices>> /\ \A b \in Actors \ {"executor"} : act'[b] = act[b]
  BY <1>1 DEF Open, ReadBalance, RejectFinds, ChooseFind, PrepareBuy, BuyWouldRevert, CreateRecord,
     SendBuy, RecordBuy, Go
<1>3. ASSUME Lasting, Rows', Named(act["executor"])' PROVE Basis'
  BY <1>1, <1>2, <1>3, BasisStep
<1>4. CASE ReadBalance \/ RejectFinds \/ ChooseFind \/ BuyWouldRevert
  <2>1. act'["executor"].pc \in {"idle", "reserve", "prepare"} /\ UNCHANGED <<db, chain>>
    <3>1. CASE ReadBalance
      BY <1>1, <3>1 DEF ReadBalance, At
    <3>2. CASE RejectFinds \/ BuyWouldRevert
      BY <1>1, <3>2 DEF RejectFinds, BuyWouldRevert, At
    <3>3. CASE ChooseFind
      BY <1>1, <3>3 DEF ChooseFind, Go, Task
    <3> QED
      BY <1>4, <3>1, <3>2, <3>3
  <2> QED
    BY <1>3, <2>1, NothingWritten DEF Basis, Named, RestPCs
<1>5. CASE PrepareBuy
  <2>1. act'["executor"].pc = "create" /\ act'["executor"].deal \in Deals
    BY <1>1, <1>5 DEF PrepareBuy, At
  <2> QED
    BY <1>3, <1>5, <2>1, NothingWritten DEF PrepareBuy, Basis, Named, RestPCs
<1>6. CASE CreateRecord
  <2>1. PICK d \in Deals, p \in Position :
          /\ d = w.deal /\ p = [Absent EXCEPT !.status = "buying", !.targetBefore = w.bal]
          /\ p.status = "buying" /\ p.buyHash = None /\ p.sellHash = None
    <3> DEFINE q == [Absent EXCEPT !.status = "buying", !.targetBefore = w.bal]
    <3>1. q \in Position /\ q.status = "buying" /\ q.buyHash = None /\ q.sellHash = None
      BY <1>1 DEF Absent, Position, Statuses, Task, None
    <3>2. w.deal \in Deals
      BY <1>1, <1>6 DEF CreateRecord, Basis, Named, RestPCs
    <3> QED
      BY <3>1, <3>2
  <2>2. db' = [db EXCEPT ![d] = p] /\ UNCHANGED chain
    BY <1>6, <2>1 DEF CreateRecord, Save
  <2>3. Lasting /\ Rows'
    BY <2>1, <2>2, RowWritten DEF Basis, Own
  <2>4. act'["executor"].pc = "sendBuy" /\ act'["executor"].deal = d /\ act'["executor"].pos = p
    BY <1>1, <1>6, <2>1 DEF CreateRecord, Task
  <2>5. db'[d] = p
    BY <2>2 DEF Basis, TypeOK
  <2> QED
    BY <1>3, <2>1, <2>3, <2>4, <2>5 DEF Named, Exists, Own, RestPCs
<1>7. CASE SendBuy
  <2>1. PICK d \in Deals, p \in Position, h \in {Len(chain) + 1} :
          d = w.deal /\ p = w.pos /\ Exists(d, p)
    BY <1>1, <1>7 DEF SendBuy, Basis, Named, RestPCs
  <2>2. Lasting /\ Rows' /\ HasBuy(d, h)'
    BY <1>7, <2>1, TransactionAdded DEF SendBuy, Basis, Exists
  <2>3. /\ act'["executor"].pc = "recordBuy" /\ act'["executor"].tx = h
        /\ act'["executor"].deal = d /\ act'["executor"].pos = p
    BY <1>1, <1>7, <2>1 DEF SendBuy, Task
  <2>4. Exists(d, p)'
    BY <2>1, <2>2, ExistsKept
  <2> QED
    BY <1>3, <2>1, <2>2, <2>3, <2>4 DEF Named, HasBuy
<1>8. CASE RecordBuy
  <2>1. PICK d \in Deals : d = w.deal /\ Exists(d, w.pos) /\ HasBuy(d, w.tx)
    BY <1>1, <1>8 DEF RecordBuy, Basis, Named, RestPCs
  <2>2. PICK p \in Position :
          /\ p = [w.pos EXCEPT !.buyHash = w.tx]
          /\ p.status = w.pos.status /\ p.buyHash = w.tx /\ p.sellHash = w.pos.sellHash
    <3> DEFINE q == [w.pos EXCEPT !.buyHash = w.tx]
    <3>1. q \in Position /\ q.status = w.pos.status /\ q.buyHash = w.tx /\ q.sellHash = w.pos.sellHash
      BY <1>1 DEF Position, Task
    <3> QED
      BY <3>1
  <2>3. p.status # "absent" /\ Own(d, p)
    BY <2>1, <2>2 DEF Exists, Own
  <2>4. db' = [db EXCEPT ![d] = p] /\ UNCHANGED chain
    BY <1>8, <2>1, <2>2 DEF RecordBuy, Save
  <2>5. Lasting /\ Rows'
    BY <2>1, <2>3, <2>4, RowWritten DEF Basis
  <2>6. act'["executor"].pc = "waitBuy" /\ act'["executor"].deal = d /\ act'["executor"].pos = p
    BY <1>1, <1>8, <2>1, <2>2 DEF RecordBuy, Task
  <2>7. Exists(d, p)'
    BY <2>1, <2>3, <2>5, ExistsKept DEF Exists
  <2> QED
    BY <1>3, <2>1, <2>5, <2>6, <2>7 DEF Named
<1> QED
  BY <1>4, <1>5, <1>6, <1>7, <1>8 DEF Open

(* The task writes its copy of the row, with a sale of the deal or without. *)
LEMMA SaveBasis ==
  ASSUME Basis, UNCHANGED chain, NEW a \in Actors, act[a].pc \notin RestPCs \cup {"create"},
         NEW d, d = act[a].deal, NEW p,
         Save(a, p), p.status # "absent", p.buyHash = act[a].pos.buyHash,
         p.sellHash \in {None, act[a].pos.sellHash} \/ HasSell(d, p.sellHash)
  PROVE  Lasting /\ Rows' /\ d \in Deals /\ Exists(d, p)'
<1>1. d \in Deals /\ Exists(d, act[a].pos)
  BY DEF Basis, Named
<1>2. Exists(d, p)
  BY <1>1 DEF Exists, Own
<1>3. db' = [db EXCEPT ![d] = p]
  BY DEF Save
<1>4. Lasting /\ Rows'
  BY <1>1, <1>2, <1>3, RowWritten DEF Basis, Exists
<1> QED
  BY <1>1, <1>2, <1>4, ExistsKept

LEMMA SettleBasis == ASSUME Basis, TypeOK', NEW a \in Actors, Settle(a) PROVE Basis'
<1> DEFINE w == act[a]
<1>1. w \in Task /\ w.pos \in Position /\ act \in [Actors -> Task] /\ UNCHANGED <<queue, notices, chain>>
  BY DEF Basis, TypeOK, Task, Settle, BuyReceipt, NoReceipt, WriteFailed, ReadAcquired, WriteHolding,
     SellReceipt, WriteSellReverted, ReadBaseAfter, WriteClosed
<1>2. ASSUME Done(a), Lasting, Rows' PROVE Basis'
  <2>1. PICK pc \in RestPCs : act' = [act EXCEPT ![a] = At(pc)]
    BY <1>2 DEF Done, RestPCs
  <2> QED
    BY <1>1, <1>2, <2>1, BasisDone
<1>3. CASE BuyReceipt(a) \/ SellReceipt(a)
  <2>1. PICK pc \in {"buyMined", "buyReverted", "sellMined", "sellReverted"} :
          act' = [act EXCEPT ![a].pc = pc]
    BY <1>3 DEF BuyReceipt, SellReceipt, Go
  <2>2. /\ act'[a].pc = pc /\ act'[a].deal = w.deal /\ act'[a].pos = w.pos
        /\ \A b \in Actors \ {a} : act'[b] = act[b]
    BY <1>1, <2>1 DEF Task
  <2>3. UNCHANGED db /\ w.pc \in {"waitBuy", "waitSell"}
    BY <1>3 DEF BuyReceipt, SellReceipt
  <2> QED
    BY <1>1, <2>2, <2>3, BasisGoes DEF RestPCs
<1>4. CASE ReadAcquired(a) \/ ReadBaseAfter(a)
  <2>1. /\ act'[a].pc \in {"acquired", "returned"} /\ act'[a].deal = w.deal /\ act'[a].pos = w.pos
        /\ \A b \in Actors \ {a} : act'[b] = act[b]
    BY <1>1, <1>4 DEF ReadAcquired, ReadBaseAfter, Task
  <2>2. UNCHANGED db /\ w.pc \in {"buyMined", "sellMined"}
    BY <1>4 DEF ReadAcquired, ReadBaseAfter
  <2> QED
    BY <1>1, <2>1, <2>2, BasisGoes DEF RestPCs
<1>5. CASE NoReceipt(a)
  BY <1>2, <1>5, NothingWritten DEF NoReceipt, Basis
<1>6. CASE WriteFailed(a)
  <2> DEFINE p == [w.pos EXCEPT !.status = "failed", !.returned = Stake]
  <2>1. p.status = "failed" /\ p.buyHash = w.pos.buyHash /\ p.sellHash = w.pos.sellHash
    BY <1>1 DEF Position
  <2>2. Save(a, p) /\ Done(a) /\ w.pc \notin RestPCs \cup {"create"}
    BY <1>6 DEF WriteFailed, RestPCs
  <2> QED
    BY <1>1, <1>2, <2>1, <2>2, SaveBasis
<1>7. CASE WriteHolding(a)
  <2>1. PICK d \in Deals, p \in Position :
          /\ d = w.deal
          /\ p = [w.pos EXCEPT !.status = "holding",
                    !.acquired = AtLeastOne(w.bal - w.pos.targetBefore)]
          /\ p.status = "holding" /\ p.buyHash = w.pos.buyHash /\ p.sellHash = w.pos.sellHash
    <3> DEFINE n == AtLeastOne(w.bal - w.pos.targetBefore)
               q == [w.pos EXCEPT !.status = "holding", !.acquired = n]
    <3>1. n \in Nat
      BY <1>1 DEF AtLeastOne, Task, Position
    <3>2. /\ q \in Position
          /\ q.status = "holding" /\ q.buyHash = w.pos.buyHash /\ q.sellHash = w.pos.sellHash
      BY <1>1, <3>1 DEF Position, Statuses
    <3>3. w.deal \in Deals
      BY <1>7 DEF WriteHolding, Basis, Named, RestPCs
    <3> QED
      BY <3>2, <3>3
  <2>2. Save(a, p) /\ w.pc \notin RestPCs \cup {"create"}
    BY <1>7, <2>1 DEF WriteHolding, RestPCs
  <2>3. Lasting /\ Rows' /\ d \in Deals /\ Exists(d, p)'
    BY <1>1, <2>1, <2>2, SaveBasis
  <2>4. CASE Done(a)
    BY <1>2, <2>3, <2>4
  <2>5. CASE ~Done(a)
    <3>1. act' = [act EXCEPT ![a] = [At("exit") EXCEPT !.deal = d, !.pos = p]]
      BY <1>7, <2>1, <2>5 DEF WriteHolding
    <3>2. /\ act'[a].pc = "exit" /\ act'[a].deal = d /\ act'[a].pos = p
          /\ \A b \in Actors \ {a} : act'[b] = act[b]
      BY <1>1, <3>1 DEF At
    <3>3. Named(act[a])'
      BY <2>3, <3>2 DEF Named
    <3> QED
      BY <1>1, <2>3, <3>2, <3>3, BasisStep
  <2> QED
    BY <2>4, <2>5
<1>8. CASE WriteSellReverted(a)
  <2> DEFINE p == [w.pos EXCEPT !.status = "holding", !.sellHash = None, !.sellGas = @ + 1]
  <2>1. p.status = "holding" /\ p.buyHash = w.pos.buyHash /\ p.sellHash = None
    BY <1>1 DEF Position
  <2>2. Save(a, p) /\ Done(a) /\ w.pc \notin RestPCs \cup {"create"}
    BY <1>8 DEF WriteSellReverted, RestPCs
  <2> QED
    BY <1>1, <1>2, <2>1, <2>2, SaveBasis
<1>9. CASE WriteClosed(a)
  <2> DEFINE p == [w.pos EXCEPT !.status = "closed", !.sellGas = @ + 1,
                     !.returned = NonNegative(w.bal - w.pos.baseBefore)]
  <2>1. p.status = "closed" /\ p.buyHash = w.pos.buyHash /\ p.sellHash = w.pos.sellHash
    BY <1>1 DEF Position
  <2>2. Save(a, p) /\ Done(a) /\ w.pc \notin RestPCs \cup {"create"}
    BY <1>9 DEF WriteClosed, RestPCs
  <2> QED
    BY <1>1, <1>2, <2>1, <2>2, SaveBasis
<1> QED
  BY <1>3, <1>4, <1>5, <1>6, <1>7, <1>8, <1>9 DEF Settle

LEMMA ExitBasis == ASSUME Basis, TypeOK', NEW a \in Actors, Exit(a) PROVE Basis'
<1> DEFINE w == act[a]
<1>1. w \in Task /\ w.pos \in Position /\ act \in [Actors -> Task]
  BY DEF Basis, TypeOK, Task
<1>2. w.pc \notin RestPCs \cup {"create"} /\ w.deal \in Deals /\ Exists(w.deal, w.pos)
  BY DEF Exit, Postpone, AgreeToSell, ReadBaseBefore, SendSell, RecordSell, Basis, Named, RestPCs
<1>3. CASE Postpone(a)
  <2>1. UNCHANGED <<db, chain, queue>> /\ Done(a)
        /\ notices' \subseteq notices \cup {[deal |-> w.deal, pos |-> w.pos]}
    BY <1>3 DEF Postpone
  <2>2. act'[a].pc \in {"idle", "next"} /\ \A b \in Actors \ {a} : act'[b] = act[b]
    BY <1>1, <2>1 DEF Done, At
  <2>3. Named(act[a])' /\ Lasting /\ Rows'
    BY <2>1, <2>2, NothingWritten DEF Named, RestPCs, Basis
  <2> QED
    BY <1>2, <2>1, <2>2, <2>3, BasisStep
<1>4. CASE AgreeToSell(a) \/ ReadBaseBefore(a)
  <2>1. /\ act'[a].pc \in {"sellBalance", "sendSell"} /\ act'[a].deal = w.deal /\ act'[a].pos = w.pos
        /\ \A b \in Actors \ {a} : act'[b] = act[b]
    BY <1>1, <1>4 DEF AgreeToSell, ReadBaseBefore, Task
  <2>2. UNCHANGED <<db, chain, queue, notices>>
    BY <1>4 DEF AgreeToSell, ReadBaseBefore
  <2> QED
    BY <1>2, <2>1, <2>2, BasisGoes
<1>5. CASE SendSell(a)
  <2>1. PICK d \in Deals, p \in Position, h \in {Len(chain) + 1} :
          d = w.deal /\ p = w.pos /\ Exists(d, p)
    BY <1>1, <1>2 DEF Task
  <2>2. Lasting /\ Rows' /\ HasSell(d, h)' /\ UNCHANGED <<queue, notices>>
    BY <1>5, <2>1, TransactionAdded DEF SendSell, Basis, Exists
  <2>3. /\ act'[a].pc = "recordSell" /\ act'[a].tx = h /\ act'[a].deal = d /\ act'[a].pos = p
        /\ \A b \in Actors \ {a} : act'[b] = act[b]
    BY <1>1, <1>5, <2>1 DEF SendSell, Task
  <2>4. Exists(d, p)'
    BY <2>1, <2>2, ExistsKept
  <2>5. Named(act[a])'
    BY <2>2, <2>3, <2>4 DEF Named
  <2> QED
    BY <2>2, <2>3, <2>5, BasisStep
<1>6. CASE RecordSell(a)
  <2>1. PICK d \in Deals, p \in Position :
          /\ d = w.deal
          /\ p = [w.pos EXCEPT !.status = "selling", !.sellHash = w.tx, !.baseBefore = w.bal]
          /\ p.status = "selling" /\ p.buyHash = w.pos.buyHash /\ p.sellHash = w.tx
    <3> DEFINE q == [w.pos EXCEPT !.status = "selling", !.sellHash = w.tx, !.baseBefore = w.bal]
    <3>1. q \in Position /\ q.status = "selling" /\ q.buyHash = w.pos.buyHash /\ q.sellHash = w.tx
      BY <1>1 DEF Position, Statuses, Task
    <3> QED
      BY <1>2, <3>1
  <2>2. Save(a, p) /\ HasSell(d, w.tx) /\ UNCHANGED <<chain, queue, notices>>
    BY <1>6, <2>1 DEF RecordSell, Basis, Named
  <2>3. Lasting /\ Rows' /\ Exists(d, p)'
    BY <1>2, <2>1, <2>2, SaveBasis
  <2>4. /\ act'[a].pc = "waitSell" /\ act'[a].deal = d /\ act'[a].pos = p
        /\ \A b \in Actors \ {a} : act'[b] = act[b]
    BY <1>1, <1>6, <2>1 DEF RecordSell, Task
  <2>5. Named(act[a])'
    BY <2>1, <2>3, <2>4 DEF Named
  <2> QED
    BY <2>2, <2>3, <2>4, <2>5, BasisStep
<1> QED
  BY <1>3, <1>4, <1>5, <1>6 DEF Exit

LEMMA WatchBasis == ASSUME Basis, TypeOK', Watch PROVE Basis'
<1>1. act \in [Actors -> Task] /\ "watcher" \in Actors
  BY DEF Basis, TypeOK, Actors
<1>2. CASE Tick
  <2>1. UNCHANGED <<db, chain, notices>> /\ queue' = OpenRows
    BY <1>2 DEF Tick
  <2>2. act'["watcher"].pc = "next" /\ \A b \in Actors \ {"watcher"} : act'[b] = act[b]
    BY <1>1, <1>2 DEF Tick, At
  <2>3. \A s \in OpenRows : s.deal \in Deals /\ Exists(s.deal, s.pos)
    BY DEF OpenRows, IsOpen, OpenStatuses, Exists, Basis, Rows
  <2>4. Named(act["watcher"])' /\ Lasting /\ Rows'
    BY <2>1, <2>2, NothingWritten DEF Named, RestPCs, Basis
  <2> QED
    BY <1>1, <2>1, <2>2, <2>3, <2>4, BasisStep
<1>3. CASE Advance
  <2>1. PICK s \in queue :
          /\ UNCHANGED <<db, chain, notices>> /\ queue' \subseteq queue
          /\ \/ UNCHANGED act
             \/ \E pc \in {"waitBuy", "waitSell", "exit"}, h \in {s.pos.buyHash, s.pos.sellHash, None} :
                  act' = [act EXCEPT !["watcher"] =
                            [At(pc) EXCEPT !.deal = s.deal, !.pos = s.pos, !.tx = h]]
    BY <1>3 DEF Advance
  <2>2. s.deal \in Deals /\ Exists(s.deal, s.pos)
    BY DEF Basis, TypeOK, Snapshot
  <2>3. Lasting /\ Rows'
    BY <2>1, NothingWritten DEF Basis
  <2>4. CASE UNCHANGED act
    <3>1. act["watcher"].pc = "next"
      BY <1>3 DEF Advance
    <3>2. Named(act["watcher"])'
      BY <2>4, <3>1 DEF Named, RestPCs
    <3> QED
      BY <1>1, <2>1, <2>3, <2>4, <3>2, BasisStep
  <2>5. CASE ~UNCHANGED act
    <3>1. PICK pc \in {"waitBuy", "waitSell", "exit"} :
            /\ act'["watcher"].pc = pc /\ act'["watcher"].deal = s.deal /\ act'["watcher"].pos = s.pos
            /\ \A b \in Actors \ {"watcher"} : act'[b] = act[b]
      BY <1>1, <2>1, <2>5 DEF At
    <3>2. Named(act["watcher"])'
      BY <2>2, <2>3, <3>1, ExistsKept DEF Named
    <3> QED
      BY <1>1, <2>1, <2>3, <3>1, <3>2, BasisStep
  <2> QED
    BY <2>4, <2>5
<1>4. CASE EndTick
  <2>1. UNCHANGED <<db, chain, queue, notices>>
        /\ \E pc \in RestPCs : act' = [act EXCEPT !["watcher"] = At(pc)]
    BY <1>4 DEF EndTick, RestPCs
  <2> QED
    BY <1>1, <2>1, NothingWritten, BasisDone DEF Basis
<1>5. CASE MarkNotified
  <2>1. PICK s \in notices :
          /\ db' = [db EXCEPT ![s.deal] = [s.pos EXCEPT !.notified = TRUE]]
          /\ UNCHANGED <<chain, queue>> /\ notices' \subseteq notices
          /\ \E pc \in RestPCs : act' = [act EXCEPT !["watcher"] = At(pc)]
    BY <1>5 DEF MarkNotified, RestPCs
  <2>2. s.deal \in Deals /\ s.pos \in Position /\ Exists(s.deal, s.pos)
    BY DEF Basis, TypeOK, Snapshot
  <2>3. PICK p \in Position :
          /\ p = [s.pos EXCEPT !.notified = TRUE]
          /\ p.status = s.pos.status /\ p.buyHash = s.pos.buyHash /\ p.sellHash = s.pos.sellHash
    <3> DEFINE q == [s.pos EXCEPT !.notified = TRUE]
    <3>1. /\ q \in Position
          /\ q.status = s.pos.status /\ q.buyHash = s.pos.buyHash /\ q.sellHash = s.pos.sellHash
      BY <2>2 DEF Position
    <3> QED
      BY <3>1
  <2>4. p.status # "absent" /\ Own(s.deal, p)
    BY <2>2, <2>3 DEF Exists, Own
  <2>5. Lasting /\ Rows'
    BY <2>1, <2>2, <2>3, <2>4, RowWritten DEF Basis
  <2> QED
    BY <1>1, <2>1, <2>5, BasisDone
<1> QED
  BY <1>2, <1>3, <1>4, <1>5 DEF Watch

LEMMA FaultBasis ==
  ASSUME Basis, TypeOK', NEW a \in Actors, Join(a) \/ Raise(a) \/ SendUnanswered(a) \/ Restart
  PROVE  Basis'
<1>1. CASE Join(a) \/ Raise(a)
  <2>1. /\ UNCHANGED <<db, chain, queue>> /\ notices' \subseteq notices
        /\ \E pc \in RestPCs : act' = [act EXCEPT ![a] = At(pc)]
    BY <1>1 DEF Join, Raise, Done, RestPCs
  <2> QED
    BY <2>1, NothingWritten, BasisDone DEF Basis
<1>2. CASE SendUnanswered(a)
  <2>1. act[a].deal \in Deals /\ Exists(act[a].deal, act[a].pos)
    BY <1>2 DEF SendUnanswered, Basis, Named, RestPCs
  <2>2. Lasting /\ Rows'
    BY <1>2, <2>1, TransactionAdded DEF SendUnanswered, Basis, Exists
  <2>3. UNCHANGED <<queue, notices>> /\ \E pc \in RestPCs : act' = [act EXCEPT ![a] = At(pc)]
    BY <1>2 DEF SendUnanswered, Done, RestPCs
  <2> QED
    BY <2>2, <2>3, BasisDone
<1>3. CASE Restart
  <2>1. UNCHANGED <<db, chain>> /\ queue' = {} /\ notices' = {} /\ \A b \in Actors : act'[b].pc = "idle"
    BY <1>3 DEF Restart, At
  <2> QED
    BY <2>1, NothingWritten DEF Basis, Named, RestPCs
<1> QED
  BY <1>1, <1>2, <1>3

LEMMA BasisKept == ASSUME Basis, [Next]_vars PROVE Basis'
<1>1. TypeOK'
  BY TypeKept
<1>2. CASE UNCHANGED vars
  BY <1>1, <1>2, NothingWritten DEF vars, Basis, Named, Exists, Own, HasBuy, HasSell
<1>3. CASE Mine
  <2>1. UNCHANGED <<db, act, queue, notices>> /\ \E h \in 1..Len(chain), outcome \in {"succeeded", "reverted"} :
          chain' = [chain EXCEPT ![h].outcome = outcome]
    BY <1>3 DEF Mine
  <2>2. Lasting /\ Rows'
    BY <2>1, TransactionMined DEF Basis
  <2>3. "watcher" \in Actors
    BY DEF Actors
  <2>4. PICK w : w = act["watcher"]
    OBVIOUS
  <2>5. Named(w)'
    <3>1. w.pc \notin RestPCs \cup {"create"} => Exists(w.deal, w.pos)'
      BY <2>2, <2>3, <2>4, ExistsKept DEF Basis, Named
    <3> QED
      BY <2>2, <2>3, <2>4, <3>1 DEF Named, Basis, Lasting, HasBuy, HasSell
  <2> QED
    BY <1>1, <2>1, <2>2, <2>3, <2>4, <2>5, BasisStep
<1> QED
  BY <1>1, <1>2, <1>3, OpenBasis, SettleBasis, ExitBasis, WatchBasis, FaultBasis DEF Next, Actors

LEMMA InitBasis == Init => Basis
<1> SUFFICES ASSUME Init PROVE Basis
  OBVIOUS
<1>1. Absent \in Position /\ At("idle") \in Task
  BY AtType DEF PCs, Absent, Position, Statuses, None
<1>2. TypeOK
  BY <1>1, AmountsAssumption DEF Init, TypeOK
<1>3. Len(chain) = 0 /\ \A d \in Deals : db[d].buyHash = None /\ db[d].sellHash = None
  BY DEF Init, Absent
<1>4. \A a \in Actors : act[a].pc = "idle"
  BY DEF Init, At
<1>5. Rows
  BY <1>3 DEF Rows, RecordedBeforeSent, Own
<1> QED
  BY <1>2, <1>4, <1>5 DEF Basis, Init, Named, RestPCs

(***************************************************************************)
(* Every step preserves the invariant, if a query for a receipt is answered *)
(* with the receipt it asked for.                                           *)
(***************************************************************************)
(* The step stays away from deals whose buy is not recorded.                *)
Aside ==
  /\ \A d \in Deals : db[d].buyHash = None => db'[d] = db[d]
  /\ \A h \in 1..Len(chain') : h \notin 1..Len(chain) => db[chain'[h].deal].buyHash # None

LEMMA OpeningKept ==
  ASSUME TypeOK, Stored, Extends, Aside, NEW w \in Task, OpeningOK(w)
  PROVE  OpeningOK(w)'
<1>1. CASE w.pc = "create"
  BY <1>1 DEF OpeningOK, Aside, Stored, RowsTruthful, Truthful
<1>2. CASE w.pc = "sendBuy"
  <2>1. Unrecorded(w) /\ \A h \in 1..Len(chain) : chain[h].deal # w.deal
    BY <1>2 DEF OpeningOK
  <2>2. Unrecorded(w)'
    BY <2>1 DEF Unrecorded, Aside
  <2>3. ASSUME NEW h \in 1..Len(chain') PROVE chain'[h].deal # w.deal
    BY <2>1 DEF Extends, Aside, Unrecorded
  <2> QED
    BY <1>2, <2>2, <2>3 DEF OpeningOK
<1>3. CASE w.pc = "recordBuy"
  BY <1>3 DEF OpeningOK, Unrecorded, Aside, HasBuy, Extends
<1> QED
  BY <1>1, <1>2, <1>3 DEF OpeningOK

(* A step of one task: what remains to show of it.                          *)
LEMMA StepKept ==
  ASSUME IInv, TypeOK', Stored', Queued', Noticed', Extends, HashesKept, NEW a \in Actors,
         \A b \in Actors \ {a} : act'[b] = act[b],
         a = "executor" => OpeningOK(act["executor"])',
         a = "watcher" => Aside,
         WorkingOK(act[a])',
         Roles'
  PROVE  IInv'
<1>1. \A b \in Actors : act[b] \in Task
  BY DEF IInv, TypeOK
<1>2. Opening'
  <2>1. CASE a = "executor"
    BY <2>1 DEF Opening
  <2>2. CASE a = "watcher"
    BY <1>1, <2>2, OpeningKept DEF Opening, IInv, Actors
  <2> QED
    BY <2>1, <2>2 DEF Actors
<1>3. Working'
  <2> SUFFICES ASSUME NEW b \in Actors PROVE WorkingOK(act[b])'
    BY DEF Working
  <2>1. CASE b = a
    BY <2>1
  <2>2. CASE b # a
    BY <1>1, <2>2, WorkingKept DEF Working, IInv
  <2> QED
    BY <2>1, <2>2
<1> QED
  BY <1>2, <1>3 DEF IInv

(* The task drops its deal.                                                 *)
LEMMA DoneKept ==
  ASSUME IInv, TypeOK', Stored', Extends, HashesKept, NEW a \in Actors, Done(a), Aside,
         queue' \subseteq queue, notices' \subseteq notices
  PROVE  IInv'
<1>1. act'[a] = At(IF a = "executor" THEN "idle" ELSE "next") /\ \A b \in Actors \ {a} : act'[b] = act[b]
  BY DEF Done, IInv, TypeOK
<1>2. act'[a].pc = IF a = "executor" THEN "idle" ELSE "next"
  BY <1>1 DEF At
<1>3. WorkingOK(act[a])' /\ OpeningOK(act[a])'
  BY <1>2 DEF WorkingOK, OpeningOK, WorkingPCs, BuyPCs, ExitPCs, SalePCs
<1>4. Roles'
  BY <1>1, <1>2 DEF Roles, IInv, Actors
<1>5. Queued' /\ Noticed'
  BY QueuedKept DEF IInv
<1> QED
  BY <1>1, <1>3, <1>4, <1>5, StepKept

(* The task goes on with its deal, and saves nothing.                       *)
LEMMA GoKept ==
  ASSUME IInv, TypeOK', UNCHANGED <<db, chain, queue, notices>>, NEW a \in Actors,
         \A b \in Actors \ {a} : act'[b] = act[b],
         act'[a].pc \in WorkingPCs, WorkingOK(act[a])'
  PROVE  IInv'
<1>1. Stored' /\ Extends /\ HashesKept
  BY NothingStored DEF IInv
<1>2. Aside
  BY DEF Aside
<1>3. Queued' /\ Noticed'
  BY <1>1, QueuedKept DEF IInv
<1>4. OpeningOK(act[a])'
  BY DEF OpeningOK, WorkingPCs, BuyPCs, ExitPCs, SalePCs
<1>5. Roles'
  BY DEF Roles, IInv, Actors
<1> QED
  BY <1>1, <1>2, <1>3, <1>4, <1>5, StepKept

(* It saves a copy of its row that is as truthful as the one it has.        *)
LEMMA SaveKept ==
  ASSUME IInv, TypeOK', UNCHANGED <<chain, queue, notices>>, NEW a \in Actors, NEW p \in Position,
         NEW d \in Deals, act[a].deal = d, Current(d, p), Save(a, p)
  PROVE  /\ Stored' /\ Extends /\ HashesKept /\ Aside /\ Queued' /\ Noticed'
         /\ Current(d, p)'
<1>1. db' = [db EXCEPT ![d] = p]
  BY DEF Save
<1>2. Stored' /\ Extends /\ HashesKept
  BY <1>1, CopySaved DEF IInv
<1>3. Aside
  BY <1>1 DEF Aside, Current, IInv, TypeOK
<1>4. Queued' /\ Noticed'
  BY <1>2, QueuedKept DEF IInv
<1>5. Current(d, p)'
  BY <1>2, CurrentKept
<1> QED
  BY <1>2, <1>3, <1>4, <1>5

LEMMA SettleKept ==
  ASSUME IInv, TypeOK', ~merging, NEW a \in Actors, Settle(a)
  PROVE  IInv'
<1> DEFINE w == act[a]
           pos == act[a].pos
<1>1. w \in Task /\ pos \in Position /\ act \in [Actors -> Task]
  BY DEF IInv, TypeOK, Task
<1>2. WorkingOK(w)
  BY DEF IInv, Working
<1>3. w.pc \in WorkingPCs => w.deal \in Deals /\ Current(w.deal, pos)
  BY <1>2 DEF WorkingOK
<1>4. CASE BuyReceipt(a)
  <2>1. PICK pc \in {"buyMined", "buyReverted"} :
          /\ act' = [act EXCEPT ![a].pc = pc] /\ w.pc = "waitBuy"
          /\ pc = "buyMined" => Outcome(w.tx) = "succeeded"
          /\ pc = "buyReverted" => Outcome(w.tx) = "reverted"
    BY <1>4 DEF BuyReceipt, Go, Answers
  <2>2. /\ Current(w.deal, pos) /\ w.deal \in Deals /\ pos.status = "buying"
        /\ w.tx = pos.buyHash
    BY <1>2, <2>1 DEF WorkingOK, WorkingPCs, BuyPCs
  <2>3. act'[a].pc = pc /\ act'[a].deal = w.deal /\ act'[a].pos = pos
    BY <1>1, <2>1 DEF Task
  <2>4. UNCHANGED <<db, chain, queue, notices>>
    BY <1>4 DEF BuyReceipt
  <2>5. WorkingOK(act[a])'
    BY <2>1, <2>2, <2>3, <2>4 DEF WorkingOK, Current, Truthful, HasBuy, HasSell, Outcome,
       BuyPCs, ExitPCs, SalePCs
  <2> QED
    BY <1>1, <2>1, <2>3, <2>4, <2>5, GoKept DEF WorkingPCs, BuyPCs
<1>5. CASE NoReceipt(a)
  <2>1. Stored' /\ Extends /\ HashesKept /\ Aside
    BY <1>5, NothingStored DEF NoReceipt, IInv, Aside
  <2> QED
    BY <1>5, <2>1, DoneKept DEF NoReceipt
<1>6. CASE WriteFailed(a)
  <2> DEFINE p == [pos EXCEPT !.status = "failed", !.returned = Stake]
  <2>1. p \in Position /\ p.buyHash = pos.buyHash /\ p.sellHash = pos.sellHash /\ p.status = "failed"
    BY <1>1, AmountsAssumption DEF Position, Statuses
  <2>2. w.deal \in Deals /\ Current(w.deal, pos) /\ Outcome(pos.buyHash) = "reverted"
    BY <1>2, <1>6 DEF WriteFailed, WorkingOK, WorkingPCs, BuyPCs
  <2>3. Current(w.deal, p)
    BY <2>1, <2>2 DEF Current, Truthful
  <2>4. Stored' /\ Extends /\ HashesKept /\ Aside
    BY <1>6, <2>1, <2>2, <2>3, SaveKept DEF WriteFailed
  <2> QED
    BY <1>6, <2>4, DoneKept DEF WriteFailed
<1>7. CASE ReadAcquired(a)
  <2>1. /\ w.pc = "buyMined" /\ Current(w.deal, pos) /\ w.deal \in Deals /\ pos.status = "buying"
        /\ Outcome(pos.buyHash) = "succeeded"
    BY <1>2, <1>7 DEF ReadAcquired, WorkingOK, WorkingPCs, BuyPCs
  <2>2. /\ act'[a].pc = "acquired" /\ act'[a].deal = w.deal /\ act'[a].pos = pos
        /\ \A b \in Actors \ {a} : act'[b] = act[b]
    BY <1>1, <1>7 DEF ReadAcquired, Task
  <2>3. UNCHANGED <<db, chain, queue, notices>>
    BY <1>7 DEF ReadAcquired
  <2>4. WorkingOK(act[a])'
    BY <2>1, <2>2, <2>3 DEF WorkingOK, Current, Truthful, HasBuy, HasSell, Outcome,
       BuyPCs, ExitPCs, SalePCs
  <2> QED
    BY <2>2, <2>3, <2>4, GoKept DEF WorkingPCs, BuyPCs
<1>8. CASE WriteHolding(a)
  <2> DEFINE n == AtLeastOne(act[a].bal - pos.targetBefore)
  <2>0. n \in Nat
    BY <1>1 DEF AtLeastOne, Task, Position
  <2>1. PICK p \in Position :
          /\ p = [pos EXCEPT !.status = "holding", !.acquired = n]
          /\ p.buyHash = pos.buyHash /\ p.sellHash = pos.sellHash /\ p.status = "holding"
    <3> DEFINE q == [pos EXCEPT !.status = "holding", !.acquired = n]
    <3>1. /\ q \in Position /\ q.buyHash = pos.buyHash /\ q.sellHash = pos.sellHash
          /\ q.status = "holding"
      BY <1>1, <2>0 DEF Position, Statuses
    <3> QED
      BY <3>1
  <2>2. PICK d \in Deals : /\ d = w.deal /\ Current(d, pos) /\ pos.status = "buying"
                           /\ Outcome(pos.buyHash) = "succeeded"
    BY <1>2, <1>8 DEF WriteHolding, WorkingOK, WorkingPCs, BuyPCs
  <2>3. Current(d, p)
    BY <2>1, <2>2 DEF Current, Truthful
  <2>4. Save(a, p) /\ UNCHANGED <<chain, queue, notices>>
    BY <1>8, <2>1 DEF WriteHolding
  <2>5. /\ Stored' /\ Extends /\ HashesKept /\ Aside /\ Queued' /\ Noticed'
        /\ Current(d, p)'
    BY <2>1, <2>2, <2>3, <2>4, SaveKept
  <2>6. CASE a = "watcher"
    BY <1>8, <2>4, <2>5, <2>6, DoneKept DEF WriteHolding
  <2>7. CASE a = "executor"
    <3>1. act' = [act EXCEPT ![a] = [At("exit") EXCEPT !.deal = d, !.pos = p]]
      BY <1>8, <2>1, <2>2, <2>7 DEF WriteHolding
    <3>2. /\ act'[a].pc = "exit" /\ act'[a].deal = d /\ act'[a].pos = p
          /\ \A b \in Actors \ {a} : act'[b] = act[b]
      BY <1>1, <3>1 DEF At
    <3>3. WorkingOK(act[a])' /\ OpeningOK(act[a])'
      BY <2>1, <2>2, <2>5, <3>2 DEF WorkingOK, OpeningOK, BuyPCs, ExitPCs, SalePCs
    <3>4. Roles'
      BY <2>7, <3>2 DEF IInv, Roles, WorkingPCs, ExitPCs, Actors
    <3> QED
      BY <2>5, <2>7, <3>2, <3>3, <3>4, StepKept
  <2> QED
    BY <2>6, <2>7 DEF Actors
<1>9. CASE SellReceipt(a)
  <2>1. PICK pc \in {"sellMined", "sellReverted"} :
          /\ act' = [act EXCEPT ![a].pc = pc] /\ w.pc = "waitSell"
          /\ pc = "sellMined" => Outcome(w.tx) = "succeeded"
    BY <1>9 DEF SellReceipt, Go, Answers
  <2>2. /\ Current(w.deal, pos) /\ w.deal \in Deals /\ pos.status = "selling"
        /\ w.tx = pos.sellHash
    BY <1>2, <2>1 DEF WorkingOK, WorkingPCs, SalePCs
  <2>3. act'[a].pc = pc /\ act'[a].deal = w.deal /\ act'[a].pos = pos
    BY <1>1, <2>1 DEF Task
  <2>4. UNCHANGED <<db, chain, queue, notices>>
    BY <1>9 DEF SellReceipt
  <2>5. WorkingOK(act[a])'
    BY <2>1, <2>2, <2>3, <2>4 DEF WorkingOK, Current, Truthful, HasBuy, HasSell, Outcome,
       BuyPCs, ExitPCs, SalePCs
  <2> QED
    BY <1>1, <2>1, <2>3, <2>4, <2>5, GoKept DEF WorkingPCs, SalePCs
<1>10. CASE WriteSellReverted(a)
  <2> DEFINE n == pos.sellGas + 1
             p == [pos EXCEPT !.status = "holding", !.sellHash = None, !.sellGas = n]
  <2>0. n \in Nat
    BY <1>1 DEF Position
  <2>1. p \in Position /\ p.buyHash = pos.buyHash /\ p.sellHash = None /\ p.status = "holding"
    BY <1>1, <2>0 DEF Position, Statuses, None
  <2>2. w.deal \in Deals /\ Current(w.deal, pos) /\ pos.status = "selling"
    BY <1>2, <1>10 DEF WriteSellReverted, WorkingOK, WorkingPCs, SalePCs
  <2>3. Current(w.deal, p)
    BY <2>1, <2>2 DEF Current, Truthful
  <2>4. Stored' /\ Extends /\ HashesKept /\ Aside
    BY <1>10, <2>1, <2>2, <2>3, SaveKept DEF WriteSellReverted
  <2> QED
    BY <1>10, <2>4, DoneKept DEF WriteSellReverted
<1>11. CASE ReadBaseAfter(a)
  <2>1. /\ w.pc = "sellMined" /\ Current(w.deal, pos) /\ w.deal \in Deals /\ pos.status = "selling"
        /\ Outcome(pos.sellHash) = "succeeded"
    BY <1>2, <1>11 DEF ReadBaseAfter, WorkingOK, WorkingPCs, SalePCs
  <2>2. /\ act'[a].pc = "returned" /\ act'[a].deal = w.deal /\ act'[a].pos = pos
        /\ \A b \in Actors \ {a} : act'[b] = act[b]
    BY <1>1, <1>11 DEF ReadBaseAfter, Task
  <2>3. UNCHANGED <<db, chain, queue, notices>>
    BY <1>11 DEF ReadBaseAfter
  <2>4. WorkingOK(act[a])'
    BY <2>1, <2>2, <2>3 DEF WorkingOK, Current, Truthful, HasBuy, HasSell, Outcome,
       BuyPCs, ExitPCs, SalePCs
  <2> QED
    BY <2>2, <2>3, <2>4, GoKept DEF WorkingPCs, SalePCs
<1>12. CASE WriteClosed(a)
  <2> DEFINE m == pos.sellGas + 1
             n == NonNegative(act[a].bal - pos.baseBefore)
             p == [pos EXCEPT !.status = "closed", !.sellGas = m, !.returned = n]
  <2>0. m \in Nat /\ n \in Nat
    BY <1>1 DEF NonNegative, Task, Position
  <2>1. p \in Position /\ p.buyHash = pos.buyHash /\ p.sellHash = pos.sellHash /\ p.status = "closed"
    BY <1>1, <2>0 DEF Position, Statuses
  <2>2. /\ w.deal \in Deals /\ Current(w.deal, pos) /\ pos.status = "selling"
        /\ Outcome(pos.sellHash) = "succeeded"
    BY <1>2, <1>12 DEF WriteClosed, WorkingOK, WorkingPCs, SalePCs
  <2>3. Current(w.deal, p)
    BY <2>1, <2>2 DEF Current, Truthful
  <2>4. Stored' /\ Extends /\ HashesKept /\ Aside
    BY <1>12, <2>1, <2>2, <2>3, SaveKept DEF WriteClosed
  <2> QED
    BY <1>12, <2>4, DoneKept DEF WriteClosed
<1> QED
  BY <1>4, <1>5, <1>6, <1>7, <1>8, <1>9, <1>10, <1>11, <1>12 DEF Settle

(* A sale of bought tokens is accepted, whether or not the sender learns it. *)
LEMMA SaleAccepted ==
  ASSUME IInv, NEW d \in Deals, NEW p \in Position, Current(d, p), p.status = "holding",
         NEW amount \in Nat, NEW price \in Nat, Accept(d, "sell", amount, price),
         Pays(price), UNCHANGED db, NEW h \in Nat, h = Len(chain) + 1
  PROVE  Stored' /\ Extends /\ HashesKept /\ Aside /\ HasSell(d, h)'
<1>1. PICK tx \in Transaction :
        tx.deal = d /\ tx.kind = "sell" /\ tx.price = price /\ chain' = Append(chain, tx)
  BY DEF Accept, Transaction
<1>2. db[d].buyHash # None /\ Outcome(db[d].buyHash) = "succeeded" /\ db[d].status # "absent"
  BY DEF Current, Truthful, IInv, Stored, RowsTruthful
<1>3. Stored' /\ Extends /\ HashesKept
  BY <1>1, <1>2, TransactionSent DEF IInv
<1>4. Len(chain) \in Nat /\ Len(chain') = h /\ chain'[h] = tx
  BY <1>1 DEF IInv, TypeOK
<1>5. HasSell(d, h)'
  BY <1>1, <1>4 DEF HasSell
<1>6. Aside
  BY <1>1, <1>2, <1>4 DEF Aside
<1> QED
  BY <1>3, <1>5, <1>6

(* The condition to sell counts the gas of at least the buy and the sale.   *)
LEMMA ProfitCovers ==
  ASSUME NEW p, p.sellGas \in Nat, NEW offer \in Nat, NEW a \in Actors,
         ProfitIfSold(p, offer) >= Needed(a)
  PROVE  Pays(offer)
<1>1. Needed(a) \in Int /\ Needed(a) >= MinExitProfitWaiting
  BY ThresholdsAssumption DEF Needed
<1>2. Gas * (p.sellGas + 2) \in Int /\ Gas * (p.sellGas + 2) >= 2 * Gas
  BY AmountsAssumption
<1> QED
  BY <1>1, <1>2, AmountsAssumption, ThresholdsAssumption DEF ProfitIfSold, Pays

LEMMA ExitKept == ASSUME IInv, TypeOK', NEW a \in Actors, Exit(a) PROVE IInv'
<1> DEFINE w == act[a]
           pos == act[a].pos
<1>1. w \in Task /\ pos \in Position /\ act \in [Actors -> Task]
  BY DEF IInv, TypeOK, Task
<1>2. /\ w.pc \in ExitPCs
      /\ w.deal \in Deals /\ Current(w.deal, pos) /\ pos.status = "holding"
      /\ w.pc = "recordSell" => HasSell(w.deal, w.tx)
      /\ w.pc \in {"sellBalance", "sendSell"} => Pays(w.offer)
  BY DEF Exit, Postpone, AgreeToSell, ReadBaseBefore, SendSell, RecordSell, ExitPCs, WorkingPCs,
     IInv, Working, WorkingOK
<1>4. CASE Postpone(a)
  <2>1. Stored' /\ Extends /\ HashesKept /\ Aside
    BY <1>4, NothingStored DEF Postpone, IInv, Aside
  <2>2. WorkingOK(act[a])' /\ OpeningOK(act[a])' /\ Roles' /\ \A b \in Actors \ {a} : act'[b] = act[b]
    BY <1>1, <1>4 DEF Postpone, Done, At, WorkingOK, OpeningOK, WorkingPCs, BuyPCs, ExitPCs, SalePCs,
       Roles, IInv, Actors
  <2>3. Queued'
    BY <1>4 DEF Postpone, IInv, Queued, Current, Truthful, HasBuy, HasSell, Outcome
  <2>4. Noticed'
    <3>1. ASSUME NEW s \in notices' PROVE Current(s.deal, s.pos) /\ s.pos.status = "holding"
      BY <1>2, <1>4, <3>1 DEF Postpone, IInv, Noticed
    <3> QED
      BY <1>4, <3>1 DEF Postpone, Noticed, Current, Truthful, HasBuy, HasSell, Outcome
  <2> QED
    BY <2>1, <2>2, <2>3, <2>4, StepKept
<1>5. CASE AgreeToSell(a) \/ ReadBaseBefore(a)
  <2>1. /\ act'[a].pc \in {"sellBalance", "sendSell"} /\ act'[a].deal = w.deal /\ act'[a].pos = pos
        /\ \A b \in Actors \ {a} : act'[b] = act[b]
    BY <1>1, <1>5 DEF AgreeToSell, ReadBaseBefore, Task
  <2>2. UNCHANGED <<db, chain, queue, notices>>
    BY <1>5 DEF AgreeToSell, ReadBaseBefore
  <2>3. Pays(act'[a].offer)
    <3>1. CASE AgreeToSell(a)
      <4>1. PICK offer \in Offers : /\ ProfitIfSold(pos, offer) >= Needed(a)
                                    /\ act' = [act EXCEPT ![a].pc = "sellBalance", ![a].offer = offer]
        BY <3>1 DEF AgreeToSell
      <4>2. act'[a].offer = offer
        BY <1>1, <4>1 DEF Task
      <4>3. offer \in Nat /\ pos.sellGas \in Nat
        BY <1>1, AmountsAssumption DEF Position
      <4> QED
        BY <4>1, <4>2, <4>3, ProfitCovers
    <3>2. CASE ReadBaseBefore(a)
      BY <1>1, <1>2, <3>2 DEF ReadBaseBefore, Task
    <3> QED
      BY <1>5, <3>1, <3>2
  <2>4. WorkingOK(act[a])'
    BY <1>2, <2>1, <2>2, <2>3 DEF WorkingOK, Current, Truthful, HasBuy, HasSell, Outcome, Pays,
       BuyPCs, ExitPCs, SalePCs
  <2> QED
    BY <2>1, <2>2, <2>4, GoKept DEF WorkingPCs, ExitPCs
<1>6. CASE SendSell(a)
  <2>1. /\ act'[a].pc = "recordSell" /\ act'[a].deal = w.deal /\ act'[a].pos = pos
        /\ act'[a].tx = Len(chain) + 1 /\ \A b \in Actors \ {a} : act'[b] = act[b]
    BY <1>1, <1>6 DEF SendSell, Task
  <2>2. Accept(w.deal, "sell", pos.acquired, w.offer) /\ UNCHANGED <<db, queue, notices>>
    BY <1>6 DEF SendSell
  <2>3. PICK d \in Deals, p \in Position, h \in Nat : d = w.deal /\ p = pos /\ h = Len(chain) + 1
    BY <1>1, <1>2 DEF IInv, TypeOK
  <2>4. Stored' /\ Extends /\ HashesKept /\ Aside /\ HasSell(d, h)'
    BY <1>1, <1>2, <1>6, <2>2, <2>3, SaleAccepted DEF SendSell, Task, Position
  <2>5. Current(d, p)'
    BY <1>2, <2>3, <2>4, CurrentKept
  <2>6. WorkingOK(act[a])'
    BY <1>2, <2>1, <2>3, <2>4, <2>5 DEF WorkingOK, BuyPCs, ExitPCs, SalePCs
  <2>7. Queued' /\ Noticed' /\ OpeningOK(act[a])' /\ Roles'
    BY <2>1, <2>2, <2>4, QueuedKept DEF OpeningOK, Roles, WorkingPCs, ExitPCs, IInv, Actors
  <2> QED
    BY <2>1, <2>4, <2>6, <2>7, StepKept
<1>7. CASE RecordSell(a)
  <2>1. PICK p \in Position :
          /\ p = [pos EXCEPT !.status = "selling", !.sellHash = w.tx, !.baseBefore = w.bal]
          /\ p.buyHash = pos.buyHash /\ p.sellHash = w.tx /\ p.status = "selling"
    <3> DEFINE q == [pos EXCEPT !.status = "selling", !.sellHash = w.tx, !.baseBefore = w.bal]
    <3>1. q \in Position /\ q.buyHash = pos.buyHash /\ q.sellHash = w.tx /\ q.status = "selling"
      BY <1>1 DEF Position, Statuses, Task
    <3> QED
      BY <3>1
  <2>2. PICK d \in Deals : d = w.deal /\ Current(d, pos) /\ HasSell(d, w.tx)
    BY <1>2, <1>7 DEF RecordSell
  <2>3. Current(d, p) /\ p.sellHash # None
    BY <1>2, <2>1, <2>2 DEF Current, Truthful, HasSell, None
  <2>4. Save(a, p) /\ UNCHANGED <<chain, queue, notices>>
    BY <1>7, <2>1 DEF RecordSell
  <2>5. /\ Stored' /\ Extends /\ HashesKept /\ Aside /\ Queued' /\ Noticed'
        /\ Current(d, p)'
    BY <2>1, <2>2, <2>3, <2>4, SaveKept
  <2>6. /\ act'[a].pc = "waitSell" /\ act'[a].deal = d /\ act'[a].pos = p /\ act'[a].tx = p.sellHash
        /\ \A b \in Actors \ {a} : act'[b] = act[b]
    BY <1>1, <1>7, <2>1, <2>2 DEF RecordSell, Task
  <2>7. WorkingOK(act[a])' /\ OpeningOK(act[a])' /\ Roles'
    BY <2>1, <2>3, <2>5, <2>6 DEF WorkingOK, OpeningOK, Roles, WorkingPCs, BuyPCs, ExitPCs, SalePCs,
       IInv, Actors
  <2> QED
    BY <2>5, <2>6, <2>7, StepKept
<1> QED
  BY <1>4, <1>5, <1>6, <1>7 DEF Exit

(* The one buy of a deal is accepted, whether or not the sender learns it.  *)
LEMMA BuyAccepted ==
  ASSUME IInv, NEW d \in Deals, db[d].status = "buying", db[d].buyHash = None,
         \A g \in 1..Len(chain) : chain[g].deal # d,
         Accept(d, "buy", Lot, Stake), UNCHANGED db, NEW h \in Nat, h = Len(chain) + 1
  PROVE  Stored' /\ Extends /\ HashesKept /\ HasBuy(d, h)'
<1>1. PICK tx \in Transaction :
        tx.deal = d /\ tx.kind = "buy" /\ chain' = Append(chain, tx)
  BY AmountsAssumption DEF Accept, Transaction
<1>2. Stored' /\ Extends /\ HashesKept
  BY <1>1, TransactionSent DEF IInv
<1>3. Len(chain) \in Nat /\ Len(chain') = h /\ chain'[h] = tx
  BY <1>1 DEF IInv, TypeOK
<1> QED
  BY <1>1, <1>2, <1>3 DEF HasBuy

(* Steps of the executor before the hash of the buy is recorded.            *)
LEMMA OpenKept == ASSUME IInv, TypeOK', Open PROVE IInv'
<1> DEFINE w == act["executor"]
<1>1. w \in Task /\ w.pos \in Position /\ act \in [Actors -> Task]
  BY DEF IInv, TypeOK, Task, Actors
<1>2. /\ w.pc \in {"idle", "reserve", "prepare", "create", "sendBuy", "recordBuy"}
      /\ UNCHANGED <<queue, notices>>
      /\ \A b \in Actors \ {"executor"} : act'[b] = act[b]
  BY <1>1 DEF Open, ReadBalance, RejectFinds, ChooseFind, PrepareBuy, BuyWouldRevert, CreateRecord,
     SendBuy, RecordBuy, Go
<1>3. ASSUME Stored', Extends, HashesKept, OpeningOK(act["executor"])',
             WorkingOK(act["executor"])',
             act'["executor"].pc \in WorkingPCs \cup
               {"idle", "reserve", "prepare", "create", "sendBuy", "recordBuy"}
      PROVE  IInv'
  <2>1. Queued' /\ Noticed'
    BY <1>2, <1>3, QueuedKept DEF IInv
  <2>2. Roles'
    BY <1>2, <1>3 DEF Roles, IInv, Actors
  <2> QED
    BY <1>2, <1>3, <2>1, <2>2, StepKept DEF Actors
<1>4. CASE ReadBalance \/ RejectFinds \/ ChooseFind \/ BuyWouldRevert
  <2>1. act'["executor"].pc \in {"idle", "reserve", "prepare"} /\ UNCHANGED <<db, chain>>
    <3>1. CASE ReadBalance
      BY <1>1, <3>1 DEF ReadBalance, At, Actors
    <3>2. CASE RejectFinds \/ BuyWouldRevert
      BY <1>1, <3>2 DEF RejectFinds, BuyWouldRevert, At, Actors
    <3>3. CASE ChooseFind
      BY <1>1, <3>3 DEF ChooseFind, Go, Task, Actors
    <3> QED
      BY <1>4, <3>1, <3>2, <3>3
  <2>2. OpeningOK(act["executor"])' /\ WorkingOK(act["executor"])'
    BY <2>1 DEF OpeningOK, WorkingOK, WorkingPCs, BuyPCs, ExitPCs, SalePCs
  <2>3. Stored' /\ Extends /\ HashesKept
    BY <2>1, NothingStored DEF IInv
  <2> QED
    BY <1>3, <2>1, <2>2, <2>3
<1>5. CASE PrepareBuy
  <2>1. PICK d \in Deals : /\ db[d].status = "absent"
                           /\ act' = [act EXCEPT !["executor"] =
                                [At("create") EXCEPT !.deal = d, !.bal = held[Target[d]]]]
    BY <1>5 DEF PrepareBuy
  <2>2. act'["executor"].pc = "create" /\ act'["executor"].deal = d /\ UNCHANGED <<db, chain>>
    BY <1>1, <1>5, <2>1 DEF PrepareBuy, At, Actors
  <2>3. OpeningOK(act["executor"])' /\ WorkingOK(act["executor"])'
    BY <2>1, <2>2 DEF OpeningOK, WorkingOK, WorkingPCs, BuyPCs, ExitPCs, SalePCs
  <2>4. Stored' /\ Extends /\ HashesKept
    BY <2>2, NothingStored DEF IInv
  <2> QED
    BY <1>3, <2>2, <2>3, <2>4
<1>6. CASE CreateRecord
  <2>1. PICK d \in Deals : d = w.deal /\ db[d].status = "absent"
    BY <1>6 DEF CreateRecord, IInv, Opening, OpeningOK
  <2>2. PICK p \in Position :
          /\ p = [Absent EXCEPT !.status = "buying", !.targetBefore = w.bal]
          /\ p.status = "buying" /\ p.buyHash = None /\ p.sellHash = None
    <3> DEFINE q == [Absent EXCEPT !.status = "buying", !.targetBefore = w.bal]
    <3>1. q \in Position /\ q.status = "buying" /\ q.buyHash = None /\ q.sellHash = None
      BY <1>1 DEF Absent, Position, Statuses, Task, None
    <3> QED
      BY <3>1
  <2>3. Truthful(d, p) /\ db[d].buyHash = None
    BY <2>1, <2>2 DEF Truthful, IInv, Stored, RowsTruthful
  <2>4. db' = [db EXCEPT ![d] = p] /\ UNCHANGED chain
    BY <1>6, <2>1, <2>2 DEF CreateRecord, Save
  <2>5. Stored' /\ Extends /\ HashesKept
    BY <2>3, <2>4, OpeningSaved DEF IInv
  <2>6. act'["executor"].pc = "sendBuy" /\ act'["executor"].deal = d /\ act'["executor"].pos = p
    BY <1>1, <1>6, <2>1, <2>2 DEF CreateRecord, Task, Actors
  <2>7. \A h \in 1..Len(chain) : chain[h].deal # d
    BY <2>1 DEF IInv, Stored, RecordedBeforeSent
  <2>8. OpeningOK(act["executor"])' /\ WorkingOK(act["executor"])'
    BY <2>2, <2>4, <2>6, <2>7 DEF OpeningOK, Unrecorded, WorkingOK, WorkingPCs, BuyPCs, ExitPCs,
       SalePCs, IInv, TypeOK
  <2> QED
    BY <1>3, <2>5, <2>6, <2>8
<1>7. CASE SendBuy
  <2>1. PICK d \in Deals, h \in Nat : d = w.deal /\ h = Len(chain) + 1
    BY <1>7 DEF SendBuy, IInv, Opening, OpeningOK, Unrecorded, TypeOK
  <2>2. Unrecorded(w) /\ \A g \in 1..Len(chain) : chain[g].deal # d
    BY <1>7, <2>1 DEF SendBuy, IInv, Opening, OpeningOK
  <2>3. Accept(d, "buy", Lot, Stake) /\ UNCHANGED db
    BY <1>7, <2>1 DEF SendBuy
  <2>4. Stored' /\ Extends /\ HashesKept /\ HasBuy(d, h)'
    BY <2>1, <2>2, <2>3, BuyAccepted DEF Unrecorded
  <2>5. /\ act'["executor"].pc = "recordBuy" /\ act'["executor"].deal = d
        /\ act'["executor"].pos = w.pos /\ act'["executor"].tx = h
    BY <1>1, <1>7, <2>1 DEF SendBuy, Task, Actors
  <2>6. OpeningOK(act["executor"])' /\ WorkingOK(act["executor"])'
    BY <2>1, <2>2, <2>3, <2>4, <2>5 DEF OpeningOK, Unrecorded, WorkingOK, WorkingPCs, BuyPCs, ExitPCs,
       SalePCs
  <2> QED
    BY <1>3, <2>4, <2>5, <2>6
<1>8. CASE RecordBuy
  <2>1. PICK d \in Deals : d = w.deal
    BY <1>8 DEF RecordBuy, IInv, Opening, OpeningOK, Unrecorded
  <2>2. Unrecorded(w) /\ HasBuy(d, w.tx)
    BY <1>8, <2>1 DEF RecordBuy, IInv, Opening, OpeningOK
  <2>3. PICK p \in Position :
          /\ p = [w.pos EXCEPT !.buyHash = w.tx]
          /\ p.status = "buying" /\ p.buyHash = w.tx /\ p.sellHash = None
    <3> DEFINE q == [w.pos EXCEPT !.buyHash = w.tx]
    <3>1. q \in Position /\ q.status = "buying" /\ q.buyHash = w.tx /\ q.sellHash = None
      BY <1>1, <2>2 DEF Position, Statuses, Task, Unrecorded
    <3> QED
      BY <3>1
  <2>4. Truthful(d, p) /\ db[d].buyHash = None /\ p.buyHash # None
    BY <2>1, <2>2, <2>3 DEF Truthful, Unrecorded, HasBuy, None
  <2>5. db' = [db EXCEPT ![d] = p] /\ UNCHANGED chain
    BY <1>8, <2>1, <2>3 DEF RecordBuy, Save
  <2>6. Stored' /\ Extends /\ HashesKept
    BY <2>4, <2>5, OpeningSaved DEF IInv
  <2>7. /\ act'["executor"].pc = "waitBuy" /\ act'["executor"].deal = d
        /\ act'["executor"].pos = p /\ act'["executor"].tx = p.buyHash
    BY <1>1, <1>8, <2>1, <2>3 DEF RecordBuy, Task, Actors
  <2>8. db'[d] = p
    BY <2>5 DEF IInv, TypeOK
  <2>9. Truthful(d, p)'
    BY <2>4, <2>6, TruthfulKept
  <2>10. OpeningOK(act["executor"])' /\ WorkingOK(act["executor"])'
    BY <2>3, <2>4, <2>7, <2>8, <2>9 DEF OpeningOK, WorkingOK, Current, BuyPCs, ExitPCs, SalePCs
  <2> QED
    BY <1>3, <2>6, <2>7, <2>10 DEF WorkingPCs, BuyPCs
<1> QED
  BY <1>4, <1>5, <1>6, <1>7, <1>8 DEF Open

LEMMA WatchKept == ASSUME IInv, TypeOK', Watch PROVE IInv'
<1> DEFINE w == act["watcher"]
<1>1. /\ act \in [Actors -> Task] /\ "watcher" \in Actors /\ UNCHANGED chain
      /\ \A b \in Actors \ {"watcher"} : act'[b] = act[b]
  BY DEF Watch, Tick, Advance, EndTick, MarkNotified, IInv, TypeOK, Actors
<1>2. ASSUME Stored', Queued', Noticed', Extends, HashesKept, Aside, WorkingOK(act["watcher"])',
             act'["watcher"].pc \in WorkingPCs \cup {"idle", "next", "notify"}
      PROVE  IInv'
  <2>1. Roles'
    BY <1>1, <1>2 DEF Roles, IInv, Actors
  <2> QED
    BY <1>1, <1>2, <2>1, StepKept
<1>3. ASSUME UNCHANGED <<db, chain>>
      PROVE  Stored' /\ Extends /\ HashesKept /\ Aside
  BY <1>3, NothingStored DEF IInv, Aside
<1>4. CASE Tick
  <2>1. UNCHANGED <<db, chain, notices>> /\ queue' = OpenRows /\ act'["watcher"].pc = "next"
    BY <1>1, <1>4 DEF Tick, At
  <2>2. ASSUME NEW d \in Deals, IsOpen(db[d])
        PROVE  IF db[d].buyHash = None THEN db[d].status = "buying" ELSE Current(d, db[d])
    BY <2>2 DEF IsOpen, OpenStatuses, Current, Truthful, IInv, Stored, RowsTruthful
  <2>3. \A s \in OpenRows :
          IF s.pos.buyHash = None THEN s.pos.status = "buying"
                                  ELSE Current(s.deal, s.pos) /\ IsOpen(s.pos)
    BY <2>2 DEF OpenRows
  <2>4. Queued' /\ Noticed'
    BY <2>1, <2>3 DEF Queued, Noticed, IInv, Current, Truthful, HasBuy, HasSell, Outcome
  <2>5. WorkingOK(act["watcher"])'
    BY <2>1 DEF WorkingOK, WorkingPCs, BuyPCs, ExitPCs, SalePCs
  <2> QED
    BY <1>2, <1>3, <2>1, <2>4, <2>5
<1>5. CASE Advance
  <2>1. UNCHANGED <<db, chain, notices>> /\ queue' \subseteq queue /\ w.pc = "next"
    BY <1>5 DEF Advance
  <2>2. Stored' /\ Extends /\ HashesKept /\ Aside /\ Queued' /\ Noticed'
    BY <1>3, <2>1, QueuedKept DEF IInv
  <2>3. CASE UNCHANGED act
    <3>1. WorkingOK(act["watcher"])'
      BY <2>1, <2>3 DEF WorkingOK, WorkingPCs, BuyPCs, ExitPCs, SalePCs
    <3> QED
      BY <1>2, <2>1, <2>2, <2>3, <3>1
  <2>4. CASE ~UNCHANGED act
    <3>1. PICK s \in queue : \E pc \in {"waitBuy", "waitSell", "exit"}, h \in Nat :
            /\ act' = [act EXCEPT !["watcher"] =
                         [At(pc) EXCEPT !.deal = s.deal, !.pos = s.pos, !.tx = h]]
            /\ pc = "waitBuy" => s.pos.status = "buying" /\ s.pos.buyHash # None /\ h = s.pos.buyHash
            /\ pc = "waitSell" => s.pos.status = "selling" /\ h = s.pos.sellHash
            /\ pc = "exit" => s.pos.status = "holding"
      BY <1>5, <2>4 DEF Advance, IInv, TypeOK, Snapshot, Position, None
    <3>1a. PICK pc \in {"waitBuy", "waitSell", "exit"}, h \in Nat :
            /\ act' = [act EXCEPT !["watcher"] =
                         [At(pc) EXCEPT !.deal = s.deal, !.pos = s.pos, !.tx = h]]
            /\ pc = "waitBuy" => s.pos.status = "buying" /\ s.pos.buyHash # None /\ h = s.pos.buyHash
            /\ pc = "waitSell" => s.pos.status = "selling" /\ h = s.pos.sellHash
            /\ pc = "exit" => s.pos.status = "holding"
      BY <3>1
    <3>2. /\ act'["watcher"].pc = pc /\ act'["watcher"].deal = s.deal
          /\ act'["watcher"].pos = s.pos /\ act'["watcher"].tx = h
      BY <1>1, <3>1a DEF At
    <3>3. s.deal \in Deals /\ s.pos \in Position /\ Current(s.deal, s.pos)
      BY <3>1a DEF IInv, TypeOK, Snapshot, Queued
    <3>4. Current(s.deal, s.pos)'
      BY <2>2, <3>3, CurrentKept
    <3>6. WorkingOK(act["watcher"])'
      BY <3>1a, <3>2, <3>3, <3>4 DEF WorkingOK, BuyPCs, ExitPCs, SalePCs
    <3> QED
      BY <1>2, <2>2, <3>2, <3>6 DEF WorkingPCs, BuyPCs, ExitPCs, SalePCs
  <2> QED
    BY <2>3, <2>4
<1>6. CASE EndTick
  <2>1. UNCHANGED <<db, chain, queue, notices>> /\ act'["watcher"].pc \in {"idle", "notify"}
    BY <1>1, <1>6 DEF EndTick, At
  <2>2. Stored' /\ Extends /\ HashesKept /\ Aside /\ Queued' /\ Noticed'
    BY <1>3, <2>1, QueuedKept DEF IInv
  <2>3. WorkingOK(act["watcher"])'
    BY <2>1 DEF WorkingOK, WorkingPCs, BuyPCs, ExitPCs, SalePCs
  <2> QED
    BY <1>2, <2>1, <2>2, <2>3
<1>7. CASE MarkNotified
  <2>1. PICK s \in notices :
          /\ db' = [db EXCEPT ![s.deal] = [s.pos EXCEPT !.notified = TRUE]]
          /\ UNCHANGED <<chain, queue>> /\ notices' \subseteq notices
          /\ act' = [act EXCEPT !["watcher"] = At(IF notices = {s} THEN "idle" ELSE "notify")]
    BY <1>7 DEF MarkNotified
  <2>8. act'["watcher"].pc \in {"idle", "notify"}
    BY <1>1, <2>1 DEF At
  <2>2. PICK p \in Position :
          /\ p = [s.pos EXCEPT !.notified = TRUE]
          /\ p.status = s.pos.status /\ p.buyHash = s.pos.buyHash /\ p.sellHash = s.pos.sellHash
    <3> DEFINE q == [s.pos EXCEPT !.notified = TRUE]
    <3>1. s.pos \in Position
      BY DEF IInv, TypeOK, Snapshot
    <3>2. /\ q \in Position
          /\ q.status = s.pos.status /\ q.buyHash = s.pos.buyHash /\ q.sellHash = s.pos.sellHash
      BY <3>1 DEF Position
    <3> QED
      BY <3>2
  <2>3. s.deal \in Deals /\ Current(s.deal, p)
    BY <2>2 DEF IInv, TypeOK, Snapshot, Noticed, Current, Truthful
  <2>4. Stored' /\ Extends /\ HashesKept
    BY <2>1, <2>2, <2>3, CopySaved DEF IInv
  <2>5. Aside
    BY <2>1, <2>2, <2>3 DEF Aside, Current, IInv, TypeOK
  <2>6. Queued' /\ Noticed'
    BY <2>1, <2>4, QueuedKept DEF IInv
  <2>7. WorkingOK(act["watcher"])'
    BY <2>8 DEF WorkingOK, WorkingPCs, BuyPCs, ExitPCs, SalePCs
  <2> QED
    BY <1>2, <2>4, <2>5, <2>6, <2>7, <2>8
<1> QED
  BY <1>4, <1>5, <1>6, <1>7 DEF Watch

LEMMA FaultKept ==
  ASSUME IInv, TypeOK', NEW a \in Actors, Join(a) \/ Raise(a) \/ SendUnanswered(a) \/ Restart
  PROVE  IInv'
<1>1. act[a] \in Task /\ act \in [Actors -> Task]
  BY DEF IInv, TypeOK
<1>2. CASE Raise(a)
  <2>1. UNCHANGED <<db, chain, queue>> /\ notices' \subseteq notices
    BY <1>2 DEF Raise
  <2>2. Stored' /\ Extends /\ HashesKept /\ Aside
    BY <2>1, NothingStored DEF IInv, Aside
  <2>3. CASE Done(a)
    BY <2>1, <2>2, <2>3, DoneKept
  <2>4. CASE ~Done(a)
    <3>1. act[a].pc = "notify" /\ act' = [act EXCEPT ![a] = At("idle")]
      BY <1>2, <2>4 DEF Raise
    <3>2. act'[a].pc = "idle" /\ \A b \in Actors \ {a} : act'[b] = act[b]
      BY <1>1, <3>1 DEF At
    <3>3. WorkingOK(act[a])' /\ OpeningOK(act[a])'
      BY <3>2 DEF WorkingOK, OpeningOK, WorkingPCs, BuyPCs, ExitPCs, SalePCs
    <3>4. Roles'
      BY <3>2 DEF Roles, IInv, Actors
    <3>5. Queued' /\ Noticed'
      BY <2>1, <2>2, QueuedKept DEF IInv
    <3> QED
      BY <2>2, <3>2, <3>3, <3>4, <3>5, StepKept
  <2> QED
    BY <2>3, <2>4
<1>3. CASE SendUnanswered(a)
  <2>1. Done(a) /\ UNCHANGED <<db, queue, notices>>
    BY <1>3 DEF SendUnanswered
  <2>2. CASE act[a].pc = "sendBuy" /\ Accept(act[a].deal, "buy", Lot, Stake)
    <3>1. a = "executor"
      BY <2>2 DEF IInv, Roles, WorkingPCs, BuyPCs, ExitPCs, SalePCs, Actors
    <3>2. PICK d \in Deals, h \in Nat : d = act[a].deal /\ h = Len(chain) + 1
      BY <2>2, <3>1 DEF IInv, Opening, OpeningOK, Unrecorded, TypeOK
    <3>3. Unrecorded(act[a]) /\ \A g \in 1..Len(chain) : chain[g].deal # d
      BY <2>2, <3>1, <3>2 DEF IInv, Opening, OpeningOK
    <3>4. Stored' /\ Extends /\ HashesKept
      BY <2>1, <2>2, <3>2, <3>3, BuyAccepted DEF Unrecorded
    <3>5. Queued' /\ Noticed'
      BY <2>1, <3>4, QueuedKept DEF IInv
    <3>6. act'["executor"].pc = "idle" /\ act'["watcher"] = act["watcher"]
      BY <1>1, <2>1, <3>1 DEF Done, At, Actors
    <3>7. OpeningOK(act["executor"])' /\ WorkingOK(act["executor"])' /\ Roles'
      BY <3>6 DEF OpeningOK, WorkingOK, Roles, IInv, WorkingPCs, BuyPCs, ExitPCs, SalePCs
    <3> QED
      BY <3>1, <3>4, <3>5, <3>6, <3>7, StepKept DEF Actors
  <2>3. CASE /\ act[a].pc = "sendSell"
             /\ Accept(act[a].deal, "sell", act[a].pos.acquired, act[a].offer)
    <3>1. /\ act[a].deal \in Deals /\ act[a].pos \in Position /\ Current(act[a].deal, act[a].pos)
          /\ act[a].pos.status = "holding" /\ Pays(act[a].offer)
      BY <1>1, <2>3 DEF IInv, Working, WorkingOK, WorkingPCs, ExitPCs, Task
    <3>2. PICK h \in Nat : h = Len(chain) + 1
      BY DEF IInv, TypeOK
    <3>3. act[a].pos.acquired \in Nat /\ act[a].offer \in Nat
      BY <1>1, <3>1 DEF Task, Position
    <3>4. Stored' /\ Extends /\ HashesKept /\ Aside
      BY <2>1, <2>3, <3>1, <3>2, <3>3, SaleAccepted
    <3> QED
      BY <2>1, <3>4, DoneKept
  <2> QED
    BY <1>3, <2>2, <2>3 DEF SendUnanswered
<1>4. CASE Restart
  <2>1. UNCHANGED <<db, chain>> /\ queue' = {} /\ notices' = {}
    BY <1>4 DEF Restart
  <2>2. Stored'
    BY <2>1, NothingStored DEF IInv
  <2>3. \A b \in Actors : act'[b].pc = "idle"
    BY <1>4 DEF Restart, At
  <2>4. Queued' /\ Noticed'
    BY <2>1 DEF Queued, Noticed
  <2>5. Opening' /\ Working' /\ Roles'
    BY <2>3 DEF Opening, Working, Roles, OpeningOK, WorkingOK, WorkingPCs, BuyPCs, ExitPCs, SalePCs,
       Actors
  <2> QED
    BY <2>2, <2>4, <2>5 DEF IInv
<1>5. CASE Join(a)
  <2>1. UNCHANGED <<db, chain, queue, notices>> /\ Done(a)
    BY <1>5 DEF Join
  <2>2. Stored' /\ Extends /\ HashesKept /\ Aside
    BY <2>1, NothingStored DEF IInv, Aside
  <2> QED
    BY <2>1, <2>2, DoneKept
<1> QED
  BY <1>2, <1>3, <1>4, <1>5

LEMMA MineKept == ASSUME IInv, TypeOK', Mine PROVE IInv'
<1>1. PICK h \in 1..Len(chain), outcome \in {"succeeded", "reverted"} :
        chain' = [chain EXCEPT ![h].outcome = outcome] /\ Outcome(h) = "pending"
  BY DEF Mine, Pending
<1>2. UNCHANGED <<db, act, queue, notices>>
  BY DEF Mine
<1>3. Stored' /\ Extends /\ HashesKept
  BY <1>1, <1>2, OutcomeKnown DEF IInv
<1>4. Queued' /\ Noticed'
  BY <1>2, <1>3, QueuedKept DEF IInv
<1>5. Len(chain') = Len(chain)
  BY <1>1 DEF IInv, TypeOK
<1>6. Aside
  BY <1>2, <1>5 DEF Aside
<1>7. \A a \in Actors : act[a] \in Task /\ act'[a] = act[a]
  BY <1>2 DEF IInv, TypeOK
<1>8. ASSUME NEW w \in Task, WorkingOK(w) PROVE WorkingOK(w)'
  BY <1>3, <1>8, WorkingKept
<1>9. ASSUME NEW w \in Task, OpeningOK(w) PROVE OpeningOK(w)'
  BY <1>3, <1>6, <1>9, OpeningKept DEF IInv
<1>10. Working'
  BY <1>7, <1>8 DEF Working, IInv
<1>11. Opening'
  BY <1>7, <1>9 DEF Opening, IInv, Actors
<1> QED
  BY <1>2, <1>3, <1>4, <1>10, <1>11 DEF IInv, Roles

LEMMA NextKept == ASSUME IInv, TypeOK', [Next]_vars, ~merging PROVE IInv'
<1>1. CASE UNCHANGED vars
  <2>1. Stored' /\ Extends /\ HashesKept /\ Queued' /\ Noticed'
    BY <1>1, NothingStored, QueuedKept DEF vars, IInv
  <2>2. \A w : OpeningOK(w) => OpeningOK(w)'
    BY <1>1 DEF vars, OpeningOK, Unrecorded, HasBuy
  <2>3. \A w : WorkingOK(w) => WorkingOK(w)'
    BY <1>1 DEF vars, WorkingOK, Current, Truthful, HasBuy, HasSell, Outcome
  <2>4. Opening' /\ Working' /\ Roles'
    BY <1>1, <2>2, <2>3 DEF vars, IInv, Opening, Working, Roles
  <2> QED
    BY <2>1, <2>4 DEF IInv
<1> QED
  BY <1>1, OpenKept, SettleKept, ExitKept, WatchKept, FaultKept, MineKept DEF Next, Actors

(***************************************************************************)
(* The gas of a deal                                                        *)
(*                                                                         *)
(* A row that has not lost sight of a sale counts the transactions of the   *)
(* deal: one for the buy, sellGas for the sales whose end it knows, and one *)
(* for the sale under way.  The offer of a sale pays for all of them.       *)
(***************************************************************************)
Covers(d, price) ==
  price - Stake - Gas * (Cardinality(Sent(d, "sell")) + 1) >= MinExitProfitWaiting

UnderWay(d) == Recording(d) # {} \/ (db[d].sellHash # None /\ db[d].status # "closed")

Counted(d) ==
  /\ Recording(d) # {} => db[d].sellHash = None /\ db[d].status # "closed"
  /\ \A a, b \in Recording(d) : a = b
  /\ Cardinality(Sent(d, "sell")) = db[d].sellGas + (IF UnderWay(d) THEN 1 ELSE 0)
  /\ db[d].sellHash # None => Covers(d, chain[db[d].sellHash].price)
  /\ \A a \in Recording(d) : Covers(d, chain[act[a].tx].price)

(* What the tasks that are about to send hold of their copies.              *)
Agreed(w) ==
  w.pc \in {"sellBalance", "sendSell"} => ProfitIfSold(w.pos, w.offer) >= MinExitProfitWaiting
Fresh(w) == w.pc = "create" => w.pos = Absent

Audit == /\ \A d \in Deals : d \notin lost => Counted(d)
         /\ \A a \in Actors : Agreed(act[a]) /\ Fresh(act[a])

(* The step sends no sale of d.                                             *)
SentKept(d) ==
  /\ Sent(d, "sell")' = Sent(d, "sell")
  /\ \A h \in Sent(d, "sell") : chain'[h].price = chain[h].price

LEMMA NoSaleSent ==
  ASSUME TypeOK, NEW d \in Deals,
         \/ chain' = chain
         \/ \E h \in 1..Len(chain), outcome \in {"succeeded", "reverted"} :
              chain' = [chain EXCEPT ![h].outcome = outcome]
         \/ \E tx \in Transaction : /\ chain' = Append(chain, tx)
                                    /\ tx.kind = "buy" \/ tx.deal # d
  PROVE  SentKept(d)
<1>1. Len(chain) \in Nat /\ \A h \in 1..Len(chain) : chain[h] \in Transaction
  BY DEF TypeOK
<1>2. CASE chain' = chain
  BY <1>2 DEF SentKept, Sent
<1>3. ASSUME NEW h \in 1..Len(chain), NEW outcome \in {"succeeded", "reverted"},
             chain' = [chain EXCEPT ![h].outcome = outcome]
      PROVE  SentKept(d)
  <2>1. /\ Len(chain') = Len(chain)
        /\ \A g \in 1..Len(chain) : /\ chain'[g].deal = chain[g].deal /\ chain'[g].kind = chain[g].kind
                                     /\ chain'[g].price = chain[g].price
    BY <1>1, <1>3 DEF Transaction, TypeOK
  <2> QED
    BY <2>1 DEF SentKept, Sent
<1>4. ASSUME NEW tx \in Transaction, chain' = Append(chain, tx), tx.kind = "buy" \/ tx.deal # d
      PROVE  SentKept(d)
  <2>1. /\ Len(chain') = Len(chain) + 1 /\ chain'[Len(chain) + 1] = tx
        /\ \A g \in 1..Len(chain) : chain'[g] = chain[g]
    BY <1>1, <1>4 DEF TypeOK
  <2> QED
    BY <1>1, <1>4, <2>1 DEF SentKept, Sent
<1> QED
  BY <1>2, <1>3, <1>4

LEMMA SentFinite ==
  ASSUME TypeOK, NEW d \in Deals
  PROVE  IsFiniteSet(Sent(d, "sell")) /\ Cardinality(Sent(d, "sell")) \in Nat
<1>1. Len(chain) \in Nat
  BY DEF TypeOK
<1>2. IsFiniteSet(1..Len(chain))
  BY <1>1, FS_Interval
<1>3. Sent(d, "sell") \in SUBSET (1..Len(chain))
  BY DEF Sent
<1>4. IsFiniteSet(Sent(d, "sell"))
  BY <1>2, <1>3, FS_Subset
<1> QED
  BY <1>4, FS_CardinalityType

(* The step sends one sale of d.                                            *)
LEMMA SaleSent ==
  ASSUME TypeOK, NEW d \in Deals, NEW tx \in Transaction, tx.deal = d, tx.kind = "sell",
         chain' = Append(chain, tx)
  PROVE  /\ Cardinality(Sent(d, "sell")') = Cardinality(Sent(d, "sell")) + 1
         /\ chain'[Len(chain) + 1].price = tx.price
<1>1. Len(chain) \in Nat
  BY DEF TypeOK
<1>2. /\ Len(chain') = Len(chain) + 1 /\ chain'[Len(chain) + 1] = tx
      /\ \A g \in 1..Len(chain) : chain'[g] = chain[g]
  BY <1>1 DEF TypeOK
<1>3. Sent(d, "sell")' = Sent(d, "sell") \cup {Len(chain) + 1}
  BY <1>1, <1>2 DEF Sent
<1>4. Len(chain) + 1 \notin Sent(d, "sell")
  BY <1>1 DEF Sent
<1>5. Cardinality(Sent(d, "sell") \cup {Len(chain) + 1}) = Cardinality(Sent(d, "sell")) + 1
  BY <1>4, SentFinite, FS_AddElement
<1> QED
  BY <1>2, <1>3, <1>5

(* The account of a deal is not touched by a step of a that neither sends   *)
(* nor records a sale of it, and leaves what its row knows of them.         *)
LEMMA CountedKept ==
  ASSUME Basis, NEW d \in Deals, Counted(d), SentKept(d), SameSales(db'[d], db[d]),
         \A b \in Actors :
           \/ act'[b] = act[b]
           \/ /\ act[b].pc = "recordSell" => act[b].deal # d
              /\ act'[b].pc = "recordSell" => act'[b].deal # d
  PROVE  Counted(d)'
<1>1. Recording(d)' = Recording(d) /\ \A a \in Recording(d) : act'[a].tx = act[a].tx
  BY DEF Recording
<1>2. \A a \in Recording(d) : act[a].tx \in Sent(d, "sell")
  BY DEF Recording, Basis, Named, HasSell, Sent
<1>3. db[d].sellHash # None => db[d].sellHash \in Sent(d, "sell")
  BY DEF Basis, Rows, Own, HasSell, Sent
<1>4. /\ db'[d].sellHash = db[d].sellHash /\ db'[d].sellGas = db[d].sellGas
      /\ db'[d].status = "closed" <=> db[d].status = "closed"
  BY DEF SameSales
<1>5. UnderWay(d)' <=> UnderWay(d)
  BY <1>1, <1>4 DEF UnderWay
<1>6. \A h \in Sent(d, "sell") : Covers(d, chain[h].price) => Covers(d, chain[h].price)'
  BY DEF SentKept, Covers
<1>7. Cardinality(Sent(d, "sell")') = db'[d].sellGas + (IF UnderWay(d)' THEN 1 ELSE 0)
  BY <1>4, <1>5 DEF Counted, SentKept
<1>8. db'[d].sellHash # None => Covers(d, chain[db[d].sellHash].price)'
  BY <1>3, <1>4, <1>6 DEF Counted
<1>9. \A a \in Recording(d) : Covers(d, chain[act[a].tx].price)'
  BY <1>1, <1>2, <1>6 DEF Counted
<1> QED
  BY <1>1, <1>4, <1>7, <1>8, <1>9 DEF Counted

(* A step of one task, and what remains to show of it.                      *)
LEMMA AuditStep ==
  ASSUME Audit, NEW a \in Actors, \A b \in Actors \ {a} : act'[b] = act[b],
         \A d \in Deals : d \notin lost' => Counted(d)', Agreed(act[a])', Fresh(act[a])'
  PROVE  Audit'
<1>1. ASSUME NEW b \in Actors PROVE Agreed(act[b])' /\ Fresh(act[b])'
  <2>1. CASE b = a
    BY <2>1
  <2>2. CASE b # a
    BY <2>2 DEF Audit, Agreed, Fresh, ProfitIfSold
  <2> QED
    BY <2>1, <2>2
<1> QED
  BY <1>1 DEF Audit

SellingPCs == {"create", "sellBalance", "sendSell", "recordSell"}

(* It writes no row, and sends and records no sale.                         *)
LEMMA AuditQuiet ==
  ASSUME Basis, Audit, NEW a \in Actors, \A b \in Actors \ {a} : act'[b] = act[b],
         UNCHANGED db, lost \subseteq lost', \A d \in Deals : SentKept(d),
         act[a].pc = "recordSell" => act[a].deal \in lost', act'[a].pc \notin SellingPCs
  PROVE  Audit'
<1>1. ASSUME NEW d \in Deals, d \notin lost' PROVE Counted(d)'
  <2>1. Counted(d) /\ SentKept(d) /\ SameSales(db'[d], db[d])
    BY <1>1 DEF Audit, SameSales
  <2>2. \A b \in Actors : \/ act'[b] = act[b]
                          \/ /\ act[b].pc = "recordSell" => act[b].deal # d
                             /\ act'[b].pc = "recordSell" => act'[b].deal # d
    BY <1>1 DEF SellingPCs
  <2> QED
    BY <2>1, <2>2, CountedKept
<1>2. Agreed(act[a])' /\ Fresh(act[a])'
  BY DEF Agreed, Fresh, SellingPCs
<1> QED
  BY <1>1, <1>2, AuditStep

(* It writes the row of e, and what becomes of the account of e.            *)
LEMMA AuditWrites ==
  ASSUME Basis, Audit, NEW a \in Actors, \A b \in Actors \ {a} : act'[b] = act[b],
         NEW e \in Deals, NEW p, db' = [db EXCEPT ![e] = p], UNCHANGED chain, lost \subseteq lost',
         act[a].pc = "recordSell" => act[a].deal = e, act'[a].pc \notin SellingPCs,
         e \notin lost' => Counted(e)'
  PROVE  Audit'
<1>1. ASSUME NEW d \in Deals, d \notin lost' PROVE Counted(d)'
  <2>1. CASE d = e
    BY <1>1, <2>1
  <2>2. CASE d # e
    <3>1. db'[d] = db[d]
      BY <2>2 DEF Basis, TypeOK
    <3>2. Counted(d) /\ SentKept(d) /\ SameSales(db'[d], db[d])
      BY <1>1, <3>1, NoSaleSent DEF Audit, SameSales, Basis
    <3>3. \A b \in Actors : \/ act'[b] = act[b]
                            \/ /\ act[b].pc = "recordSell" => act[b].deal # d
                               /\ act'[b].pc = "recordSell" => act'[b].deal # d
      BY <2>2 DEF SellingPCs
    <3> QED
      BY <3>2, <3>3, CountedKept
  <2> QED
    BY <2>1, <2>2
<1>2. Agreed(act[a])' /\ Fresh(act[a])'
  BY DEF Agreed, Fresh, SellingPCs
<1> QED
  BY <1>1, <1>2, AuditStep

(* It writes a row that knows the same sales as its copy.                   *)
LEMMA AuditSaves ==
  ASSUME Basis, Audit, NEW a \in Actors, \A b \in Actors \ {a} : act'[b] = act[b],
         NEW e \in Deals, NEW p, NEW q, db' = [db EXCEPT ![e] = p], UNCHANGED chain,
         LoseSight(e, Outdated(e, q)), SameSales(p, q),
         act[a].pc # "recordSell", act'[a].pc \notin SellingPCs
  PROVE  Audit'
<1>1. lost \subseteq lost' /\ (e \notin lost' => e \notin lost /\ SameSales(q, db[e]))
  BY DEF LoseSight, Outdated
<1>2. ASSUME e \notin lost' PROVE Counted(e)'
  <2>1. Counted(e) /\ SentKept(e) /\ db'[e] = p
    BY <1>1, <1>2, NoSaleSent DEF Audit, Basis, TypeOK
  <2>2. SameSales(db'[e], db[e])
    BY <1>1, <1>2, <2>1 DEF SameSales
  <2>3. \A b \in Actors : \/ act'[b] = act[b]
                          \/ /\ act[b].pc = "recordSell" => act[b].deal # e
                             /\ act'[b].pc = "recordSell" => act'[b].deal # e
    BY DEF SellingPCs
  <2> QED
    BY <2>1, <2>2, <2>3, CountedKept
<1> QED
  BY <1>1, <1>2, AuditWrites

LEMMA OpenAudit == ASSUME Basis, IInv, Audit, Open PROVE Audit'
<1> DEFINE w == act["executor"]
<1>1. w \in Task /\ w.pos \in Position /\ act \in [Actors -> Task] /\ "executor" \in Actors
  BY DEF Basis, TypeOK, Task, Actors
<1>2. \A b \in Actors \ {"executor"} : act'[b] = act[b]
  BY <1>1 DEF Open, ReadBalance, RejectFinds, ChooseFind, PrepareBuy, BuyWouldRevert, CreateRecord,
     SendBuy, RecordBuy, Go
<1>3. CASE ReadBalance \/ RejectFinds \/ ChooseFind \/ BuyWouldRevert
  <2>1. act'["executor"].pc \in {"idle", "reserve", "prepare"} /\ w.pc \in {"idle", "reserve", "prepare"}
    <3>1. CASE ReadBalance
      BY <1>1, <3>1 DEF ReadBalance, At
    <3>2. CASE RejectFinds \/ BuyWouldRevert
      BY <1>1, <3>2 DEF RejectFinds, BuyWouldRevert, At
    <3>3. CASE ChooseFind
      BY <1>1, <3>3 DEF ChooseFind, Go, Task
    <3> QED
      BY <1>3, <3>1, <3>2, <3>3
  <2>2. UNCHANGED <<db, chain, lost>>
    BY <1>3 DEF ReadBalance, RejectFinds, ChooseFind, BuyWouldRevert
  <2>3. \A d \in Deals : SentKept(d)
    BY <2>2, NoSaleSent DEF Basis
  <2> QED
    BY <1>1, <1>2, <2>1, <2>2, <2>3, AuditQuiet DEF SellingPCs
<1>4. CASE PrepareBuy
  <2>1. act'["executor"].pc = "create" /\ act'["executor"].pos = Absent /\ w.pc = "prepare"
    BY <1>1, <1>4 DEF PrepareBuy, At
  <2>2. UNCHANGED <<db, chain, lost>>
    BY <1>4 DEF PrepareBuy
  <2>3. ASSUME NEW d \in Deals, d \notin lost' PROVE Counted(d)'
    <3>1. Counted(d) /\ SentKept(d) /\ SameSales(db'[d], db[d])
      BY <2>2, <2>3, NoSaleSent DEF Audit, SameSales, Basis
    <3>2. \A b \in Actors : \/ act'[b] = act[b]
                            \/ /\ act[b].pc = "recordSell" => act[b].deal # d
                               /\ act'[b].pc = "recordSell" => act'[b].deal # d
      BY <1>2, <2>1
    <3> QED
      BY <3>1, <3>2, CountedKept
  <2>4. Agreed(act["executor"])' /\ Fresh(act["executor"])'
    BY <2>1 DEF Agreed, Fresh
  <2> QED
    BY <1>1, <1>2, <2>3, <2>4, AuditStep
<1>5. CASE CreateRecord
  <2>1. PICK p \in Position :
          /\ p = [Absent EXCEPT !.status = "buying", !.targetBefore = w.bal]
          /\ SameSales(p, Absent)
    <3> DEFINE q == [Absent EXCEPT !.status = "buying", !.targetBefore = w.bal]
    <3>1. q \in Position /\ SameSales(q, Absent)
      BY <1>1 DEF Absent, Position, Statuses, Task, None, SameSales
    <3> QED
      BY <3>1
  <2>2. w.deal \in Deals /\ w.pc = "create" /\ w.pos = Absent
    BY <1>1, <1>5 DEF CreateRecord, IInv, Opening, OpeningOK, Audit, Fresh
  <2>3. PICK e \in Deals : e = w.deal
    BY <2>2
  <2>4. /\ db' = [db EXCEPT ![e] = p] /\ UNCHANGED chain /\ LoseSight(e, Outdated(e, Absent))
        /\ act'["executor"].pc = "sendBuy"
    BY <1>1, <1>5, <2>1, <2>2, <2>3 DEF CreateRecord, Save, Task
  <2> QED
    BY <1>1, <1>2, <2>1, <2>2, <2>4, AuditSaves DEF SellingPCs
<1>6. CASE SendBuy
  <2>1. w.deal \in Deals
    BY <1>6 DEF SendBuy, IInv, Opening, OpeningOK, Unrecorded
  <2>2. PICK tx \in Transaction : tx.kind = "buy" /\ chain' = Append(chain, tx)
    BY <1>6, <2>1, AmountsAssumption DEF SendBuy, Accept, Transaction
  <2>3. \A d \in Deals : SentKept(d)
    BY <2>2, NoSaleSent DEF Basis
  <2>4. UNCHANGED <<db, lost>> /\ w.pc = "sendBuy" /\ act'["executor"].pc = "recordBuy"
    BY <1>1, <1>6 DEF SendBuy, Task
  <2> QED
    BY <1>1, <1>2, <2>3, <2>4, AuditQuiet DEF SellingPCs
<1>7. CASE RecordBuy
  <2>1. w.deal \in Deals /\ w.pc = "recordBuy"
    BY <1>7 DEF RecordBuy, IInv, Opening, OpeningOK, Unrecorded
  <2>2. PICK e, p : e \in Deals /\ e = w.deal /\ p = [w.pos EXCEPT !.buyHash = w.tx] /\ SameSales(p, w.pos)
    <3> DEFINE q == [w.pos EXCEPT !.buyHash = w.tx]
    <3>1. SameSales(q, w.pos)
      BY <1>1 DEF Position, SameSales
    <3> QED
      BY <2>1, <3>1
  <2>3. /\ db' = [db EXCEPT ![e] = p] /\ UNCHANGED chain /\ LoseSight(e, Outdated(e, w.pos))
        /\ act'["executor"].pc = "waitBuy"
    BY <1>1, <1>7, <2>2 DEF RecordBuy, Save, Task
  <2> QED
    BY <1>1, <1>2, <2>1, <2>2, <2>3, AuditSaves DEF SellingPCs
<1> QED
  BY <1>3, <1>4, <1>5, <1>6, <1>7 DEF Open

(* The end of a sale is written with a copy that knows it: it was under way, *)
(* and no task is about to record another one.                              *)
LEMMA AuditEnds ==
  ASSUME Basis, Audit, NEW a \in Actors, \A b \in Actors \ {a} : act'[b] = act[b],
         NEW e \in Deals, NEW q \in Position, NEW p \in Position, Truthful(e, q), q.status = "selling",
         db' = [db EXCEPT ![e] = p], UNCHANGED chain, LoseSight(e, Outdated(e, q)),
         p.sellGas = q.sellGas + 1,
         \/ p.status = "holding" /\ p.sellHash = None
         \/ p.status = "closed" /\ p.sellHash = q.sellHash,
         act[a].pc # "recordSell", act'[a].pc \notin SellingPCs
  PROVE  Audit'
<1>1. ASSUME e \notin lost' PROVE Counted(e)'
  <2>1. lost \subseteq lost' /\ SameSales(q, db[e])
    BY <1>1 DEF LoseSight, Outdated
  <2>2. Counted(e) /\ SentKept(e) /\ db'[e] = p
    BY <1>1, <2>1, NoSaleSent DEF Audit, Basis, TypeOK
  <2>3. db[e].sellHash # None /\ db[e].status # "closed" /\ db[e].sellHash = q.sellHash
    BY <2>1 DEF SameSales, Truthful
  <2>4. Recording(e) = {} /\ Cardinality(Sent(e, "sell")) = q.sellGas + 1
    BY <2>1, <2>2, <2>3 DEF Counted, UnderWay, SameSales
  <2>5. Recording(e)' = {}
    BY <2>4 DEF Recording, SellingPCs
  <2>6. ~UnderWay(e)'
    BY <2>2, <2>5 DEF UnderWay
  <2>7. p.sellGas \in Nat
    BY DEF Position
  <2>8. Cardinality(Sent(e, "sell")') = p.sellGas
    BY <2>2, <2>4 DEF SentKept
  <2>9. Covers(e, chain[q.sellHash].price)
    BY <2>2, <2>3 DEF Counted
  <2>10. Covers(e, chain[q.sellHash].price)'
    BY <2>2, <2>9 DEF Covers, SentKept
  <2>11. p.sellHash # None => Covers(e, chain[p.sellHash].price)'
    BY <2>10
  <2> QED
    BY <2>2, <2>5, <2>6, <2>7, <2>8, <2>11 DEF Counted
<1>2. lost \subseteq lost'
  BY DEF LoseSight
<1> QED
  BY <1>1, <1>2, AuditWrites

LEMMA SettleAudit == ASSUME Basis, IInv, Audit, NEW a \in Actors, Settle(a) PROVE Audit'
<1> DEFINE w == act[a]
<1>1. w \in Task /\ w.pos \in Position /\ act \in [Actors -> Task]
  BY DEF Basis, TypeOK, Task
<1>2. \A b \in Actors \ {a} : act'[b] = act[b]
  BY <1>1 DEF Settle, BuyReceipt, NoReceipt, WriteFailed, ReadAcquired, WriteHolding, SellReceipt,
     WriteSellReverted, ReadBaseAfter, WriteClosed, Done, Go
<1>3. Done(a) => act'[a].pc \notin SellingPCs
  BY <1>1 DEF Done, At, SellingPCs
<1>4. w.pc \notin SellingPCs \cup RestPCs
  BY DEF SellingPCs, RestPCs, Settle, BuyReceipt, NoReceipt, WriteFailed, ReadAcquired, WriteHolding,
     SellReceipt, WriteSellReverted, ReadBaseAfter, WriteClosed
<1>5. w.deal \in Deals /\ WorkingOK(w)
  BY <1>4 DEF Basis, Named, IInv, Working
<1>6. CASE BuyReceipt(a) \/ NoReceipt(a) \/ ReadAcquired(a) \/ SellReceipt(a) \/ ReadBaseAfter(a)
  <2>1. UNCHANGED <<db, chain, lost>>
    BY <1>6 DEF BuyReceipt, NoReceipt, ReadAcquired, SellReceipt, ReadBaseAfter
  <2>2. act'[a].pc \notin SellingPCs
    BY <1>1, <1>3, <1>6 DEF BuyReceipt, NoReceipt, ReadAcquired, SellReceipt, ReadBaseAfter, Go, Task,
       SellingPCs
  <2>3. \A d \in Deals : SentKept(d)
    BY <2>1, NoSaleSent DEF Basis
  <2> QED
    BY <1>2, <1>4, <2>1, <2>2, <2>3, AuditQuiet DEF SellingPCs
<1>7. CASE WriteFailed(a)
  <2>1. PICK e, p : /\ e \in Deals /\ e = w.deal
                     /\ p = [w.pos EXCEPT !.status = "failed", !.returned = Stake]
                     /\ SameSales(p, w.pos)
    <3> DEFINE q == [w.pos EXCEPT !.status = "failed", !.returned = Stake]
    <3>1. w.pos.status = "buying"
      BY <1>5, <1>7 DEF WriteFailed, WorkingOK, WorkingPCs, BuyPCs
    <3>2. SameSales(q, w.pos)
      BY <1>1, <3>1 DEF Position, SameSales
    <3> QED
      BY <1>5, <3>2
  <2>2. /\ db' = [db EXCEPT ![e] = p] /\ UNCHANGED chain /\ LoseSight(e, Outdated(e, w.pos)) /\ Done(a)
    BY <1>7, <2>1 DEF WriteFailed, Save
  <2> QED
    BY <1>2, <1>3, <1>4, <2>1, <2>2, AuditSaves DEF SellingPCs
<1>8. CASE WriteHolding(a)
  <2>1. PICK e, p :
          /\ e \in Deals /\ e = w.deal /\ SameSales(p, w.pos)
          /\ p = [w.pos EXCEPT !.status = "holding",
                     !.acquired = AtLeastOne(w.bal - w.pos.targetBefore)]
    <3> DEFINE q == [w.pos EXCEPT !.status = "holding",
                         !.acquired = AtLeastOne(w.bal - w.pos.targetBefore)]
    <3>1. w.pos.status = "buying"
      BY <1>5, <1>8 DEF WriteHolding, WorkingOK, WorkingPCs, BuyPCs
    <3>2. SameSales(q, w.pos)
      BY <1>1, <3>1 DEF Position, SameSales
    <3> QED
      BY <1>5, <3>2
  <2>2. /\ db' = [db EXCEPT ![e] = p] /\ UNCHANGED chain /\ LoseSight(e, Outdated(e, w.pos))
    BY <1>8, <2>1 DEF WriteHolding, Save
  <2>3. act'[a].pc \notin SellingPCs
    <3>1. CASE Done(a)
      BY <1>3, <3>1
    <3>2. CASE act' = [act EXCEPT ![a] = [At("exit") EXCEPT !.deal = w.deal, !.pos = p]]
      BY <1>1, <3>2 DEF At, SellingPCs
    <3> QED
      BY <1>8, <2>1, <3>1, <3>2 DEF WriteHolding
  <2> QED
    BY <1>2, <1>4, <2>1, <2>2, <2>3, AuditSaves DEF SellingPCs
<1>9. CASE WriteSellReverted(a)
  <2>1. Truthful(w.deal, w.pos) /\ w.pos.status = "selling"
    BY <1>5, <1>9 DEF WriteSellReverted, WorkingOK, WorkingPCs, SalePCs, Current
  <2>2. PICK e \in Deals, p \in Position :
          /\ e = w.deal /\ p = [w.pos EXCEPT !.status = "holding", !.sellHash = None, !.sellGas = @ + 1]
          /\ p.status = "holding" /\ p.sellHash = None /\ p.sellGas = w.pos.sellGas + 1
    <3> DEFINE q == [w.pos EXCEPT !.status = "holding", !.sellHash = None, !.sellGas = @ + 1]
    <3>1. w.pos.sellGas + 1 \in Nat
      BY <1>1 DEF Position
    <3>2. q \in Position /\ q.status = "holding" /\ q.sellHash = None /\ q.sellGas = w.pos.sellGas + 1
      BY <1>1, <3>1 DEF Position, Statuses, None
    <3> QED
      BY <1>5, <3>2
  <2>3. /\ db' = [db EXCEPT ![e] = p] /\ UNCHANGED chain /\ LoseSight(e, Outdated(e, w.pos)) /\ Done(a)
    BY <1>9, <2>2 DEF WriteSellReverted, Save
  <2> QED
    BY <1>1, <1>2, <1>3, <1>4, <2>1, <2>2, <2>3, AuditEnds DEF SellingPCs
<1>10. CASE WriteClosed(a)
  <2>1. Truthful(w.deal, w.pos) /\ w.pos.status = "selling"
    BY <1>5, <1>10 DEF WriteClosed, WorkingOK, WorkingPCs, SalePCs, Current
  <2>2. PICK e \in Deals, p \in Position :
          /\ e = w.deal
          /\ p = [w.pos EXCEPT !.status = "closed", !.sellGas = @ + 1,
                     !.returned = NonNegative(w.bal - w.pos.baseBefore)]
          /\ p.status = "closed" /\ p.sellHash = w.pos.sellHash /\ p.sellGas = w.pos.sellGas + 1
    <3> DEFINE n == NonNegative(w.bal - w.pos.baseBefore)
               q == [w.pos EXCEPT !.status = "closed", !.sellGas = @ + 1, !.returned = n]
    <3>1. w.pos.sellGas + 1 \in Nat /\ n \in Nat
      BY <1>1 DEF Position, NonNegative, Task
    <3>2. /\ q \in Position /\ q.status = "closed" /\ q.sellHash = w.pos.sellHash
          /\ q.sellGas = w.pos.sellGas + 1
      BY <1>1, <3>1 DEF Position, Statuses
    <3> QED
      BY <1>5, <3>2
  <2>3. /\ db' = [db EXCEPT ![e] = p] /\ UNCHANGED chain /\ LoseSight(e, Outdated(e, w.pos)) /\ Done(a)
    BY <1>10, <2>2 DEF WriteClosed, Save
  <2> QED
    BY <1>1, <1>2, <1>3, <1>4, <2>1, <2>2, <2>3, AuditEnds DEF SellingPCs
<1> QED
  BY <1>6, <1>7, <1>8, <1>9, <1>10 DEF Settle

LEMMA ExitAudit == ASSUME Basis, IInv, Audit, NEW a \in Actors, Exit(a) PROVE Audit'
<1> DEFINE w == act[a]
<1>1. w \in Task /\ w.pos \in Position /\ act \in [Actors -> Task]
  BY DEF Basis, TypeOK, Task
<1>2. \A b \in Actors \ {a} : act'[b] = act[b]
  BY <1>1 DEF Exit, Postpone, AgreeToSell, ReadBaseBefore, SendSell, RecordSell, Done
<1>3. w.deal \in Deals /\ WorkingOK(w)
  BY DEF Basis, Named, RestPCs, IInv, Working, Exit, Postpone, AgreeToSell, ReadBaseBefore, SendSell,
     RecordSell
<1>4. CASE Postpone(a)
  <2>1. UNCHANGED <<db, chain, lost>> /\ w.pc = "exit" /\ Done(a)
    BY <1>4 DEF Postpone
  <2>2. act'[a].pc \notin SellingPCs
    BY <1>1, <2>1 DEF Done, At, SellingPCs
  <2>3. \A d \in Deals : SentKept(d)
    BY <2>1, NoSaleSent DEF Basis
  <2> QED
    BY <1>2, <2>1, <2>2, <2>3, AuditQuiet
<1>5. CASE AgreeToSell(a) \/ ReadBaseBefore(a)
  <2>1. /\ UNCHANGED <<db, chain, lost>> /\ w.pc # "recordSell"
        /\ act'[a].pc \in {"sellBalance", "sendSell"} /\ act'[a].pos = w.pos
    BY <1>1, <1>5 DEF AgreeToSell, ReadBaseBefore, Task
  <2>2. Agreed(act[a])'
    <3>1. CASE AgreeToSell(a)
      <4>1. PICK offer \in Offers : ProfitIfSold(w.pos, offer) >= Needed(a) /\ act'[a].offer = offer
        BY <1>1, <3>1 DEF AgreeToSell, Task
      <4>2. Needed(a) \in Int /\ Needed(a) >= MinExitProfitWaiting
        BY ThresholdsAssumption DEF Needed
      <4>3. ProfitIfSold(w.pos, offer) \in Int
        BY <1>1, AmountsAssumption DEF ProfitIfSold, Position
      <4> QED
        BY <2>1, <4>1, <4>2, <4>3, ThresholdsAssumption DEF Agreed, ProfitIfSold
    <3>2. CASE ReadBaseBefore(a)
      BY <1>1, <2>1, <3>2 DEF ReadBaseBefore, Task, Audit, Agreed, ProfitIfSold
    <3> QED
      BY <1>5, <3>1, <3>2
  <2>3. Fresh(act[a])'
    BY <2>1 DEF Fresh
  <2>4. ASSUME NEW d \in Deals, d \notin lost' PROVE Counted(d)'
    <3>1. Counted(d) /\ SentKept(d) /\ SameSales(db'[d], db[d])
      BY <2>1, <2>4, NoSaleSent DEF Audit, SameSales, Basis
    <3>2. \A b \in Actors : \/ act'[b] = act[b]
                            \/ /\ act[b].pc = "recordSell" => act[b].deal # d
                               /\ act'[b].pc = "recordSell" => act'[b].deal # d
      BY <1>2, <2>1
    <3> QED
      BY <3>1, <3>2, CountedKept
  <2> QED
    BY <1>2, <2>2, <2>3, <2>4, AuditStep
<1>6. CASE SendSell(a)
  <2>1. PICK e \in Deals, q \in Position, h \in Nat : e = w.deal /\ q = w.pos /\ h = Len(chain) + 1
    BY <1>1, <1>3 DEF Basis, TypeOK
  <2>2. w.pc = "sendSell" /\ Truthful(e, q) /\ q.status = "holding" /\ w.offer \in Nat
    BY <1>1, <1>3, <1>6, <2>1 DEF SendSell, WorkingOK, WorkingPCs, ExitPCs, Current, Task
  <2>3. PICK tx \in Transaction :
          tx.deal = e /\ tx.kind = "sell" /\ tx.price = w.offer /\ chain' = Append(chain, tx)
    BY <1>1, <1>6, <2>1, <2>2 DEF SendSell, Accept, Transaction, Position
  <2>4. /\ UNCHANGED db /\ LoseSight(e, Outdated(e, q) \/ Recording(e) # {})
        /\ act'[a].pc = "recordSell" /\ act'[a].deal = e /\ act'[a].tx = h
    BY <1>1, <1>6, <2>1 DEF SendSell, Task
  <2>5. ASSUME NEW d \in Deals, d \notin lost', d # e PROVE Counted(d)'
    <3>1. Counted(d) /\ SentKept(d) /\ SameSales(db'[d], db[d])
      BY <2>3, <2>4, <2>5, NoSaleSent DEF Audit, SameSales, Basis, LoseSight
    <3>2. \A b \in Actors : \/ act'[b] = act[b]
                            \/ /\ act[b].pc = "recordSell" => act[b].deal # d
                               /\ act'[b].pc = "recordSell" => act'[b].deal # d
      BY <1>2, <2>2, <2>4, <2>5
    <3> QED
      BY <3>1, <3>2, CountedKept
  <2>6. ASSUME e \notin lost' PROVE Counted(e)'
    <3>1. e \notin lost /\ SameSales(q, db[e]) /\ Recording(e) = {}
      BY <2>4, <2>6 DEF LoseSight, Outdated
    <3>2. q.sellHash = None /\ db[e].sellHash = None /\ db[e].status # "closed"
          /\ db[e].sellGas = q.sellGas
      BY <2>2, <3>1 DEF SameSales, Truthful
    <3>3. Cardinality(Sent(e, "sell")) = q.sellGas
      BY <3>1, <3>2 DEF Audit, Counted, UnderWay, Position
    <3>4. Cardinality(Sent(e, "sell")') = q.sellGas + 1 /\ chain'[h].price = w.offer
      BY <2>1, <2>3, <3>3, SaleSent DEF Basis
    <3>5. Recording(e)' = {a}
      BY <1>2, <2>4, <3>1 DEF Recording
    <3>6. ProfitIfSold(q, w.offer) >= MinExitProfitWaiting
      BY <2>1, <2>2 DEF Audit, Agreed
    <3>7. Covers(e, chain[h].price)'
      <4>1. q.sellGas + 1 + 1 = q.sellGas + 2
        BY DEF Position
      <4> QED
        BY <3>4, <3>6, <4>1 DEF Covers, ProfitIfSold
    <3>8. UnderWay(e)'
      BY <3>5 DEF UnderWay
    <3>9. Cardinality(Sent(e, "sell")') = db'[e].sellGas + (IF UnderWay(e)' THEN 1 ELSE 0)
      BY <2>4, <3>2, <3>4, <3>8
    <3>10. db'[e].sellHash = None /\ db'[e].status # "closed"
      BY <2>4, <3>2
    <3>11. \A b \in Recording(e)' : Covers(e, chain[act[b].tx].price)'
      BY <2>4, <3>5, <3>7
    <3>12. \A b, c \in Recording(e)' : b = c
      BY <3>5
    <3> QED
      BY <3>9, <3>10, <3>11, <3>12 DEF Counted
  <2>7. Agreed(act[a])' /\ Fresh(act[a])'
    BY <2>4 DEF Agreed, Fresh
  <2> QED
    BY <1>2, <2>5, <2>6, <2>7, AuditStep
<1>7. CASE RecordSell(a)
  <2>1. PICK e \in Deals, q \in Position : e = w.deal /\ q = w.pos
    BY <1>1, <1>3
  <2>2. /\ w.pc = "recordSell" /\ q.status = "holding" /\ w.tx # None
    BY <1>3, <1>7, <2>1 DEF RecordSell, WorkingOK, WorkingPCs, ExitPCs, HasSell, None
  <2>3. PICK p : /\ p = [q EXCEPT !.status = "selling", !.sellHash = w.tx, !.baseBefore = w.bal]
                 /\ p.status = "selling" /\ p.sellHash = w.tx /\ p.sellGas = q.sellGas
    <3> DEFINE r == [q EXCEPT !.status = "selling", !.sellHash = w.tx, !.baseBefore = w.bal]
    <3>1. r.status = "selling" /\ r.sellHash = w.tx /\ r.sellGas = q.sellGas
      BY DEF Position
    <3> QED
      BY <3>1
  <2>4. /\ db' = [db EXCEPT ![e] = p] /\ UNCHANGED chain /\ LoseSight(e, Outdated(e, q))
        /\ act'[a].pc = "waitSell"
    BY <1>1, <1>7, <2>1, <2>3 DEF RecordSell, Save, Task
  <2>5. ASSUME e \notin lost' PROVE Counted(e)'
    <3>1. e \notin lost /\ SameSales(q, db[e]) /\ db'[e] = p
      BY <2>4, <2>5 DEF LoseSight, Outdated, Basis, TypeOK
    <3>2. a \in Recording(e)
      BY <2>1, <2>2 DEF Recording
    <3>3. /\ Counted(e) /\ SentKept(e) /\ \A b \in Recording(e) : b = a
      BY <2>4, <3>1, <3>2, NoSaleSent DEF Audit, Basis, Counted
    <3>4. Recording(e)' = {}
      BY <1>2, <2>4, <3>3 DEF Recording
    <3>5. UnderWay(e) /\ UnderWay(e)'
      BY <2>2, <2>3, <3>1, <3>2 DEF UnderWay
    <3>6. Cardinality(Sent(e, "sell")') = p.sellGas + 1
      BY <2>3, <3>1, <3>3, <3>5 DEF Counted, SentKept, SameSales
    <3>7. Covers(e, chain[p.sellHash].price)
      BY <2>3, <3>2, <3>3 DEF Counted
    <3>8. Covers(e, chain[p.sellHash].price)'
      BY <2>4, <3>3, <3>7 DEF Covers, SentKept
    <3>9. Cardinality(Sent(e, "sell")') = db'[e].sellGas + (IF UnderWay(e)' THEN 1 ELSE 0)
      BY <3>1, <3>5, <3>6
    <3> QED
      BY <3>1, <3>4, <3>8, <3>9 DEF Counted
  <2>6. lost \subseteq lost' /\ act'[a].pc \notin SellingPCs
    BY <2>4 DEF LoseSight, SellingPCs
  <2> QED
    BY <1>2, <2>1, <2>4, <2>5, <2>6, AuditWrites
<1> QED
  BY <1>4, <1>5, <1>6, <1>7 DEF Exit

LEMMA WatchAudit == ASSUME Basis, IInv, Audit, Watch PROVE Audit'
<1>1. /\ act \in [Actors -> Task] /\ "watcher" \in Actors /\ UNCHANGED chain
      /\ \A b \in Actors \ {"watcher"} : act'[b] = act[b]
  BY DEF Watch, Tick, Advance, EndTick, MarkNotified, Basis, TypeOK, Actors
<1>2. act["watcher"].pc \in {"idle", "next", "notify"} /\ act'["watcher"].pc \notin SellingPCs
  <2>1. CASE Tick
    BY <1>1, <2>1 DEF Tick, At, SellingPCs
  <2>2. CASE Advance
    <3>1. act["watcher"].pc = "next"
      BY <2>2 DEF Advance
    <3>2. \/ UNCHANGED act
          \/ \E pc \in {"waitBuy", "waitSell", "exit"}, s \in queue, h \in Nat :
               act' = [act EXCEPT !["watcher"] = [At(pc) EXCEPT !.deal = s.deal, !.pos = s.pos, !.tx = h]]
      BY <2>2 DEF Advance, Basis, TypeOK, Snapshot, Position, None
    <3>3. CASE UNCHANGED act
      BY <3>1, <3>3 DEF SellingPCs
    <3>4. CASE ~UNCHANGED act
      <4>1. PICK pc \in {"waitBuy", "waitSell", "exit"} : act'["watcher"].pc = pc
        BY <1>1, <3>2, <3>4 DEF At
      <4> QED
        BY <3>1, <4>1 DEF SellingPCs
    <3> QED
      BY <3>1, <3>3, <3>4
  <2>3. CASE EndTick
    BY <1>1, <2>3 DEF EndTick, At, SellingPCs
  <2>4. CASE MarkNotified
    BY <1>1, <2>4 DEF MarkNotified, At, SellingPCs
  <2> QED
    BY <2>1, <2>2, <2>3, <2>4 DEF Watch
<1>3. \A d \in Deals : SentKept(d)
  BY <1>1, NoSaleSent DEF Basis
<1>4. CASE Tick \/ Advance \/ EndTick
  <2>1. UNCHANGED <<db, lost>>
    BY <1>4 DEF Tick, Advance, EndTick
  <2> QED
    BY <1>1, <1>2, <1>3, <2>1, AuditQuiet
<1>5. CASE MarkNotified
  <2>1. PICK s \in notices : /\ db' = [db EXCEPT ![s.deal] = [s.pos EXCEPT !.notified = TRUE]]
                             /\ LoseSight(s.deal, Outdated(s.deal, s.pos))
    BY <1>5 DEF MarkNotified
  <2>2. s.deal \in Deals /\ s.pos \in Position
    BY DEF Basis, TypeOK, Snapshot
  <2>3. PICK e, p : /\ e \in Deals /\ e = s.deal /\ p = [s.pos EXCEPT !.notified = TRUE]
                     /\ SameSales(p, s.pos)
    <3> DEFINE q == [s.pos EXCEPT !.notified = TRUE]
    <3>1. SameSales(q, s.pos)
      BY <2>2 DEF Position, SameSales
    <3> QED
      BY <2>2, <3>1
  <2> QED
    BY <1>1, <1>2, <2>1, <2>3, AuditSaves
<1> QED
  BY <1>4, <1>5 DEF Watch

LEMMA FaultAudit ==
  ASSUME Basis, IInv, Audit, NEW a \in Actors, Join(a) \/ Raise(a) \/ SendUnanswered(a) \/ Restart
  PROVE  Audit'
<1>1. act[a] \in Task /\ act \in [Actors -> Task]
  BY DEF Basis, TypeOK
<1>2. CASE Join(a) \/ Raise(a)
  <2>1. PICK pc \in {"idle", "next"} : act' = [act EXCEPT ![a] = At(pc)]
    BY <1>2 DEF Join, Raise, Done
  <2>2. act'[a].pc = pc /\ \A b \in Actors \ {a} : act'[b] = act[b]
    BY <1>1, <2>1 DEF At
  <2>3. UNCHANGED <<db, chain>> /\ lost \subseteq lost'
    BY <1>2 DEF Join, Raise, LoseSight
  <2>4. act[a].pc = "recordSell" => act[a].deal \in lost'
    BY <1>2 DEF Join, Raise, LoseSight
  <2>5. \A d \in Deals : SentKept(d)
    BY <2>3, NoSaleSent DEF Basis
  <2> QED
    BY <2>2, <2>3, <2>4, <2>5, AuditQuiet DEF SellingPCs
<1>3. CASE SendUnanswered(a)
  <2>1. PICK pc \in {"idle", "next"} : act' = [act EXCEPT ![a] = At(pc)]
    BY <1>3 DEF SendUnanswered, Done
  <2>2. act'[a].pc = pc /\ \A b \in Actors \ {a} : act'[b] = act[b]
    BY <1>1, <2>1 DEF At
  <2>3. UNCHANGED db /\ lost \subseteq lost' /\ act[a].pc \in {"sendBuy", "sendSell"}
        /\ (act[a].pc = "sendSell" => act[a].deal \in lost')
    BY <1>3 DEF SendUnanswered, LoseSight
  <2>4. act[a].deal \in Deals /\ act[a].pos.acquired \in Nat /\ act[a].offer \in Nat
    BY <1>1, <2>3 DEF Basis, Named, RestPCs, Task, Position
  <2>5. PICK tx \in Transaction : /\ chain' = Append(chain, tx) /\ tx.deal = act[a].deal
                                  /\ act[a].pc = "sendBuy" => tx.kind = "buy"
    BY <1>3, <2>4, AmountsAssumption DEF SendUnanswered, Accept, Transaction
  <2>6. ASSUME NEW d \in Deals, d \notin lost' PROVE Counted(d)'
    <3>1. tx.kind = "buy" \/ tx.deal # d
      BY <2>3, <2>5, <2>6
    <3>2. Counted(d) /\ SentKept(d) /\ SameSales(db'[d], db[d])
      BY <2>3, <2>5, <2>6, <3>1, NoSaleSent DEF Audit, SameSales, Basis
    <3>3. \A b \in Actors : \/ act'[b] = act[b]
                            \/ /\ act[b].pc = "recordSell" => act[b].deal # d
                               /\ act'[b].pc = "recordSell" => act'[b].deal # d
      BY <2>2, <2>3
    <3> QED
      BY <3>2, <3>3, CountedKept
  <2>7. Agreed(act[a])' /\ Fresh(act[a])'
    BY <2>2 DEF Agreed, Fresh
  <2> QED
    BY <2>2, <2>6, <2>7, AuditStep
<1>4. CASE Restart
  <2>1. UNCHANGED <<db, chain>> /\ lost' = lost \cup {d \in Deals : Recording(d) # {}}
    BY <1>4 DEF Restart
  <2>2. \A b \in Actors : act'[b].pc = "idle"
    BY <1>4 DEF Restart, At
  <2>3. ASSUME NEW d \in Deals, d \notin lost' PROVE Counted(d)'
    <3>1. Recording(d) = {} /\ Counted(d) /\ SentKept(d) /\ SameSales(db'[d], db[d])
      BY <2>1, <2>3, NoSaleSent DEF Audit, SameSales, Basis
    <3>2. \A b \in Actors : \/ act'[b] = act[b]
                            \/ /\ act[b].pc = "recordSell" => act[b].deal # d
                               /\ act'[b].pc = "recordSell" => act'[b].deal # d
      BY <2>2, <3>1 DEF Recording
    <3> QED
      BY <3>1, <3>2, CountedKept
  <2> QED
    BY <2>2, <2>3 DEF Audit, Agreed, Fresh
<1> QED
  BY <1>2, <1>3, <1>4

LEMMA NextAudit == ASSUME Basis, IInv, Audit, [Next]_vars PROVE Audit'
<1>1. CASE UNCHANGED vars \/ Mine
  <2>1. UNCHANGED <<db, act, lost>>
    BY <1>1 DEF vars, Mine
  <2>2. ASSUME NEW d \in Deals PROVE SentKept(d)
    <3>1. CASE UNCHANGED vars
      BY <3>1, NoSaleSent DEF vars, Basis
    <3>2. CASE Mine
      <4>1. \E h \in 1..Len(chain), outcome \in {"succeeded", "reverted"} :
              chain' = [chain EXCEPT ![h].outcome = outcome]
        BY <3>2 DEF Mine
      <4> QED
        BY <4>1, NoSaleSent DEF Basis
    <3> QED
      BY <1>1, <3>1, <3>2
  <2>3. ASSUME NEW d \in Deals, d \notin lost' PROVE Counted(d)'
    <3>1. Counted(d) /\ SentKept(d) /\ SameSales(db'[d], db[d])
      BY <2>1, <2>2, <2>3 DEF Audit, SameSales
    <3> QED
      BY <2>1, <3>1, CountedKept
  <2> QED
    BY <2>1, <2>3 DEF Audit, Agreed, Fresh, ProfitIfSold
<1> QED
  BY <1>1, OpenAudit, SettleAudit, ExitAudit, WatchAudit, FaultAudit DEF Next, Actors

LEMMA InitAudit == Init => Audit
<1> SUFFICES ASSUME Init PROVE Audit
  OBVIOUS
<1>1. \A a \in Actors : act[a].pc = "idle"
  BY DEF Init, At
<1>2. ASSUME NEW d \in Deals PROVE Counted(d)
  <2>1. /\ db[d].status = "absent" /\ db[d].sellHash = None /\ db[d].sellGas = 0
        /\ Recording(d) = {} /\ Sent(d, "sell") = {}
    BY <1>1 DEF Init, Absent, Recording, Sent
  <2>2. Cardinality(Sent(d, "sell")) = 0
    BY <2>1, FS_EmptySet
  <2> QED
    BY <2>1, <2>2 DEF Counted, UnderWay
<1> QED
  BY <1>1, <1>2 DEF Audit, Agreed, Fresh

(* All transactions of a deal are its one buy and its sales.                *)
LEMMA OfADeal ==
  ASSUME IInv, NEW d \in Deals, NEW b \in Sent(d, "buy")
  PROVE  Burnt(d) = Gas * (Cardinality(Sent(d, "sell")) + 1)
<1>1. {h \in 1..Len(chain) : chain[h].deal = d} = Sent(d, "sell") \cup {b}
  BY ChainType DEF Sent, IInv, Stored, OneBuy
<1>2. b \notin Sent(d, "sell")
  BY DEF Sent
<1>3. Cardinality(Sent(d, "sell") \cup {b}) = Cardinality(Sent(d, "sell")) + 1
  BY <1>2, SentFinite, FS_AddElement DEF IInv
<1> QED
  BY <1>1, <1>3 DEF Burnt

LEMMA InitHolds == Init => IInv
<1> SUFFICES ASSUME Init PROVE IInv
  OBVIOUS
<1>1. TypeOK
  BY InitBasis DEF Basis
<1>3. Len(chain) = 0 /\ \A d \in Deals : db[d].status = "absent" /\ db[d].buyHash = None /\ db[d].sellHash = None
  BY DEF Init, Absent
<1>4. Stored
  BY <1>3 DEF Stored, RecordedBeforeSent, RowsTruthful, SalesTruthful, OneBuy, BuyKnown, SalesPay
<1>5. Queued /\ Noticed
  BY DEF Init, Queued, Noticed
<1>6. \A a \in Actors : act[a].pc = "idle"
  BY DEF Init, At
<1>7. Opening /\ Working /\ Roles
  BY <1>6 DEF Opening, Working, Roles, OpeningOK, WorkingOK, WorkingPCs, BuyPCs, ExitPCs, SalePCs, Actors
<1> QED
  BY <1>1, <1>4, <1>5, <1>7 DEF IInv

(***************************************************************************)
(* Theorems                                                                 *)
(***************************************************************************)
LEMMA Invariance == Spec => [](Basis /\ (~merging => IInv /\ Audit))
<1>1. Init => Basis /\ (~merging => IInv /\ Audit)
  BY InitHolds, InitBasis, InitAudit
<1>2. Basis /\ (~merging => IInv /\ Audit) /\ [Next]_vars => (Basis /\ (~merging => IInv /\ Audit))'
  BY NextKept, NextAudit, BasisKept DEF Next, vars, Basis
<1> QED
  BY <1>1, <1>2, PTL DEF Spec

(* Every variable keeps its type, whatever the interleaving of the two tasks *)
(* and whether or not their requests are merged.                            *)
THEOREM TypeCorrect == Spec => []TypeOK
BY Invariance, PTL DEF Basis

(* TradeExecutor writes the row before it sends the buy: no transaction of  *)
(* the account is of a deal the database does not know, even where requests *)
(* are merged.                                                              *)
THEOREM EverySentIsRecorded == Spec => []RecordedBeforeSent
BY Invariance, PTL DEF Basis, Rows

(* The hashes in a row are those of the deal's own transactions, even where *)
(* a task is answered with the receipt of another deal.                     *)
THEOREM RowsNameOwnTransactions == Spec => []HashesAreOwn
<1>1. Basis => HashesAreOwn
  BY DEF Basis, Rows, Own, HashesAreOwn, Sent, HasBuy, HasSell
<1> QED
  BY <1>1, Invariance, PTL

(* The inductive invariant has the safety properties of the settlement.     *)
LEMMA SettlementSafe ==
  ASSUME IInv, Audit
  PROVE  BuyStatusIsTrue /\ SaleFollowsPurchase /\ ClosedAtAProfit
<1>1. \A h \in 1..Len(chain) : chain[h].deal \in Deals
  BY ChainType DEF IInv
<1>2. ASSUME NEW d \in Deals, NEW h \in Sent(d, "buy"), db[d].buyHash # None
      PROVE  db[d].buyHash = h
  BY <1>2 DEF Sent, IInv, Stored, BuyKnown
<1>3. ASSUME NEW d \in Deals, NEW h \in Sent(d, "buy")
      PROVE  db[d].status # "absent" /\ Truthful(d, db[d])
  BY <1>3 DEF Sent, IInv, Stored, RecordedBeforeSent, RowsTruthful
<1>4. ASSUME NEW d \in Deals, NEW h \in Sent(d, "buy")
      PROVE  /\ Pending(h) => db[d].status = "buying"
             /\ db[d].status = "failed" => Outcome(h) = "reverted"
             /\ db[d].status \in {"holding", "selling", "closed"} => Outcome(h) = "succeeded"
  <2>1. db[d].status \in Statuses /\ db[d].status # "absent" /\ Truthful(d, db[d])
    BY <1>3, <1>4 DEF IInv, TypeOK, Position
  <2>2. db[d].buyHash # None => db[d].buyHash = h
    BY <1>2, <1>4
  <2>3. ASSUME db[d].status # "buying" PROVE db[d].buyHash = h
    BY <2>1, <2>2, <2>3 DEF Truthful
  <2>4. Pending(h) => Outcome(h) = "pending"
    BY DEF Pending
  <2> QED
    BY <2>1, <2>3, <2>4 DEF Truthful, Statuses
<1>5. BuyStatusIsTrue
  BY <1>4 DEF BuyStatusIsTrue
<1>6. SaleFollowsPurchase
  BY DEF SaleFollowsPurchase, Sent, IInv, Stored, SalesTruthful, RowsTruthful, Truthful, HasBuy
<1>7. ASSUME NEW d \in Deals, db[d].status = "closed"
      PROVE  \E h \in Sent(d, "sell") :
               /\ Outcome(h) = "succeeded"
               /\ chain[h].price - Stake - (IF d \in lost THEN 2 * Gas ELSE Burnt(d))
                    >= MinExitProfitWaiting
  <2> DEFINE h == db[d].sellHash
  <2>1. h \in Sent(d, "sell") /\ Outcome(h) = "succeeded" /\ h # None
    BY <1>7 DEF Sent, IInv, Stored, RowsTruthful, Truthful, HasSell
  <2>2. db[d].buyHash \in Sent(d, "buy")
    BY <1>7 DEF Sent, IInv, Stored, RowsTruthful, Truthful, HasBuy
  <2>3. CASE d \in lost
    BY <2>1, <2>3 DEF Sent, IInv, Stored, SalesPay, Pays
  <2>4. CASE d \notin lost
    BY <2>1, <2>2, <2>4, OfADeal DEF Audit, Counted, Covers
  <2> QED
    BY <2>1, <2>3, <2>4
<1>8. ClosedAtAProfit
  BY <1>7 DEF ClosedAtAProfit
<1> QED
  BY <1>5, <1>6, <1>8

(* Where requests are merged, these properties say nothing.                 *)
LEMMA MergedSafe == merging => BuyStatusIsTrue /\ SaleFollowsPurchase /\ ClosedAtAProfit
BY DEF BuyStatusIsTrue, SaleFollowsPurchase, ClosedAtAProfit

(* What the status says of the buy is what the network did: no task with an *)
(* old copy of the row declares bought or failed what is not in a block.    *)
THEOREM BuyStatusHolds == Spec => []BuyStatusIsTrue
BY Invariance, SettlementSafe, MergedSafe, PTL

(* A sale is sent only for a deal whose purchase is on the account.         *)
THEOREM SalesFollowPurchases == Spec => []SaleFollowsPurchase
BY Invariance, SettlementSafe, MergedSafe, PTL

(* No deal is closed at a loss: the guaranteed amount of its sale pays for   *)
(* the stake, the threshold and the gas of all its transactions, reverted    *)
(* sales included, unless a sale of it was lost sight of.                    *)
THEOREM NothingClosesAtALoss == Spec => []ClosedAtAProfit
BY Invariance, SettlementSafe, MergedSafe, PTL

(***************************************************************************)
(* Old copies of a row                                                      *)
(***************************************************************************)
(* Someone may still settle the buy of d with the copy p of its row.        *)
HasCopy(d, p) ==
  \/ \E a \in Actors : act[a].pc \in BuyPCs /\ act[a].deal = d /\ act[a].pos = p
  \/ /\ p.status = "buying" /\ p.buyHash # None
     /\ [deal |-> d, pos |-> p] \in queue

FailedRow(p) == [p EXCEPT !.status = "failed", !.returned = Stake]

(* While the buy is not settled, or has failed, the copy is not out of date. *)
Matches(d, p) ==
  /\ db[d].status = "buying" => db[d] = p
  /\ db[d].status = "failed" => db[d] = FailedRow(p)

CopiesMatch == \A d \in Deals, p \in Position : HasCopy(d, p) => Matches(d, p)

(* How a step may change a row. *)
RowStep(d) ==
  \/ db'[d] = db[d]
  \/ db[d].buyHash = None
  \/ /\ db'[d].status \in {"holding", "selling", "closed"}
     /\ db'[d].buyHash = db[d].buyHash /\ Outcome(db[d].buyHash) = "succeeded"
  \/ \E p \in Position :
       HasCopy(d, p) /\ Outcome(p.buyHash) = "reverted" /\ db'[d] = FailedRow(p)

LEMMA CopyCurrent ==
  ASSUME IInv, NEW d \in Deals, NEW p \in Position, HasCopy(d, p)
  PROVE  Current(d, p) /\ p.status = "buying"
BY DEF HasCopy, IInv, Working, WorkingOK, WorkingPCs, Queued

LEMMA RowOf ==
  ASSUME IInv, NEW d \in Deals
  PROVE  /\ db[d] \in Position
         /\ db[d].buyHash = None => db[d].status \in {"absent", "buying"}
         /\ db[d].buyHash # None => Truthful(d, db[d])
BY DEF IInv, TypeOK, Stored, RowsTruthful, Truthful

(* Only the row of the task's deal changes.                                 *)
LEMMA SaveSteps ==
  ASSUME IInv, NEW e \in Deals, NEW p, db' = [db EXCEPT ![e] = p],
         p = db'[e] => RowStep(e)
  PROVE  \A d \in Deals : RowStep(d)
BY DEF IInv, TypeOK, RowStep

LEMMA SettleRows ==
  ASSUME IInv, NEW a \in Actors, Settle(a)
  PROVE  \A d \in Deals : RowStep(d)
<1> DEFINE w == act[a]
<1>1. w \in Task /\ w.pos \in Position /\ WorkingOK(w) /\ db \in [Deals -> Position]
  BY DEF IInv, TypeOK, Task, Working
<1>2. CASE UNCHANGED db
  BY <1>2 DEF RowStep
<1>3. CASE WriteFailed(a)
  <2>1. w.deal \in Deals /\ Outcome(w.pos.buyHash) = "reverted" /\ w.pc = "buyReverted"
    BY <1>1, <1>3 DEF WriteFailed, WorkingOK, WorkingPCs, BuyPCs
  <2>2. db' = [db EXCEPT ![w.deal] = FailedRow(w.pos)]
    BY <1>3 DEF WriteFailed, Save, FailedRow
  <2>3. HasCopy(w.deal, w.pos)
    BY <2>1 DEF HasCopy, BuyPCs
  <2>4. RowStep(w.deal)
    BY <1>1, <2>1, <2>2, <2>3 DEF RowStep
  <2> QED
    BY <2>1, <2>2, <2>4, SaveSteps
<1>4. ASSUME NEW p, Save(a, p), w.deal \in Deals, Current(w.deal, w.pos),
             Outcome(w.pos.buyHash) = "succeeded", p.buyHash = w.pos.buyHash,
             p.status \in {"holding", "selling", "closed"}
      PROVE  \A d \in Deals : RowStep(d)
  <2>1. db' = [db EXCEPT ![w.deal] = p]
    BY <1>4 DEF Save
  <2>2. RowStep(w.deal)
    BY <1>1, <1>4, <2>1 DEF RowStep, Current
  <2> QED
    BY <1>4, <2>1, <2>2, SaveSteps
<1>5. CASE WriteHolding(a)
  <2> DEFINE p == [w.pos EXCEPT !.status = "holding",
              !.acquired = AtLeastOne(w.bal - w.pos.targetBefore)]
  <2>1. p.status = "holding" /\ p.buyHash = w.pos.buyHash
    BY <1>1 DEF Position
  <2>2. w.deal \in Deals /\ Current(w.deal, w.pos) /\ Outcome(w.pos.buyHash) = "succeeded"
    BY <1>1, <1>5 DEF WriteHolding, WorkingOK, WorkingPCs, BuyPCs
  <2>3. Save(a, p)
    BY <1>5 DEF WriteHolding
  <2> QED
    BY <1>4, <2>1, <2>2, <2>3
<1>6. CASE WriteSellReverted(a)
  <2> DEFINE p == [w.pos EXCEPT !.status = "holding", !.sellHash = None, !.sellGas = @ + 1]
  <2>1. p.status = "holding" /\ p.buyHash = w.pos.buyHash
    BY <1>1 DEF Position
  <2>2. w.deal \in Deals /\ Current(w.deal, w.pos) /\ Outcome(w.pos.buyHash) = "succeeded"
    BY <1>1, <1>6 DEF WriteSellReverted, WorkingOK, WorkingPCs, SalePCs, BuyPCs, Current, Truthful
  <2>3. Save(a, p)
    BY <1>6 DEF WriteSellReverted
  <2> QED
    BY <1>4, <2>1, <2>2, <2>3
<1>7. CASE WriteClosed(a)
  <2> DEFINE p == [w.pos EXCEPT !.status = "closed", !.sellGas = @ + 1,
                !.returned = NonNegative(w.bal - w.pos.baseBefore)]
  <2>1. p.status = "closed" /\ p.buyHash = w.pos.buyHash
    BY <1>1 DEF Position
  <2>2. w.deal \in Deals /\ Current(w.deal, w.pos) /\ Outcome(w.pos.buyHash) = "succeeded"
    BY <1>1, <1>7 DEF WriteClosed, WorkingOK, WorkingPCs, SalePCs, BuyPCs, Current, Truthful
  <2>3. Save(a, p)
    BY <1>7 DEF WriteClosed
  <2> QED
    BY <1>4, <2>1, <2>2, <2>3
<1> QED
  BY <1>2, <1>3, <1>5, <1>6, <1>7
  DEF Settle, BuyReceipt, NoReceipt, ReadAcquired, SellReceipt, ReadBaseAfter

LEMMA NextRows ==
  ASSUME IInv, [Next]_vars
  PROVE  \A d \in Deals : RowStep(d)
<1>1. CASE UNCHANGED db
  BY <1>1 DEF RowStep
<1>2. CASE CreateRecord \/ RecordBuy
  <2> DEFINE w == act["executor"]
  <2>1. w.deal \in Deals /\ db[w.deal].buyHash = None
    BY <1>2, RowOf DEF CreateRecord, RecordBuy, IInv, Opening, OpeningOK, Unrecorded, Stored,
       RowsTruthful, Truthful
  <2>2. RowStep(w.deal)
    BY <2>1 DEF RowStep
  <2> QED
    BY <1>2, <2>1, <2>2, SaveSteps DEF CreateRecord, RecordBuy, Save
<1>3. ASSUME NEW a \in Actors, RecordSell(a)
      PROVE  \A d \in Deals : RowStep(d)
  <2> DEFINE w == act[a]
             p == [w.pos EXCEPT !.status = "selling", !.sellHash = w.tx, !.baseBefore = w.bal]
  <2>1. w.deal \in Deals /\ Current(w.deal, w.pos) /\ w.pos.status = "holding"
    BY <1>3 DEF RecordSell, IInv, Working, WorkingOK, WorkingPCs, ExitPCs
  <2>2. db' = [db EXCEPT ![w.deal] = p]
    BY <1>3 DEF RecordSell, Save
  <2>3. p.status = "selling" /\ p.buyHash = w.pos.buyHash
    BY DEF IInv, TypeOK, Task, Position
  <2>4. RowStep(w.deal)
    BY <2>1, <2>2, <2>3 DEF RowStep, Current, Truthful, IInv, TypeOK
  <2> QED
    BY <2>1, <2>2, <2>4, SaveSteps
<1>4. CASE MarkNotified
  <2>1. PICK s \in notices : db' = [db EXCEPT ![s.deal] = [s.pos EXCEPT !.notified = TRUE]]
    BY <1>4 DEF MarkNotified
  <2>2. /\ s.deal \in Deals /\ s.pos \in Position /\ s.pos.status = "holding"
        /\ Current(s.deal, s.pos)
    BY DEF IInv, TypeOK, Snapshot, Noticed
  <2>3. /\ [s.pos EXCEPT !.notified = TRUE].status = "holding"
        /\ [s.pos EXCEPT !.notified = TRUE].buyHash = s.pos.buyHash
    BY <2>2 DEF Position
  <2>4. RowStep(s.deal)
    BY <2>1, <2>2, <2>3 DEF RowStep, Current, Truthful, IInv, TypeOK
  <2> QED
    BY <2>1, <2>2, <2>4, SaveSteps
<1> QED
  BY <1>1, <1>2, <1>3, <1>4, SettleRows
  DEF Next, Open, ReadBalance, RejectFinds, ChooseFind, PrepareBuy, BuyWouldRevert, SendBuy, Exit,
      Postpone, AgreeToSell, ReadBaseBefore, SendSell, Join, Raise, SendUnanswered, Watch, Tick,
      Advance, EndTick, Mine, Restart, vars

(* What the steps make of the rows is what NoWayBack asks for.              *)
LEMMA RowsNeverGoBack ==
  ASSUME IInv, CopiesMatch, NEW d \in Deals, RowStep(d)
  PROVE  /\ db[d].status \notin {"absent", "buying"} => db'[d].status \notin {"absent", "buying"}
         /\ db[d].buyHash # None => db'[d].buyHash = db[d].buyHash
         /\ db[d].status = "failed" => db'[d] = db[d]
<1>1. CASE db'[d] = db[d]
  BY <1>1
<1>2. CASE db[d].buyHash = None
  BY <1>2, RowOf
<1>3. CASE /\ db'[d].status \in {"holding", "selling", "closed"}
           /\ db'[d].buyHash = db[d].buyHash /\ Outcome(db[d].buyHash) = "succeeded"
  BY <1>3, RowOf DEF Truthful
<1>4. ASSUME NEW p \in Position, HasCopy(d, p), db'[d] = FailedRow(p)
      PROVE  /\ db'[d].status = "failed" /\ db'[d].buyHash = db[d].buyHash
             /\ db[d].status = "failed" => db'[d] = db[d]
  <2>1. db'[d].status = "failed" /\ db'[d].buyHash = p.buyHash
    BY <1>4 DEF FailedRow, Position
  <2>2. p.buyHash = db[d].buyHash
    BY <1>4, CopyCurrent DEF Current
  <2> QED
    BY <1>4, <2>1, <2>2 DEF CopiesMatch, Matches
<1> QED
  BY <1>1, <1>2, <1>3, <1>4 DEF RowStep

(* Where the copies of the next state come from.                            *)
CopyStep == \A d \in Deals, p \in Position :
  HasCopy(d, p)' => HasCopy(d, p) \/ (db'[d] = p /\ p.status = "buying")

LEMMA CopiesKept ==
  ASSUME IInv, CopiesMatch, \A d \in Deals : RowStep(d), CopyStep
  PROVE  CopiesMatch'
<1> SUFFICES ASSUME NEW d \in Deals, NEW p \in Position, HasCopy(d, p)'
             PROVE  Matches(d, p)'
  BY DEF CopiesMatch
<1>1. CASE db'[d] = p /\ p.status = "buying"
  BY <1>1 DEF Matches
<1>2. CASE HasCopy(d, p)
  <2>1. Matches(d, p) /\ Current(d, p) /\ p.status = "buying"
    BY <1>2, CopyCurrent DEF CopiesMatch
  <2>2. db[d].buyHash # None /\ Truthful(d, db[d])
    BY <2>1, RowOf DEF Current
  <2>3. CASE db'[d] = db[d]
    BY <2>1, <2>3 DEF Matches
  <2>4. CASE db'[d].status \in {"holding", "selling", "closed"}
    BY <2>4 DEF Matches
  <2>5. ASSUME NEW q \in Position, HasCopy(d, q), Outcome(q.buyHash) = "reverted",
               db'[d] = FailedRow(q)
        PROVE  Matches(d, p)'
    <3>1. Matches(d, q) /\ Current(d, q)
      BY <2>5, CopyCurrent DEF CopiesMatch
    <3>2. db[d].status \in {"buying", "failed"}
      BY <2>2, <2>5, <3>1, RowOf DEF Current, Truthful, Position, Statuses
    <3>3. FailedRow(q) = FailedRow(p)
      BY <2>1, <3>1, <3>2 DEF Matches
    <3>4. FailedRow(q).status = "failed"
      BY DEF FailedRow, Position
    <3> QED
      BY <2>5, <3>3, <3>4 DEF Matches
  <2> QED
    BY <2>2, <2>3, <2>4, <2>5 DEF RowStep
<1> QED
  BY <1>1, <1>2 DEF CopyStep

(* The tasks that still settle a buy after the step did before, and the     *)
(* queue has not grown.                                                     *)
LEMMA NoNewCopies ==
  ASSUME queue' \subseteq queue,
         \A a \in Actors : act'[a].pc \in BuyPCs =>
           act[a].pc \in BuyPCs /\ act'[a].deal = act[a].deal /\ act'[a].pos = act[a].pos
  PROVE  CopyStep
BY DEF CopyStep, HasCopy

LEMMA NextCopies ==
  ASSUME IInv, [Next]_vars, ~merging
  PROVE  CopyStep
<1>1. act \in [Actors -> Task] /\ "executor" \in Actors /\ "watcher" \in Actors
  BY DEF IInv, TypeOK, Actors
<1>2. ASSUME NEW a \in Actors, queue' \subseteq queue,
             \A b \in Actors \ {a} : act'[b] = act[b],
             act'[a].pc \in BuyPCs =>
               act[a].pc \in BuyPCs /\ act'[a].deal = act[a].deal /\ act'[a].pos = act[a].pos
      PROVE  CopyStep
  BY <1>2, NoNewCopies
<1>3. ASSUME NEW a \in Actors, Done(a), queue' \subseteq queue
      PROVE  CopyStep
  <2>1. act'[a].pc \notin BuyPCs /\ \A b \in Actors \ {a} : act'[b] = act[b]
    BY <1>1, <1>3 DEF Done, At, BuyPCs
  <2> QED
    BY <1>2, <1>3, <2>1
<1>4. CASE UNCHANGED <<act, queue>>
  BY <1>4, NoNewCopies
<1>5. CASE Open
  <2>1. CASE RecordBuy
    <3> DEFINE w == act["executor"]
    <3>1. w.deal \in Deals /\ w.pos \in Position /\ w.pos.status = "buying"
      BY <1>1, <2>1 DEF RecordBuy, IInv, Opening, OpeningOK, Unrecorded, Task
    <3>2. PICK p : p = [w.pos EXCEPT !.buyHash = w.tx]
      OBVIOUS
    <3>3. p.status = "buying" /\ db' = [db EXCEPT ![w.deal] = p]
      BY <2>1, <3>1, <3>2 DEF RecordBuy, Save, Position
    <3>4. db'[w.deal] = p
      BY <3>1, <3>3 DEF IInv, TypeOK
    <3>5. /\ act'["executor"].deal = w.deal /\ act'["executor"].pos = p
          /\ \A b \in Actors \ {"executor"} : act'[b] = act[b]
      BY <1>1, <2>1, <3>2 DEF RecordBuy, Task
    <3>6. queue' = queue
      BY <2>1 DEF RecordBuy
    <3> QED
      BY <3>3, <3>4, <3>5, <3>6 DEF CopyStep, HasCopy
  <2>2. CASE ~RecordBuy
    <3>1. queue' = queue /\ \A b \in Actors \ {"executor"} : act'[b] = act[b]
      BY <1>1, <1>5, <2>2 DEF Open, ReadBalance, RejectFinds, ChooseFind, PrepareBuy, BuyWouldRevert,
         CreateRecord, SendBuy, Go
    <3>2. act'["executor"].pc \notin BuyPCs
      <4>1. CASE ReadBalance \/ RejectFinds \/ BuyWouldRevert \/ ChooseFind
        BY <1>1, <4>1 DEF ReadBalance, RejectFinds, BuyWouldRevert, ChooseFind, Go, At, Task, BuyPCs
      <4>2. CASE PrepareBuy
        BY <1>1, <4>2 DEF PrepareBuy, At, BuyPCs
      <4>3. CASE CreateRecord \/ SendBuy
        BY <1>1, <4>3 DEF CreateRecord, SendBuy, Task, BuyPCs
      <4> QED
        BY <1>5, <2>2, <4>1, <4>2, <4>3 DEF Open
    <3> QED
      BY <1>1, <1>2, <3>1, <3>2
  <2> QED
    BY <2>1, <2>2
<1>6. ASSUME NEW a \in Actors, Settle(a) \/ Exit(a)
      PROVE  CopyStep
  <2>1. CASE Done(a)
    BY <1>3, <1>6, <2>1 DEF Settle, BuyReceipt, NoReceipt, WriteFailed, ReadAcquired, WriteHolding,
       SellReceipt, WriteSellReverted, ReadBaseAfter, WriteClosed, Exit, Postpone, AgreeToSell,
       ReadBaseBefore, SendSell, RecordSell
  <2>2. CASE BuyReceipt(a) \/ SellReceipt(a)
    BY <1>1, <1>2, <2>2 DEF BuyReceipt, SellReceipt, Go, Task, BuyPCs
  <2>3. CASE ReadAcquired(a) \/ ReadBaseAfter(a)
    BY <1>1, <1>2, <2>3 DEF ReadAcquired, ReadBaseAfter, Task, BuyPCs
  <2>4. CASE WriteHolding(a) /\ ~Done(a)
    <3>1. act'[a].pc = "exit" /\ queue' = queue /\ \A b \in Actors \ {a} : act'[b] = act[b]
      BY <1>1, <2>4 DEF WriteHolding, At
    <3> QED
      BY <1>2, <3>1 DEF BuyPCs
  <2>5. CASE AgreeToSell(a) \/ ReadBaseBefore(a) \/ SendSell(a) \/ RecordSell(a)
    <3>1. act'[a].pc \in {"sellBalance", "sendSell", "recordSell", "waitSell"}
      BY <1>1, <2>5 DEF AgreeToSell, ReadBaseBefore, SendSell, RecordSell, Task
    <3>2. queue' = queue /\ \A b \in Actors \ {a} : act'[b] = act[b]
      BY <1>1, <2>5 DEF AgreeToSell, ReadBaseBefore, SendSell, RecordSell
    <3> QED
      BY <1>2, <3>1, <3>2 DEF BuyPCs
  <2> QED
    BY <1>6, <2>1, <2>2, <2>3, <2>4, <2>5
    DEF Settle, Exit, NoReceipt, WriteFailed, WriteSellReverted, WriteClosed, Postpone
<1>7. ASSUME NEW a \in Actors, Join(a) \/ Raise(a) \/ SendUnanswered(a)
      PROVE  CopyStep
  <2>1. queue' = queue /\ (Done(a) \/ act' = [act EXCEPT ![a] = At("idle")])
    BY <1>7 DEF Join, Raise, SendUnanswered
  <2>2. act'[a].pc \notin BuyPCs /\ \A b \in Actors \ {a} : act'[b] = act[b]
    BY <1>1, <2>1 DEF Done, At, BuyPCs
  <2> QED
    BY <1>2, <2>1, <2>2
<1>8. CASE Tick
  <2>1. queue' = OpenRows /\ UNCHANGED db /\ act'["watcher"].pc = "next"
        /\ act'["executor"] = act["executor"]
    BY <1>1, <1>8 DEF Tick, At, Actors
  <2> QED
    BY <2>1 DEF CopyStep, HasCopy, OpenRows, Actors, BuyPCs
<1>9. CASE Advance
  <2>1. PICK s \in queue :
          /\ queue' \subseteq queue
          /\ \/ UNCHANGED act
             \/ \E pc \in {"waitBuy", "waitSell", "exit"}, h \in {s.pos.buyHash, s.pos.sellHash, None} :
                  /\ act' = [act EXCEPT !["watcher"] =
                              [At(pc) EXCEPT !.deal = s.deal, !.pos = s.pos, !.tx = h]]
                  /\ pc = "waitBuy" => s.pos.status = "buying" /\ s.pos.buyHash # None
    BY <1>9 DEF Advance
  <2>2. CASE UNCHANGED act
    BY <2>1, <2>2, NoNewCopies
  <2>3. ASSUME NEW pc \in {"waitBuy", "waitSell", "exit"}, NEW h,
               act' = [act EXCEPT !["watcher"] =
                         [At(pc) EXCEPT !.deal = s.deal, !.pos = s.pos, !.tx = h]],
               pc = "waitBuy" => s.pos.status = "buying" /\ s.pos.buyHash # None
        PROVE  CopyStep
    <3>1. /\ act'["watcher"].pc = pc /\ act'["watcher"].deal = s.deal /\ act'["watcher"].pos = s.pos
          /\ act'["executor"] = act["executor"]
      BY <1>1, <2>3 DEF At
    <3>2. s = [deal |-> s.deal, pos |-> s.pos]
      BY DEF IInv, TypeOK, Snapshot
    <3> QED
      BY <2>1, <2>3, <3>1, <3>2 DEF CopyStep, HasCopy, Actors, BuyPCs
  <2> QED
    BY <2>1, <2>2, <2>3
<1>10. CASE EndTick \/ MarkNotified
  <2>1. queue' = queue /\ \E pc \in {"idle", "notify"} : act' = [act EXCEPT !["watcher"] = At(pc)]
    BY <1>10 DEF EndTick, MarkNotified
  <2>2. act'["watcher"].pc \notin BuyPCs /\ \A b \in Actors \ {"watcher"} : act'[b] = act[b]
    BY <1>1, <2>1 DEF At, BuyPCs
  <2> QED
    BY <1>1, <1>2, <2>1, <2>2
<1>11. CASE Restart
  <2>1. queue' = {} /\ \A a \in Actors : act'[a].pc \notin BuyPCs
    BY <1>11 DEF Restart, At, BuyPCs
  <2> QED
    BY <2>1, NoNewCopies
<1> QED
  BY <1>4, <1>5, <1>6, <1>7, <1>8, <1>9, <1>10, <1>11 DEF Next, Watch, Mine, vars

(* A deal that left BUYING never returns to it, the hash of its buy is never *)
(* lost, and FAILED is final: every copy that may still be written back is  *)
(* recent enough.                                                           *)
THEOREM DealsNeverGoBack == Spec => NoWayBack
<1> DEFINE Safe == Basis /\ (~merging => IInv /\ CopiesMatch)
           NotBack == ~merging => \A d \in Deals :
             /\ db[d].status \notin {"absent", "buying"} => db'[d].status \notin {"absent", "buying"}
             /\ db[d].buyHash # None => db'[d].buyHash = db[d].buyHash
             /\ db[d].status = "failed" => db'[d] = db[d]
<1>1. Init => Safe
  <2>1. Init => CopiesMatch
    BY DEF Init, CopiesMatch, HasCopy, At, BuyPCs
  <2> QED
    BY <2>1, InitHolds, InitBasis
<1>2. ASSUME Safe, [Next]_vars
      PROVE  Safe' /\ NotBack
  <2>1. Basis' /\ TypeOK' /\ merging' = merging
    BY <1>2, BasisKept DEF Basis, Next, vars
  <2>2. ASSUME ~merging
        PROVE  IInv' /\ CopiesMatch' /\ \A d \in Deals : RowStep(d)
    BY <1>2, <2>1, <2>2, NextRows, NextKept, NextCopies, CopiesKept
  <2>3. NotBack
    BY <1>2, <2>2, RowsNeverGoBack
  <2> QED
    BY <2>1, <2>2, <2>3
<1>3. Safe /\ [Next]_vars => Safe'
  BY <1>2
<1>4. Safe /\ [Next]_vars => [NotBack]_vars
  BY <1>2
<1> QED
  BY <1>1, <1>3, <1>4, PTL DEF Spec, NoWayBack

=============================================================================
