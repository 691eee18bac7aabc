----------------------------- MODULE MCTrading -----------------------------
(* Instances of Trading for TLC: two finds of one token. *)
EXTENDS Trading

CONSTANTS t1, t2

(* Transactions sent or decided on, as in Room. *)
Committed ==
  Len(chain) + Cardinality({a \in Actors :
      act[a].pc \in {"create", "sendBuy", "sellBalance", "sendSell"}})

(* The whole instance where requests are not merged; where they are, two     *)
(* transactions and no fault.                                                *)
MCSpec ==
  /\ Init /\ faults = (IF merging THEN MaxFaults ELSE 0)
  /\ [][Next /\ (merging => Committed' <= 2)]_vars
  /\ Fairness

MCOneToken == [d \in Deals |-> t1]
=============================================================================
