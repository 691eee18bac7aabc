------------------------------- MODULE MCLevel1 -------------------------------
(***************************************************************************)
(* Instances of Level1 for TLC: the frequent and the broad scan of one token *)
(* by two providers, in three configurations: one remembers combinations     *)
(* without a route, one hands over what it finds, and in one either           *)
(* provider may buy what the other sells.  In a fourth the trading mode       *)
(* searches alone, with two amounts.                                          *)
(***************************************************************************)
EXTENDS Level1

CONSTANTS a, b, ur, fest, ann, small, large

Searching == [m \in Modes |-> IF m = ann THEN {} ELSE {small}]
TradingAlone == [m \in Modes |-> IF m = ann THEN {small, large} ELSE {}]

MCConfigurations ==
  {[memory |-> TRUE, limit |-> 0, allowed |-> {<<a, b>>}, amounts |-> Searching],
   [memory |-> FALSE, limit |-> 1, allowed |-> {<<a, b>>}, amounts |-> Searching],
   [memory |-> FALSE, limit |-> 0, allowed |-> {<<a, b>>, <<b, a>>}, amounts |-> Searching],
   [memory |-> FALSE, limit |-> 0, allowed |-> {<<a, b>>}, amounts |-> TradingAlone]}
=============================================================================
