--------------------------- MODULE MCConfirmation ---------------------------
(* One slot, a queue of two, and results of every kind of verdict. *)
EXTENDS Confirmation

CONSTANTS o1, o2, o3

MCResults == {{"verified_profitable", "unknown"},
              {"verified_unprofitable", "route_unavailable"}}
=============================================================================
