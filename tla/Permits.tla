------------------------------ MODULE Permits ------------------------------
(***************************************************************************)
(* What a gate promises: of those who asked, at most Limit hold a permit,   *)
(* a permit goes to somebody who waits as soon as there is one, and it goes *)
(* to the most urgent of those who wait.                                    *)
(***************************************************************************)
EXTENDS Naturals, FiniteSets

CONSTANTS Requests, Priority, Limit

VARIABLES waiting, holding

vars == <<waiting, holding>>

MostUrgent(r) == r \in waiting /\ \A s \in waiting : Priority[r] <= Priority[s]

(* Nobody waits for a permit that is free. *)
TakeFree(r) ==
  /\ r \notin waiting \cup holding /\ waiting = {} /\ Cardinality(holding) < Limit
  /\ holding' = holding \cup {r}
  /\ UNCHANGED waiting

Queue(r) ==
  /\ r \notin waiting \cup holding
  /\ waiting # {} \/ Cardinality(holding) = Limit
  /\ waiting' = waiting \cup {r}
  /\ UNCHANGED holding

GiveUp(r) == r \in waiting /\ waiting' = waiting \ {r} /\ UNCHANGED holding

(* A permit is given back: the most urgent one gets it in the same step.    *)
PassOn(r) ==
  /\ r \in holding
  /\ \/ waiting = {} /\ holding' = holding \ {r} /\ UNCHANGED waiting
     \/ \E s \in waiting : /\ MostUrgent(s)
                           /\ holding' = (holding \ {r}) \cup {s}
                           /\ waiting' = waiting \ {s}

Init == waiting = {} /\ holding = {}

Next == \E r \in Requests : TakeFree(r) \/ Queue(r) \/ GiveUp(r) \/ PassOn(r)

Spec == Init /\ [][Next]_vars
=============================================================================
