------------------------------ MODULE Selection ------------------------------
(***************************************************************************)
(* What a scan makes of its candidates (services/level1: ranking, grouping,  *)
(* dedup and _create_opportunities): those that pass the threshold are       *)
(* grouped by their routes, the groups are ranked, and the best of them      *)
(* become opportunities until there is no room; the mode that trades gets    *)
(* the candidates in their order.                                            *)
(*                                                                         *)
(* What passes has a profit: a result without one has no threshold outcome.  *)
(***************************************************************************)
EXTENDS Integers, Sequences, FiniteSets, FiniteSetsExt, SequencesExt

CONSTANTS
  Results,       \* sequence of candidates: [route, amount, profit, passed]
  SmallestAmount,\* scanner.level1_amount
  Rooms,         \* values of the least of max_opportunities_per_scan and the worker's room
  Store          \* sets of routes with an opportunity inside the window

VARIABLES
  mode,          \* "ur" hands over, "ann" trades
  step,          \* "collected", "choosing", "ended"
  candidates,    \* of the cycles that ended: numbers in Results, in whose order they came
  left,          \* groups still to be looked at, best first
  created,       \* opportunities, in order
  room,
  stored,        \* fingerprints in the database, inside the window
  seen,          \* DeduplicationGuard._seen
  failed,        \* history: groups whose hand-over failed
  ranked         \* what the mode that trades is given

vars == <<mode, step, candidates, left, created, room, stored, seen, failed, ranked>>

(* The amounts a mode asks for: _raw_amounts. *)
Asked(m, c) == m = "ann" \/ c.amount = SmallestAmount

Profit(i) == Results[i].profit
Roi(i) == (Results[i].profit * 100) \div Results[i].amount

(* sorted(): no two elements have the same key. *)
InOrder(S, Precedes(_, _)) ==
  CHOOSE s \in SetToSeqs(S) : \A i, j \in DOMAIN s : i < j => Precedes(s[i], s[j])

(***************************************************************************)
(* grouping.py                                                              *)
(***************************************************************************)
(* Another candidate of the same routes and amount is left out. *)
Members(cs, route) ==
  {i \in cs : /\ Results[i].route = route
              /\ \A j \in cs : j < i /\ Results[j].route = route
                              => Results[j].amount # Results[i].amount}

Group(cs, route) == [route |-> route, members |-> Members(cs, route)]
Groups(cs) == {Group(cs, Results[i].route) : i \in cs}

(* CandidateGroup.amounts *)
Amounts(g) == InOrder({Results[i].amount : i \in g.members}, LAMBDA x, y : x < y)

(***************************************************************************)
(* ranking.py                                                               *)
(***************************************************************************)
BestRoi(g) == Max({Roi(i) : i \in g.members})
BestProfit(g) == Max({Profit(i) : i \in g.members})

(* The order of tuples. *)
Before(x, y) == \E i \in DOMAIN x : x[i] < y[i] /\ \A j \in 1..(i - 1) : x[j] = y[j]

(* Defect: groups stay in the order of their keys. *)
KeyOnly(g, byProfit) == <<0, 0, g.route>>
GroupKey(g, byProfit) ==
  IF byProfit THEN <<-BestProfit(g), -BestRoi(g), g.route>>
  ELSE <<-BestRoi(g), -BestProfit(g), g.route>>

GroupBefore(g, h, byProfit) == Before(GroupKey(g, byProfit), GroupKey(h, byProfit))

RankGroups(groups, byProfit) ==
  InOrder(groups, LAMBDA g, h : GroupBefore(g, h, byProfit))

CandidateKey(i) == <<-Profit(i), -Roi(i), Results[i].amount>>

(* Groups one after the other; in a group the order is their own or the scan's. *)
CandidateBefore(g, i, h, j, byProfit) ==
  IF g # h THEN GroupBefore(g, h, byProfit)
  ELSE IF byProfit THEN Before(CandidateKey(i), CandidateKey(j)) ELSE i < j

RankCandidates(cs, byProfit) ==
  InOrder(UNION {g.members : g \in Groups(cs)},
          LAMBDA i, j : CandidateBefore(Group(cs, Results[i].route), i,
                                        Group(cs, Results[j].route), j, byProfit))

(***************************************************************************)
(* _create_opportunities                                                    *)
(***************************************************************************)
(* What a cycle found; the cycles of other tokens may have failed.           *)
Init ==
  /\ mode \in {"ur", "ann"} /\ step = "collected"
  /\ candidates \in SUBSET {i \in DOMAIN Results : Asked(mode, Results[i])}
  /\ room \in Rooms /\ stored \in Store
  /\ left = <<>> /\ created = <<>> /\ seen = {} /\ failed = {} /\ ranked = <<>>

(* _passes_preliminary_threshold *)
Passing == {i \in candidates : Results[i].passed}

Choose ==
  /\ step = "collected" /\ step' = "choosing"
  /\ LET byProfit == mode = "ann"
     IN /\ ranked' = RankCandidates(Passing, byProfit)
        /\ left' = IF mode = "ur" THEN RankGroups(Groups(Passing), byProfit) ELSE <<>>
  /\ UNCHANGED <<mode, candidates, created, room, stored, seen, failed>>

(* is_duplicate *)
IsDuplicate(route) == route \in seen \cup stored

Full == Len(created) >= room

(* _create_one of the best group that is left. *)
Skip ==
  /\ step = "choosing" /\ left # <<>> /\ ~Full
  /\ IsDuplicate(Head(left).route)
  /\ seen' = seen \cup {Head(left).route} /\ left' = Tail(left)
  /\ UNCHANGED <<mode, step, candidates, created, room, stored, failed, ranked>>

Create ==
  /\ step = "choosing" /\ left # <<>> /\ ~Full
  /\ ~IsDuplicate(Head(left).route)
  /\ LET g == Head(left)
     IN /\ created' = Append(created, [route |-> g.route, amounts |-> Amounts(g)])
        /\ seen' = seen \cup {g.route} /\ stored' = stored \cup {g.route}
  /\ left' = Tail(left)
  /\ UNCHANGED <<mode, step, candidates, room, failed, ranked>>

(* The rows, or the queue of the worker, are not to be had. *)
CreateFails ==
  /\ step = "choosing" /\ left # <<>> /\ ~Full
  /\ ~IsDuplicate(Head(left).route)
  /\ failed' = failed \cup {Head(left).route} /\ left' = Tail(left)
  /\ stored' \in {stored, stored \cup {Head(left).route}}
  /\ UNCHANGED <<mode, step, candidates, created, room, seen, ranked>>

(* Meanwhile another scan stores an opportunity of the same routes. *)
StoredElsewhere ==
  /\ step = "choosing" /\ left # <<>>
  /\ \E i \in DOMAIN left : stored' = stored \cup {left[i].route}
  /\ UNCHANGED <<mode, step, candidates, left, created, room, seen, failed, ranked>>

End ==
  /\ step = "choosing" /\ (left = <<>> \/ Full)
  /\ step' = "ended"
  /\ UNCHANGED <<mode, candidates, left, created, room, stored, seen, failed, ranked>>

Next == Choose \/ Skip \/ Create \/ CreateFails \/ StoredElsewhere \/ End

Spec == Init /\ [][Next]_vars

(***************************************************************************)
(* Properties                                                               *)
(***************************************************************************)
CreatedRoutes == {created[i].route : i \in DOMAIN created}

(* When the room is not enough, it went to the best: what was left out earns *)
(* no better return than anything that was handed over, unless an            *)
(* opportunity of its routes was there or its hand-over failed               *)
(* (rank_groups and the loop of _create_opportunities).                      *)
BestAreTaken ==
  step = "ended" /\ mode = "ur" =>
    \A c \in Passing :
      Results[c].route \in CreatedRoutes \cup stored \cup failed
      \/ \A r \in CreatedRoutes : \E d \in Passing : Results[d].route = r /\ Roi(d) >= Roi(c)

(* Room that is left means that nothing was left out: a duplicate or a       *)
(* failure takes no room.                                                    *)
RoomIsUsed ==
  step = "ended" /\ mode = "ur" =>
    Len(created) >= room
    \/ \A c \in Passing : Results[c].route \in CreatedRoutes \cup stored \cup failed

(* The mode that trades is given first what earns most, of all tokens and    *)
(* amounts (rule 11, in rank_candidates), though groups are ranked whole.    *)
FirstEarnsMost ==
  ranked # <<>> /\ mode = "ann" => \A c \in Passing : Profit(c) <= Profit(ranked[1])

(* All three: what is handed over, or traded, is what earns most, as far as  *)
(* there is room (rank_groups, rank_candidates, _create_opportunities).      *)
BestFirst == BestAreTaken /\ RoomIsUsed /\ FirstEarnsMost
=============================================================================
