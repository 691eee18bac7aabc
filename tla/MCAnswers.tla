------------------------------ MODULE MCAnswers ------------------------------
(***************************************************************************)
(* Small instances of the parts of Answers.                                 *)
(***************************************************************************)
EXTENDS Answers

CONSTANTS o1, o2, o3

MCLadder == <<[attempts |-> 1, seconds |-> 1], [attempts |-> 1, seconds |-> 2]>>

(* Level 2 with the rate of its quotes, with one that is asked for, with gas *)
(* in the currency of the result; Level 1, and a threshold of gross results. *)
Setup(level, base, policy, sources, metric) ==
  [level |-> level, base |-> base, policy |-> policy, sources |-> sources, metric |-> metric]
MCSetups ==
  {Setup(2, "stable", "inclusive", {"quote", "rpc"}, "net"),
   Setup(2, "unstable", "inclusive", {"rpc"}, "net"),
   Setup(2, "native", "inclusive", {"quote", "rpc"}, "net"),
   Setup(1, "stable", "inclusive", {"static"}, "net"),
   Setup(1, "unstable", "unknown", {"static"}, "gross")}

MCFactors == {<<3, 2>>, <<2, 1>>}

(* In percent the small amount returns more, in money the large one does.    *)
Candidate(route, amount, profit, passed) ==
  [route |-> route, amount |-> amount, profit |-> profit, passed |-> passed]
MCResults ==
  <<Candidate(1, 100, 2, TRUE), Candidate(1, 400, 4, TRUE), Candidate(2, 100, 3, TRUE),
    Candidate(2, 400, 8, TRUE), Candidate(3, 100, 1, TRUE), Candidate(3, 400, 9, TRUE),
    Candidate(4, 100, 0, FALSE)>>

MCStore == {{}, {2}}

(* Hours within a day and over midnight, providers of some networks and      *)
(* modes, more tokens than the list takes, and settings that are refused.    *)
Provider(enabled, networks, modes, from, to) ==
  [enabled |-> enabled, networks |-> networks, modes |-> modes,
   window |-> [from |-> from, to |-> to]]
Token(network, rank, stable, enabled) ==
  [network |-> network, rank |-> rank, stable |-> stable, enabled |-> enabled]
Mode(enabled, everywhere, networks, amounts) ==
  [enabled |-> enabled, everywhere |-> everywhere, networks |-> networks, amounts |-> amounts]
MCModes ==
  [ur |-> Mode(TRUE, TRUE, {}, {}), fest |-> Mode(TRUE, TRUE, {}, {}),
   ann |-> Mode(TRUE, FALSE, {1, 3}, {7, 8})]
MCTokens ==
  <<Token(1, 1, TRUE, TRUE), Token(1, 2, TRUE, TRUE), Token(1, -1, TRUE, TRUE),
    Token(1, 1, FALSE, TRUE), Token(2, -1, TRUE, TRUE), Token(2, 5, TRUE, TRUE),
    Token(2, 1, TRUE, FALSE)>>
MCScope(first, second, third, modes) ==
  [networks |-> {1, 2}, base |-> <<1, 5>>, top |-> 2, tokens |-> MCTokens, modes |-> modes,
   amounts |-> {3, 9}, routes |-> [same |-> FALSE, pairs |-> {}],
   providers |-> <<first, second, third>>]
Every == {"ur", "fest", "ann"}
MCConfigurations ==
  {MCScope(Provider(TRUE, {1, 2}, Every, 3, 1), Provider(TRUE, {1}, Every, 1, 3),
           Provider(FALSE, {1, 2}, Every, -1, -1), MCModes),
   MCScope(Provider(TRUE, {1}, {"ur"}, 2, 0), Provider(TRUE, {2}, {"fest", "ann"}, -1, -1),
           Provider(TRUE, {1, 2}, {"ann"}, 3, 2), MCModes),
   MCScope(Provider(TRUE, {1, 2}, Every, 0, 1), Provider(TRUE, {1, 2}, {"ur"}, 3, 2),
           Provider(TRUE, {3}, Every, -1, -1), [MCModes EXCEPT !.fest.enabled = FALSE]),
   MCScope(Provider(TRUE, {1, 2}, {}, 0, 1), Provider(TRUE, {1}, Every, 1, 1),
           Provider(TRUE, {1}, Every, -1, -1), MCModes)}

(* A part that a behaviour is not about begins in one state of its own. *)
MCInit ==
  /\ AnswersInit
  /\ part # "breaker" => up
  /\ part # "verification" =>
       vSetup.base = "native" /\ vFactor = <<2, 1>> /\ vCached = [known |-> FALSE]
  /\ part # "calibration" => cCost = 4
  /\ part # "selection" => sMode = "ur" /\ sCandidates = {} /\ sRoom = 1 /\ sStored = {}
  /\ part # "scope" => wNow = 0 /\ ~wConfig.modes.fest.enabled

MCSpec == MCInit /\ [][AnswersNext]_all /\ AnswersFairness
=============================================================================
