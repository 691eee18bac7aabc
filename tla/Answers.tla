-------------------------------- MODULE Answers --------------------------------
(***************************************************************************)
(* From the answer of a provider to an opportunity: the parts that judge     *)
(* answers, each an instance with variables of its own.  part says which of  *)
(* them a behaviour is about, the others stay in their initial states.  The  *)
(* breaker is the module this one extends.  MCAnswers gives the constants    *)
(* their values for TLC, AnswersProofs proves for all of them.               *)
(***************************************************************************)
EXTENDS CircuitBreaker

CONSTANTS
  AskedAmount, Quotable, Slippages, QuoteAttempts,                 \* Quotes
  Amount, Outputs, Units, Prices, Costs, Factors, Threshold,       \* Verification
  Setups, MaxAge, TimeToLive, Duration,
  MinSamples, MaxSamples, QuotedGas, Real, MaxSaves,                  \* Calibration
  Results, SmallestAmount, Rooms, Store,                           \* Selection
  Day, Configurations                                              \* Scope

VARIABLES
  part,
  qStep, qCall, qAttempts, qQuote, qMinimum, qResult, qRetried,          \* Quotes
  qBreaker, qTracked,
  vStep, vNow, vSetup, vBuy, vSell, vFees, vGas, vFactor, vFactors,      \* Verification
  vCached, vRate, vResult,
  cMemory, cStored, cSaving, cCost,                                      \* Calibration
  sMode, sStep, sCandidates, sLeft, sCreated, sRoom, sStored, sSeen,     \* Selection
  sFailed, sRanked,
  wConfig, wNow, wScopes, wBegun                                         \* Scope

breakerVars == vars
quotesVars == <<qStep, qCall, qAttempts, qQuote, qMinimum, qResult, qRetried, qBreaker,
                qTracked>>
verificationVars == <<vStep, vNow, vSetup, vBuy, vSell, vFees, vGas, vFactor, vFactors,
                      vCached, vRate, vResult>>
calibrationVars == <<cMemory, cStored, cSaving, cCost>>
selectionVars == <<sMode, sStep, sCandidates, sLeft, sCreated, sRoom, sStored, sSeen,
                   sFailed, sRanked>>
scopeVars == <<wConfig, wNow, wScopes, wBegun>>
all == <<part, breakerVars, quotesVars, verificationVars, calibrationVars, selectionVars,
         scopeVars>>

Q == INSTANCE Quotes WITH
       Amount <- AskedAmount, Outputs <- Quotable, MaxAttempts <- QuoteAttempts,
       step <- qStep, call <- qCall, attempts <- qAttempts, quote <- qQuote,
       minimum <- qMinimum, result <- qResult, retried <- qRetried, breaker <- qBreaker,
       tracked <- qTracked
V == INSTANCE Verification WITH
       MaxTime <- Duration,
       step <- vStep, now <- vNow, setup <- vSetup, buy <- vBuy, sell <- vSell, fees <- vFees,
       gas <- vGas, factor <- vFactor, factors <- vFactors, cached <- vCached, rate <- vRate,
       result <- vResult
C == INSTANCE Calibration WITH
       memory <- cMemory, stored <- cStored, saving <- cSaving, cost <- cCost
S == INSTANCE Selection WITH
       mode <- sMode, step <- sStep, candidates <- sCandidates, left <- sLeft,
       created <- sCreated, room <- sRoom, stored <- sStored, seen <- sSeen,
       failed <- sFailed, ranked <- sRanked
W == INSTANCE Scope WITH
       config <- wConfig, now <- wNow, scopes <- wScopes, begun <- wBegun

(* Amounts, prices and costs are not negative, a factor is a fraction; there *)
(* is one attempt at least (the bounds of the fields of the configuration);  *)
(* a window is the whole day or has its two hours inside it.  The amounts of *)
(* a mode are different, and a cycle asks a pair of providers once for each. *)
ASSUME QuotesAssumption ==
  Quotable \subseteq Nat /\ Slippages \subseteq Nat /\ QuoteAttempts \in Nat \ {0}
ASSUME VerificationAssumption ==
  /\ Amount \in Nat /\ Threshold \in Int
  /\ Outputs \subseteq Nat /\ Units \subseteq Nat /\ Prices \subseteq Nat /\ Costs \subseteq Nat
  /\ Factors \subseteq (Nat \ {0}) \X (Nat \ {0})
ASSUME CalibrationAssumption ==
  /\ MinSamples \in Nat \ {0} /\ MaxSamples \in Nat /\ MaxSamples > MinSamples
  /\ QuotedGas \in Nat \ {0} /\ Real \subseteq Nat \ {0}
ASSUME SelectionAssumption ==
  /\ Rooms \subseteq Nat
  /\ Results \in Seq([route : Int, amount : Nat \ {0}, profit : Int, passed : BOOLEAN])
  /\ \A i, j \in DOMAIN Results :
       Results[i].route = Results[j].route /\ Results[i].amount = Results[j].amount => i = j
ASSUME ScopeAssumption ==
  /\ Day \in Nat \ {0}
  /\ \A c \in Configurations : \A p \in DOMAIN c.providers :
       LET w == c.providers[p].window
       IN w = W!Always \/ (w.from \in 0..(Day - 1) /\ w.to \in 0..(Day - 1))

Parts == {"breaker", "quotes", "verification", "calibration", "selection", "scope"}

AnswersInit ==
  /\ part \in Parts
  /\ Init /\ Q!Init /\ V!Init /\ C!Init /\ S!Init /\ W!Init

(* A step of one part leaves the variables of the others alone. *)
Still(x, v) == part = x \/ UNCHANGED v

OthersStill ==
  /\ UNCHANGED part
  /\ Still("breaker", breakerVars) /\ Still("quotes", quotesVars)
  /\ Still("verification", verificationVars) /\ Still("calibration", calibrationVars)
  /\ Still("selection", selectionVars) /\ Still("scope", scopeVars)

AnswersNext ==
  /\ OthersStill
  /\ \/ part = "breaker" /\ Next
     \/ part = "quotes" /\ Q!Next
     \/ part = "verification" /\ V!Next
     \/ part = "calibration" /\ C!Next
     \/ part = "selection" /\ S!Next
     \/ part = "scope" /\ W!Next

(* The fairness that CircuitBreaker states. *)
AnswersFairness ==
  /\ WF_vars(part = "breaker" /\ Tick)
  /\ \A o \in Ops :
       /\ WF_vars(part = "breaker" /\ Ask(o))
       /\ SF_vars(part = "breaker" /\ Start(o))
       /\ SF_vars(part = "breaker" /\ Succeed(o))

AnswersSpec == AnswersInit /\ [][AnswersNext]_all /\ AnswersFairness

(***************************************************************************)
(* Properties: those of the modules, in their instances here                *)
(***************************************************************************)
(* HttpProviderAdapter.request: a no is an answer, not a fault.             *)
RefusalsCostNothing == Q!RefusalsCostNothing
(* build_swap of the adapters: what is signed can be had.                   *)
SwapsCanSucceed == Q!SwapsCanSucceed
(* AmountVerifier.verify, PreliminaryEvaluator.evaluate: a profit is one.   *)
ProfitIsReal == V!ProfitIsReal
(* GasCalibration.record: the correction follows the routes, and what is     *)
(* measured stays measured.                                                 *)
CorrectionIsCurrent == []C!FactorFollowsRoutes /\ [][C!StaysMeasured]_calibrationVars
(* rank_groups, _create_opportunities, rank_candidates: the best come first. *)
BestFirst == S!BestFirst
(* ScopeBuilder: who is asked is inside his hours, and who is, is asked.     *)
HoursAreKept == W!HoursAreKept
=============================================================================
