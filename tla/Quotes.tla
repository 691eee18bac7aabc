------------------------------- MODULE Quotes -------------------------------
(***************************************************************************)
(* The five adapters of infrastructure/providers over HttpProviderAdapter:  *)
(* one call for a quote, for the route that Level 1 fixed, for a swap (two  *)
(* requests) or for the state of the provider, with the attempts of         *)
(* ResourceManager, and what the breaker and the health monitor make of it. *)
(*                                                                         *)
(* An answer is its status (or what kept it from coming) and what its body  *)
(* says; amounts are small, a payload has the fields the adapters decide by.*)
(***************************************************************************)
EXTENDS Integers

CONSTANTS
  Amount,        \* the amount that is asked for
  Outputs,       \* amounts in payloads
  Slippages,     \* slippage_bps
  MaxAttempts

VARIABLES
  step,      \* "idle", "first", "second": the request under way, "ended"
  call,      \* what was asked for
  attempts,  \* of the request under way
  quote,     \* the quote of the first request
  minimum,   \* SwapTransaction.min_output_raw
  result,    \* what the call ends with: a result or an error's category
  retried,   \* history: categories of the errors that were tried again
  breaker,   \* the last the circuit breaker heard of the call
  tracked    \* what HealthTrackingAdapter recorded of it

vars == <<step, call, attempts, quote, minimum, result, retried, breaker, tracked>>

Absent == -1
None == [output |-> Absent, mode |-> "none"]

(***************************************************************************)
(* The adapters: what they can do and need, how a body says no, what they   *)
(* take for the amounts                                                     *)
(***************************************************************************)
UniswapAdapter == [executes |-> TRUE, modes |-> {"classic", "dutch"}, keyed |-> FALSE]
KyberSwapAdapter == [executes |-> TRUE, modes |-> {"classic"}, keyed |-> FALSE]
VeloraAdapter == [executes |-> TRUE, modes |-> {"classic"}, keyed |-> FALSE]
ZeroXAdapter == [executes |-> FALSE, modes |-> {"classic"}, keyed |-> TRUE]
OneInchAdapter == [executes |-> FALSE, modes |-> {"classic"}, keyed |-> TRUE]

Adapter ==
  [uniswap |-> UniswapAdapter, kyberswap |-> KyberSwapAdapter, velora |-> VeloraAdapter,
   zero_x |-> ZeroXAdapter, oneinch |-> OneInchAdapter]
Providers == DOMAIN Adapter

Statuses == {"200", "302", "400", "401", "404", "429", "503"}
Lost == {"timeout", "redirects", "transport", "oversize", "keyless"}
Answers == [status : Statuses, says : {"nothing", "noRoute", "rejected", "upstreamTimeout"}]
             \cup [status : Lost, says : {"nothing"}]

(* no_route_reason, route_rejection_reason, temporary_failure_reason *)
UniswapSays(a) ==
  IF a.status # "404" THEN "nothing"
  ELSE CASE a.says = "noRoute" -> "no_route"
         [] a.says = "upstreamTimeout" -> "provider"
         [] OTHER -> "nothing"
KyberSwapSays(a) == IF a.says = "noRoute" THEN "no_route" ELSE "nothing"
VeloraSays(a) ==
  CASE a.status = "404" /\ a.says = "noRoute" -> "no_route"
    [] a.status = "400" /\ a.says = "rejected" -> "route_rejected"
    [] OTHER -> "nothing"
ZeroXSays(a) == IF a.status = "400" /\ a.says = "noRoute" THEN "no_route" ELSE "nothing"

Says(p, a) ==
  CASE p = "uniswap" -> UniswapSays(a)
    [] p = "kyberswap" -> KyberSwapSays(a)
    [] p = "velora" -> VeloraSays(a)
    [] p = "zero_x" -> ZeroXSays(a)
    [] p = "oneinch" -> "nothing"

(* HttpxClient.send and classify_response *)
Transport(status) ==
  CASE status = "timeout" -> "timeout"
    [] status = "transport" -> "network"
    [] status = "keyless" -> "authentication"     \* require_credentials
    [] status \in {"redirects", "oversize"} -> "data"
Classified(status) ==
  CASE status = "429" -> "rate_limit"
    [] status = "401" -> "authentication"
    [] status = "503" -> "provider"
    [] OTHER -> "data"

(* HttpProviderAdapter.request: what the body says goes before the status.  *)
Category(p, a) ==
  IF a.status \in Lost THEN Transport(a.status)
  ELSE IF Says(p, a) # "nothing" THEN Says(p, a) ELSE Classified(a.status)

(***************************************************************************)
(* domain/errors                                                            *)
(***************************************************************************)
(* RETRYABLE_CATEGORIES; defect: an answer that makes no sense is among them *)
RetryableWithData == {"network", "timeout", "rate_limit", "provider", "resource", "database",
                      "data"}
Retryable == {"network", "timeout", "rate_limit", "provider", "resource", "database"}
Unavailable == {"network", "timeout", "rate_limit", "provider", "authentication"}

(* Every class of errors with such a category is retryable or conditional.  *)
MayRetry(category) == attempts < MaxAttempts /\ category \in Retryable

(***************************************************************************)
(* Payloads of a quote, the fields of which each adapter reads              *)
(***************************************************************************)
Payloads ==
  [sound : BOOLEAN,                            \* an object with fields of the right kind
   source : {Absent, Amount, Amount + 1},      \* the amount it says it is for
   output : Outputs,
   afterFee : Outputs \cup {Absent},           \* velora: destAmountAfterFee
   liquid : BOOLEAN,                           \* 0x: liquidityAvailable
   mode : {"classic", "dutch", "strange"}]

Refused(category) == [ok |-> FALSE, category |-> category]
Quote(output, mode) == [ok |-> TRUE, output |-> output, mode |-> mode]

SameSource(x) == x.source \in {Absent, Amount}

UniswapQuote(x) ==
  IF x.sound /\ x.mode \in UniswapAdapter.modes THEN Quote(x.output, x.mode) ELSE Refused("data")
KyberSwapQuote(x) ==
  IF x.sound /\ SameSource(x) THEN Quote(x.output, "classic") ELSE Refused("data")
VeloraQuote(x) ==
  IF x.sound /\ SameSource(x)
  THEN Quote(IF x.afterFee # Absent THEN x.afterFee ELSE x.output, "classic")
  ELSE Refused("data")
ZeroXQuote(x) ==
  IF x.sound /\ ~x.liquid THEN Refused("no_route")
  ELSE IF x.sound /\ SameSource(x) THEN Quote(x.output, "classic") ELSE Refused("data")
OneInchQuote(x) == IF x.sound THEN Quote(x.output, "classic") ELSE Refused("data")

Parsed(p, x) ==
  CASE p = "uniswap" -> UniswapQuote(x)
    [] p = "kyberswap" -> KyberSwapQuote(x)
    [] p = "velora" -> VeloraQuote(x)
    [] p = "zero_x" -> ZeroXQuote(x)
    [] p = "oneinch" -> OneInchQuote(x)

(* Route.matches compares what was asked for and the routing mode; how the   *)
(* provider splits the amount between pools does not count.                  *)
Matches(q) == q.mode = call.fixed

(***************************************************************************)
(* The minimum a swap is signed for: Uniswap names it itself, KyberSwap says *)
(* an output again in the second answer, for Velora it is the quote's.       *)
(***************************************************************************)
Least(output, bps) ==
  LET least == (output * (10000 - bps)) \div 10000 IN IF least > 1 THEN least ELSE 1

UniswapMinimum(built) == built
KyberSwapMinimum(built) == Least(built, call.slippage)
VeloraMinimum == Least(quote.output, call.slippage)

Minimum(built) ==
  CASE call.provider = "uniswap" -> UniswapMinimum(built)
    [] call.provider = "kyberswap" -> KyberSwapMinimum(built)
    [] call.provider = "velora" -> VeloraMinimum

(* SwapTransaction._validate; before it, a defect: it is not done. *)
Signed(least) == TRUE
Signable(least) == least > 0 /\ least <= quote.output

(***************************************************************************)
(* A call                                                                   *)
(***************************************************************************)
Ends(outcome) == step' = "ended" /\ result' = outcome

(* _observe: an error that says nothing of the provider is not counted.      *)
Tracked(outcome) ==
  IF call.wants = "health" THEN "none"
  ELSE IF outcome \in {"quote", "swap", "reproduced", "mismatch"} THEN "success"
  ELSE IF outcome \in Unavailable THEN "failure" ELSE "none"

(* health_check turns every error into a state. *)
Told(outcome) ==
  IF call.wants = "health" /\ outcome # "ready" THEN "degraded" ELSE outcome

Finish(outcome) == Ends(Told(outcome)) /\ tracked' = Tracked(outcome)

(***************************************************************************)
(* What is refused before there is a request: c is the call, known is       *)
(* whether the network is one of the provider's.                            *)
(***************************************************************************)
UniswapObstacle(c, known) ==
  IF ~known THEN "unsupported" ELSE IF c.options # "sound" THEN "configuration" ELSE "none"
KyberSwapObstacle(c, known) ==
  IF c.wants = "swap" /\ c.slippage = Absent THEN "data"
  ELSE IF ~known THEN "unsupported" ELSE "none"
VeloraObstacle(c, known) ==
  IF c.wants = "swap" /\ c.slippage = Absent THEN "data"
  ELSE IF ~known THEN "unsupported" ELSE "none"
ZeroXObstacle(known) == IF ~known THEN "unsupported" ELSE "none"
OneInchObstacle(known) == IF ~known THEN "unsupported" ELSE "none"

Obstacle(c, known) ==
  IF c.wants = "swap" /\ ~Adapter[c.provider].executes THEN "unsupported"
  ELSE IF c.wants = "fixed" /\ c.fixed = "none" THEN "data"
  ELSE CASE c.provider = "uniswap" -> UniswapObstacle(c, known)
         [] c.provider = "kyberswap" -> KyberSwapObstacle(c, known)
         [] c.provider = "velora" -> VeloraObstacle(c, known)
         [] c.provider = "zero_x" -> ZeroXObstacle(known)
         [] c.provider = "oneinch" -> OneInchObstacle(known)

(* QuoteRequest, of which the options of the configuration are a part here. *)
QuoteRequest ==
  [provider : Providers, wants : {"quote", "health"}, slippage : {Absent}, fixed : {"none"},
   options : {"sound", "without swapper", "wrong"}]
  \cup [provider : Providers, wants : {"swap"}, slippage : Slippages \cup {Absent},
        fixed : {"none"}, options : {"sound", "without swapper"}]
  \cup [provider : Providers, wants : {"fixed"}, slippage : {Absent},
        fixed : {"none", "classic", "dutch"}, options : {"sound"}]

Ask ==
  /\ step = "idle"
  /\ \E c \in QuoteRequest, known \in BOOLEAN :
       /\ c.wants = "health" => known
       /\ call' = c
       /\ IF Obstacle(c, known) = "none"
          THEN step' = "first" /\ attempts' = 1 /\ UNCHANGED result
          ELSE /\ Ends(IF c.wants = "health" THEN "degraded" ELSE Obstacle(c, known))
               /\ UNCHANGED attempts
  /\ UNCHANGED <<quote, minimum, retried, breaker, tracked>>

Waiting == step \in {"first", "second"}

(* An answer that is not a success, or none. *)
Fails ==
  /\ Waiting
  /\ \E a \in Answers :
       LET category == Category(call.provider, a)
       IN /\ a.status # "200"
          /\ a.status = "keyless" => Adapter[call.provider].keyed
          /\ IF MayRetry(category)
             THEN /\ attempts' = attempts + 1 /\ retried' = retried \cup {category}
                  /\ UNCHANGED <<step, result, breaker, tracked>>
             ELSE /\ Finish(category)
                  /\ breaker' = IF category \in Retryable THEN "failure" ELSE breaker
                  /\ UNCHANGED <<attempts, retried>>
  /\ UNCHANGED <<call, quote, minimum>>

(* A success of the first request, which the breaker hears of before the     *)
(* payload is read.                                                          *)
Quoted ==
  /\ step = "first" /\ call.wants # "health"
  /\ breaker' = "success"
  /\ \E x \in Payloads :
       LET parsed == Parsed(call.provider, x)
       IN IF ~parsed.ok THEN Finish(parsed.category) /\ UNCHANGED <<quote, attempts>>
          ELSE /\ quote' = [output |-> parsed.output, mode |-> parsed.mode]
               /\ IF call.wants = "quote" THEN Finish("quote") /\ UNCHANGED attempts
                  ELSE IF call.wants = "fixed"
                  THEN /\ Finish(IF Matches(quote') THEN "reproduced" ELSE "mismatch")
                       /\ UNCHANGED attempts
                  ELSE IF call.options # "sound"
                  THEN Finish("unsupported") /\ UNCHANGED attempts
                  ELSE step' = "second" /\ attempts' = 1 /\ UNCHANGED <<result, tracked>>
  /\ UNCHANGED <<call, minimum, retried>>

Probed ==
  /\ step = "first" /\ call.wants = "health"
  /\ breaker' = "success"
  /\ \E sound \in BOOLEAN : Finish(IF sound THEN "ready" ELSE "data")
  /\ UNCHANGED <<call, attempts, quote, minimum, retried>>

Built ==
  /\ step = "second"
  /\ breaker' = "success"
  /\ \E sound \in BOOLEAN, built \in Outputs :
       IF sound /\ Signable(Minimum(built))
       THEN Finish("swap") /\ minimum' = Minimum(built)
       ELSE Finish("data") /\ UNCHANGED minimum
  /\ UNCHANGED <<call, attempts, quote, retried>>

Init ==
  /\ step = "idle"
  /\ call = [provider |-> "none"]
  /\ attempts = 0 /\ quote = None /\ minimum = Absent /\ result = "none"
  /\ retried = {} /\ breaker = "none" /\ tracked = "none"

Next == Ask \/ Fails \/ Quoted \/ Probed \/ Built

Spec == Init /\ [][Next]_vars

(***************************************************************************)
(* Properties                                                               *)
(***************************************************************************)
(* What a provider answers, also a no, is never asked again and never held   *)
(* against it, neither by the breaker nor by the health monitor; it is held  *)
(* against it that it could not answer, once, after the last attempt         *)
(* (HttpProviderAdapter.request, domain/errors/classification.py).           *)
RefusalsCostNothing ==
  /\ retried \cap {"data", "no_route", "route_rejected", "authentication"} = {}
  /\ result \in {"data", "no_route", "route_rejected", "unsupported"}
       => breaker # "failure" /\ tracked = "none"
  /\ breaker = "failure" => attempts = MaxAttempts /\ (tracked = "failure" \/ result = "degraded")

(* A swap is signed for a minimum that its own quote still reaches, above    *)
(* nothing, whatever the second answer says (build_swap, SwapTransaction).   *)
SwapsCanSucceed == result = "swap" => minimum \in 1..quote.output
=============================================================================
