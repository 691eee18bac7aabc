---------------------------- MODULE Verification ----------------------------
(***************************************************************************)
(* What becomes of one amount at Level 1 (a cycle's pair of quotes) and at   *)
(* Level 2 (the two fixed routes of an opportunity): the checks of the two   *)
(* quotes, the fees, the gas, its price in the currency of the result, and   *)
(* the calculation, with time that passes while each of them is awaited      *)
(* (services/level1, level2, fees, gas, prices, calculator).                 *)
(*                                                                         *)
(* Decimals are integers, rates fractions.  The currency of the result is    *)
(* the token of the amount; gas is paid in the wrapped native token, which   *)
(* may be the same one.  Every fee policy that the container registers says  *)
(* that the quote holds the fee.                                             *)
(***************************************************************************)
EXTENDS Integers

CONSTANTS
  Amount,       \* the amount of base that is verified
  Outputs,      \* outputs of quotes
  Units,        \* estimates of gas in quotes
  Prices,       \* prices of a unit of gas
  Costs,        \* what a provider says gas costs, in dollars
  Factors,      \* values of GasUnitsCorrection, fractions
  Threshold,    \* the least net profit
  Setups,       \* records of the level and of the configuration
  MaxAge, TimeToLive, MaxTime

VARIABLES
  step,      \* what comes next: "buy", "sell", "fees", "gas", "price", "rate", ...
  now,
  setup,     \* the level, what the amount is in, fee policy, sources of gas prices, metric
  buy, sell, \* quotes
  fees, gas,
  factor,    \* of GasUnitsCorrection now: trades that end change it
  factors,   \* history: its values since the start
  cached,    \* ConversionService._cache for native and base
  rate,      \* conversion_rates
  result     \* of the calculation, or why there is none

measured == <<factor, factors>>
vars == <<step, now, setup, buy, sell, fees, gas, measured, cached, rate, result>>

Absent == -1
Nothing == [known |-> FALSE]
Optional(S) == S \cup {Absent}

(***************************************************************************)
(* One leg: RouteVerifier.verify, or a quote of QuoteCollector.fetch         *)
(***************************************************************************)
Quotes ==
  [known : {TRUE}, same : BOOLEAN, input : {Amount} \cup Outputs, output : Outputs,
   at : {now}, units : Optional(Units), price : Optional(Prices), usd : Optional(Costs)]

HasUsableOutput(q) == q.output > 0
IsFresh(q) == now - q.at <= MaxAge

(* quote_rejection_reason: usable or not. *)
Collected(q, amount) ==
  IF q.same /\ q.input = amount /\ HasUsableOutput(q) /\ IsFresh(q) THEN "usable" ELSE "invalid"

(* _check_quote, for a quote that the adapter says follows the route.        *)
Checked(q, amount) ==
  IF ~q.same THEN "mismatch"
  ELSE IF ~IsFresh(q) \/ ~HasUsableOutput(q) THEN "unsupported"
  ELSE IF q.input # amount THEN "mismatch" ELSE "reproduced"

Outcome(q, amount) == IF setup.level = 1 THEN Collected(q, amount) ELSE Checked(q, amount)
Good == {"usable", "reproduced"}

(* What Level 1 keeps of a candidate and Level 2 of an amount. *)
Result(status) == [status |-> status]

Unavailable == step' = "ended" /\ result' = Result("route_unavailable")

(* No adapter, no capability, an error; at Level 2 another route as well. *)
Refused ==
  /\ step \in {"buy", "sell"}
  /\ Unavailable
  /\ UNCHANGED <<now, setup, buy, sell, fees, gas, measured, cached, rate>>

Buy ==
  /\ step = "buy"
  /\ \E q \in Quotes :
       IF Outcome(q, Amount) \in Good THEN step' = "sell" /\ buy' = q /\ UNCHANGED result
       ELSE Unavailable /\ UNCHANGED buy
  /\ UNCHANGED <<now, setup, sell, fees, gas, measured, cached, rate>>

(* What was really bought is sold, not what Level 1 expected to buy. *)
Sell ==
  /\ step = "sell"
  /\ \E q \in Quotes :
       IF Outcome(q, buy.output) \in Good THEN step' = "fees" /\ sell' = q /\ UNCHANGED result
       ELSE Unavailable /\ UNCHANGED sell
  /\ UNCHANGED <<now, setup, buy, fees, gas, measured, cached, rate>>

(***************************************************************************)
(* FeeService.snapshot_for, for both legs                                   *)
(***************************************************************************)
QuoteInclusive == [known |-> TRUE, amount |-> 0, inclusion |-> "in_quote"]
UnknownFee == [known |-> FALSE]

Components(policy) == IF policy = "inclusive" THEN QuoteInclusive ELSE UnknownFee

Fees ==
  /\ step = "fees"
  /\ fees' = <<Components(setup.policy), Components(setup.policy)>>
  /\ step' = "gas"
  /\ UNCHANGED <<now, setup, buy, sell, gas, measured, cached, rate, result>>

(***************************************************************************)
(* GasEstimator.estimate                                                    *)
(***************************************************************************)
Rounded(units, f) == (units * f[1] + f[2] - 1) \div f[2]      \* ROUND_CEILING
Corrected(units) == Rounded(units, factor)

(* round_trip_gas_units: a leg that says nothing leaves the sum unknown.     *)
RoundTripUnits(u, w) ==
  IF Absent \in {u, w} THEN Absent ELSE Corrected(u) + Corrected(w)

QuotedUnits == IF Absent \in {buy.units, sell.units} THEN Absent ELSE buy.units + sell.units

(* _quoted_gas_price *)
QuotedPrice == IF buy.price # Absent THEN buy.price ELSE sell.price

Gas(units, price) ==
  IF Absent \in {units, price} THEN Nothing
  ELSE [known |-> TRUE, units |-> units, native |-> units * price, at |-> now]

Estimate ==
  /\ step = "gas"
  /\ LET units == RoundTripUnits(buy.units, sell.units)
         quoted == "quote" \in setup.sources /\ QuotedPrice # Absent
     IN IF units = Absent \/ quoted
        THEN gas' = Gas(units, QuotedPrice) /\ step' = "rate"
        ELSE gas' = [known |-> FALSE, units |-> units] /\ step' = "price"
  /\ UNCHANGED <<now, setup, buy, sell, fees, measured, cached, rate, result>>

(* _first_available_price: the configured one, else the node's, which Level  *)
(* 1 does not ask.  When no address of the node answers, or it answers       *)
(* nonsense, the error ends the verification; an empty answer is no price.   *)
Price ==
  /\ step = "price"
  /\ LET remote == "rpc" \in setup.sources /\ setup.level = 2
         known == IF "static" \in setup.sources \/ remote THEN Prices ELSE {}
     IN \/ \E price \in known : gas' = Gas(gas.units, price) /\ step' = "rate" /\ UNCHANGED result
        \/ /\ "static" \notin setup.sources
           /\ gas' = Gas(gas.units, Absent) /\ step' = "rate" /\ UNCHANGED result
        \/ /\ "static" \notin setup.sources /\ remote
           /\ step' = "ended" /\ result' = Result("raised") /\ UNCHANGED gas
  /\ UNCHANGED <<now, setup, buy, sell, fees, measured, cached, rate>>

(***************************************************************************)
(* _gas_conversion_rate                                                     *)
(***************************************************************************)
Rate(num, den, expires) == [known |-> TRUE, num |-> num, den |-> den, expires |-> expires]
Fresh(r) == r.known /\ (r.expires = Absent \/ now < r.expires)

(* round_trip_correction as a fraction; before it, a defect: half of the      *)
(* units keep the correction that the estimate was made with.                *)
CorrectionOfTwoMoments ==
  LET corrected == RoundTripUnits(buy.units, sell.units)
  IN IF QuotedUnits \in {Absent, 0} \/ corrected \in {Absent, 0} THEN <<1, 1>>
     ELSE <<corrected + gas.units, 2 * QuotedUnits>>
Correction ==
  LET corrected == RoundTripUnits(buy.units, sell.units)
  IN IF QuotedUnits \in {Absent, 0} \/ corrected \in {Absent, 0} THEN <<1, 1>>
     ELSE <<corrected, QuotedUnits>>

CostUsd == IF Absent \in {buy.usd, sell.usd} THEN Absent ELSE buy.usd + sell.usd

(* gas_rate_from_quotes: dollars over the native cost of what was quoted.    *)
QuotedRate ==
  IF setup.base = "stable" /\ gas.known /\ gas.native > 0 /\ CostUsd > 0
  THEN Rate(CostUsd * Correction[1], gas.native * Correction[2], Absent)
  ELSE Nothing

(* Gas that is paid in the currency of the result needs no rate. *)
NoRateNeeded == setup.base = "native"

(* ConversionService.rate until its providers are asked. *)
Convert ==
  /\ step = "rate"
  /\ IF NoRateNeeded THEN rate' = Nothing /\ step' = "calculate"
     ELSE IF QuotedRate.known
     THEN rate' = QuotedRate /\ step' = "calculate"
     ELSE IF Fresh(cached) THEN rate' = cached /\ step' = "calculate"
     ELSE step' = "asking" /\ UNCHANGED rate
  /\ UNCHANGED <<now, setup, buy, sell, fees, gas, measured, cached, result>>

(* A price from a quote, from an HTTP source or from the configuration.      *)
Answered ==
  /\ step = "asking"
  /\ \/ /\ \E price \in Prices : rate' = Rate(price, 1, now + TimeToLive)
        /\ cached' = rate'
     \/ rate' = Nothing /\ UNCHANGED cached
  /\ step' = "calculate"
  /\ UNCHANGED <<now, setup, buy, sell, fees, gas, measured, result>>

(***************************************************************************)
(* ProfitCalculator.calculate                                               *)
(***************************************************************************)
(* RateBook takes what is fresh now.                                         *)
RateBook == IF Fresh(rate) THEN rate ELSE Nothing

(* A cost in the currency of the result, as a fraction. *)
InBase(native) ==
  IF setup.base = "native" THEN [known |-> TRUE, num |-> native, den |-> 1]
  ELSE IF RateBook.known THEN [known |-> TRUE, num |-> native * RateBook.num, den |-> RateBook.den]
  ELSE Nothing

IsKnown(fee) == fee.known
FeesKnown == \A i \in {1, 2} : IsKnown(fees[i])          \* what is in the quote costs no more
GasCost == IF gas.known THEN InBase(gas.native) ELSE Nothing

(* evaluate_threshold: an unknown cost blocks a metric that costs matter to. *)
Passed ==
  LET gross == sell.output - Amount
  IN IF setup.metric = "gross" THEN gross >= Threshold
     ELSE FeesKnown /\ GasCost.known /\ (gross - Threshold) * GasCost.den >= GasCost.num

(* _passes_preliminary_threshold at Level 1, _status_for at Level 2. *)
Preliminary == IF Passed THEN "qualified" ELSE "rejected"
StatusFor ==
  IF ~(FeesKnown /\ GasCost.known) THEN "unknown"
  ELSE IF Passed THEN "profitable" ELSE "unprofitable"

Calculate ==
  /\ step = "calculate"
  /\ result' = Result(IF setup.level = 1 THEN Preliminary ELSE StatusFor)
  /\ step' = "ended"
  /\ UNCHANGED <<now, setup, buy, sell, fees, gas, measured, cached, rate>>

(* A trade ends and its receipt corrects the estimates, while the price of   *)
(* gas is awaited: a change before that is as if it had been so from the     *)
(* start, and none comes later, for nothing is awaited until the rate is.    *)
Calibrate ==
  /\ step = "price"
  /\ factor' \in Factors \ {factor} /\ factors' = factors \cup {factor'}
  /\ UNCHANGED <<step, now, setup, buy, sell, fees, gas, cached, rate, result>>

Tick ==
  /\ step # "ended" /\ now < MaxTime
  /\ now' = now + 1
  /\ UNCHANGED <<step, setup, buy, sell, fees, gas, measured, cached, rate, result>>

Init ==
  /\ step = "buy" /\ now = 0
  /\ setup \in Setups /\ factor \in Factors /\ factors = {factor}
  /\ buy = Nothing /\ sell = Nothing /\ fees = <<>> /\ gas = Nothing
  /\ cached \in {Nothing} \cup {Rate(price, 1, TimeToLive) : price \in Prices}
  /\ rate = Nothing /\ result = Result("none")

Next ==
  \/ Refused \/ Buy \/ Sell \/ Fees \/ Estimate \/ Price \/ Convert \/ Answered \/ Calculate
  \/ Calibrate \/ Tick

Spec == Init /\ [][Next]_vars

(***************************************************************************)
(* Properties                                                               *)
(***************************************************************************)
Accepted == result.status \in {"qualified", "profitable"}

Judged == result.status \in {"qualified", "rejected", "profitable", "unprofitable"}

(* Gas in dollars for what will really be burnt: the providers' own figure,  *)
(* in the proportion of the units that were corrected.                       *)
RealDollars(f) == CostUsd * (Rounded(buy.units, f) + Rounded(sell.units, f))
PaysDollars(f) == (sell.output - Amount - Threshold) * QuotedUnits >= RealDollars(f)

(* A profit is one: the round trip is of this amount and of what it bought,  *)
(* and unless the threshold is of the gross result nothing that it costs is  *)
(* unknown, and what the gas of both legs leaves reaches the threshold; what *)
(* was a good rate when it was asked for may have expired since, and then    *)
(* there is no profit.  Where the providers' dollars price the gas, the cost *)
(* that is counted is, to the last unit, these dollars corrected once, by    *)
(* one correction that held during the verification - never uncorrected,     *)
(* nor by the one before an await for one part and the one after for         *)
(* another - and the verdict, for or against, is the one of that cost        *)
(* (AmountVerifier.verify, aggregate_costs, round_trip_correction,           *)
(* gas_rate_from_quotes, RateBook).                                          *)
ProfitIsReal ==
  /\ Accepted =>
       /\ buy.input = Amount /\ sell.input = buy.output
       /\ setup.metric = "net" \/ setup.level = 2 =>
            Absent \notin {buy.units, sell.units} /\ setup.policy = "inclusive"
       /\ setup.metric = "net" /\ setup.base = "native" =>
            sell.output - Amount - Threshold >= gas.native
       /\ setup.metric = "net" /\ setup.base # "native" => Fresh(rate)
  /\ Judged /\ setup.metric = "net" /\ QuotedRate.known =>
       \E f \in factors :
         /\ GasCost.known /\ GasCost.num * QuotedUnits = RealDollars(f) * GasCost.den
         /\ setup.policy = "inclusive" => (Accepted <=> PaysDollars(f))
=============================================================================
