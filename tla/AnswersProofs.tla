---------------------------- MODULE AnswersProofs ----------------------------
(***************************************************************************)
(* Proofs about the parts of Answers, each for every value of its constants: *)
(* the breaker, the calls of the providers, the calculation of a profit, the *)
(* calibration of gas, the hours of the providers and the selection of what  *)
(* is handed over.                                                          *)
(***************************************************************************)
EXTENDS Answers, FiniteSetTheorems, TLAPS

(***************************************************************************)
(* The breaker                                                              *)
(***************************************************************************)
(* What a counter of the breaker claims is what the history confirms: the   *)
(* successes while it probes, the failures while it does not.               *)
Streaks ==
  /\ b.state = "half_open" => b.successes <= good
  /\ b.state # "half_open" => b.successes = 0 /\ b.failures <= bad

(* The inductive invariant. *)
BreakerInv == TypeOK /\ SlotsBelongToProbes /\ Streaks

(* The part of TypeOK that is about the breaker, of any value of it. *)
Sound(c) ==
  /\ c \in Breaker
  /\ c.failures < FailureThreshold /\ c.successes < SuccessThreshold
  /\ c.calls <= MaxProbes

(***************************************************************************)
(* Lemmas: what each method of the breaker returns                          *)
(***************************************************************************)
LEMMA LookSound ==
  ASSUME NEW c, Sound(c)
  PROVE  /\ Sound(Look(c))
         /\ Look(c).calls <= c.calls
         /\ Look(c) = c \/ (c.state = "open" /\ Look(c).state = "half_open"
                            /\ Look(c).successes = 0)
<1>1. CASE c.state = "open" /\ c.elapsed >= Cooldown(c)
  <2>1. Look(c) = [c EXCEPT !.state = "half_open", !.calls = 0, !.successes = 0]
    BY <1>1 DEF Look
  <2>2. Look(c) \in Breaker
    <3>1. Look(c) = [state |-> "half_open", failures |-> c.failures, successes |-> 0,
                     elapsed |-> c.elapsed, calls |-> 0, openings |-> c.openings]
      BY <2>1 DEF Sound, Breaker
    <3> QED BY <3>1 DEF Sound, Breaker
  <2>3. /\ Look(c).state = "half_open" /\ Look(c).calls = 0 /\ Look(c).successes = 0
        /\ Look(c).failures = c.failures /\ Look(c).openings = c.openings
    BY <2>1 DEF Sound, Breaker
  <2>4. c.calls \in Nat BY DEF Sound, Breaker
  <2> QED BY <1>1, <2>2, <2>3, <2>4, ThresholdsAssumption DEF Sound
<1>2. CASE ~(c.state = "open" /\ c.elapsed >= Cooldown(c))
  <2>1. Look(c) = c BY <1>2 DEF Look
  <2> QED BY <2>1 DEF Sound, Breaker
<1> QED BY <1>1, <1>2

LEMMA ReleaseSound ==
  ASSUME NEW c, Sound(c)
  PROVE  /\ Sound(ReleaseSlot(c))
         /\ ReleaseSlot(c) = [c EXCEPT !.calls = OneFewer(c.calls)]
         /\ ReleaseSlot(c).calls = OneFewer(c.calls)
<1>1. c.calls \in Nat /\ OneFewer(c.calls) \in Nat /\ OneFewer(c.calls) <= c.calls
  BY DEF OneFewer, Sound, Breaker
<1>2. ReleaseSlot(c) = [c EXCEPT !.calls = OneFewer(c.calls)] BY DEF ReleaseSlot
<1> HIDE DEF OneFewer
<1> QED BY <1>1, <1>2, ThresholdsAssumption DEF Sound, Breaker

LEMMA ClosedSound == Sound(Closed)
BY ThresholdsAssumption, LadderAssumption DEF Closed, Sound, Breaker

LEMMA OpenSound ==
  ASSUME NEW c, Sound(c), NEW limited \in BOOLEAN
  PROVE  /\ Sound(Open(c, limited))
         /\ Open(c, limited).state = "open" /\ Open(c, limited).calls = 0
         /\ Open(c, limited).successes = 0 /\ Open(c, limited).failures = 0
<1>1. AtMost(c.openings + 1, MaxOpenings) \in Nat
  BY OpeningsAssumption DEF AtMost, Sound, Breaker
<1>2. (IF limited THEN AtMost(c.openings + 1, MaxOpenings) ELSE 0) \in Nat BY <1>1
<1> DEFINE n == IF limited THEN AtMost(c.openings + 1, MaxOpenings) ELSE 0
<1> HIDE DEF n
<1>3. Open(c, limited) =
        [c EXCEPT !.state = "open", !.failures = 0, !.successes = 0, !.elapsed = 0,
                  !.calls = 0, !.openings = n]
  BY DEF Open, n
<1>4. n \in Nat BY <1>2 DEF n
<1>5. Open(c, limited) \in Breaker
  <2>1. Open(c, limited) = [state |-> "open", failures |-> 0, successes |-> 0,
                            elapsed |-> 0, calls |-> 0, openings |-> n]
    BY <1>3 DEF Sound, Breaker
  <2>2. 0 \in 0..MaxTime BY LadderAssumption
  <2> QED BY <1>4, <2>1, <2>2 DEF Breaker
<1>6. /\ Open(c, limited).state = "open" /\ Open(c, limited).calls = 0
      /\ Open(c, limited).successes = 0 /\ Open(c, limited).failures = 0
  BY <1>3 DEF Sound, Breaker
<1> QED BY <1>5, <1>6, ThresholdsAssumption DEF Sound

(* on_success: the successes go up by one while it probes, up to the        *)
(* threshold that closes the circuit; otherwise the failures are forgotten. *)
LEMMA SuccessSound ==
  ASSUME NEW c, Sound(c)
  PROVE  /\ Sound(OnSuccess(c))
         /\ OnSuccess(c).calls <= c.calls
         /\ c.state # "half_open" =>
              /\ OnSuccess(c).state = c.state
              /\ OnSuccess(c).failures = 0 /\ OnSuccess(c).successes = c.successes
         /\ c.state = "half_open" =>
              \/ /\ OnSuccess(c).state = "closed" /\ c.successes + 1 >= SuccessThreshold
                 /\ OnSuccess(c).failures = 0 /\ OnSuccess(c).successes = 0
              \/ OnSuccess(c).state = "half_open" /\ OnSuccess(c).successes = c.successes + 1
<1>1. CASE c.state # "half_open"
  BY <1>1, ThresholdsAssumption DEF OnSuccess, Sound, Breaker
<1>2. CASE c.state = "half_open" /\ c.successes + 1 >= SuccessThreshold
  BY <1>2, ClosedSound DEF OnSuccess, Closed, Sound, Breaker
<1>3. CASE c.state = "half_open" /\ ~(c.successes + 1 >= SuccessThreshold)
  BY <1>3, ThresholdsAssumption DEF OnSuccess, Sound, Breaker
<1> QED BY <1>1, <1>2, <1>3

(* on_failure: one failure more, or the circuit opens. *)
LEMMA FailureSound ==
  ASSUME NEW c, Sound(c), NEW limited \in BOOLEAN
  PROVE  LET f == OnFailure(c, limited)
         IN /\ Sound(f)
            /\ f.calls <= c.calls
            /\ \/ /\ f.state = "open" /\ f.failures = 0 /\ f.successes = 0
                  /\ c.state = "half_open" \/ c.failures + 1 >= FailureThreshold
               \/ /\ f.state = c.state /\ c.state # "half_open"
                  /\ f.failures = c.failures + 1 /\ f.failures < FailureThreshold
                  /\ f.successes = c.successes
<1>1. CASE c.state = "half_open" \/ c.failures + 1 >= FailureThreshold
  BY <1>1, OpenSound DEF OnFailure, Sound, Breaker
<1>2. CASE ~(c.state = "half_open" \/ c.failures + 1 >= FailureThreshold)
  BY <1>2, ThresholdsAssumption DEF OnFailure, Sound, Breaker
<1> QED BY <1>1, <1>2

(***************************************************************************)
(* Lemmas: the probes                                                       *)
(***************************************************************************)
LEMMA ProbesFinite ==
  ASSUME TypeOK
  PROVE  IsFiniteSet(Probing) /\ Cardinality(Probing) \in Nat
<1>1. Probing \in SUBSET Ops BY DEF Probing
<1> QED BY <1>1, OpsAssumption, FS_Subset, FS_CardinalityType

(* An operation that ends frees at least as many slots as it counts for.    *)
LEMMA EndingKeepsSlots ==
  ASSUME BreakerInv, NEW o \in Ops, pc[o] \in Busy, Go(o, "idle"),
         NEW c, Sound(c), c.calls <= b.calls, b' = ReleaseSlot(c)
  PROVE  SlotsBelongToProbes'
<1>1. Probing' = Probing \ {o} BY DEF Probing, Go, BreakerInv, TypeOK
<1>2. Cardinality(Probing') >= Cardinality(Probing) - 1 /\ Cardinality(Probing') \in Nat
  <2>1. IsFiniteSet(Probing) /\ Cardinality(Probing) \in Nat BY ProbesFinite DEF BreakerInv
  <2>2. /\ IsFiniteSet(Probing \ {o})
        /\ Cardinality(Probing \ {o}) =
             IF o \in Probing THEN Cardinality(Probing) - 1 ELSE Cardinality(Probing)
    BY <2>1, FS_RemoveElement
  <2>3. Cardinality(Probing \ {o}) \in Nat BY <2>2, FS_CardinalityType
  <2> QED BY <1>1, <2>1, <2>2, <2>3
<1>3. b'.calls = OneFewer(c.calls) /\ c.calls \in Nat /\ b.calls \in Nat
  BY ReleaseSound DEF Sound, Breaker, BreakerInv, TypeOK
<1>4. Cardinality(Probing) \in Nat /\ b.calls <= Cardinality(Probing)
  BY ProbesFinite DEF BreakerInv, SlotsBelongToProbes
<1> QED BY <1>2, <1>3, <1>4 DEF OneFewer, SlotsBelongToProbes

(***************************************************************************)
(* The inductive invariant holds                                            *)
(***************************************************************************)
LEMMA BreakerBegins == Init => BreakerInv
<1> SUFFICES ASSUME Init PROVE BreakerInv OBVIOUS
<1>1. TypeOK
  BY ClosedSound, ThresholdsAssumption DEF Init, TypeOK, Sound, PCs
<1>2. SlotsBelongToProbes
  BY <1>1, ProbesFinite DEF Init, Closed, SlotsBelongToProbes
<1>3. Streaks BY DEF Init, Closed, Streaks
<1> QED BY <1>1, <1>2, <1>3 DEF BreakerInv

LEMMA AskKeepsBreaker == ASSUME BreakerInv, NEW o \in Ops, Ask(o) PROVE BreakerInv'
<1>1. Sound(b) BY DEF BreakerInv, TypeOK, Sound
<1>2. b' = Look(b) /\ Sound(b') BY <1>1, LookSound DEF Ask
<1>3. TypeOK' BY <1>2 DEF Ask, Go, BreakerInv, TypeOK, Sound, PCs
<1>4. Probing' = Probing BY DEF Ask, Go, Probing, BreakerInv, TypeOK
<1>5. SlotsBelongToProbes'
  BY <1>1, <1>2, <1>4, LookSound, ProbesFinite DEF BreakerInv, SlotsBelongToProbes, Sound, Breaker
<1>6. Streaks' BY <1>1, <1>2, LookSound DEF Ask, BreakerInv, Streaks, TypeOK
<1> QED BY <1>3, <1>5, <1>6 DEF BreakerInv

LEMMA StartKeepsBreaker == ASSUME BreakerInv, NEW o \in Ops, Start(o) PROVE BreakerInv'
<1> DEFINE seen == Look(b)
<1> HIDE DEF seen
<1>1. Sound(b) BY DEF BreakerInv, TypeOK, Sound
<1>2. /\ Sound(seen) /\ seen.calls <= b.calls
      /\ seen = b \/ (b.state = "open" /\ seen.state = "half_open" /\ seen.successes = 0)
  BY <1>1, LookSound DEF seen
<1>3. /\ pc[o] = "queued" /\ UNCHANGED <<up, good, bad>>
      /\ \/ /\ Allows(seen) /\ b' = TakeSlot(seen)
            /\ Go(o, IF seen.state = "closed" THEN "running" ELSE "probing")
         \/ b' = seen /\ Go(o, "idle")
  BY DEF Start, seen
<1>4. o \notin Probing BY <1>3 DEF Probing
<1>5. seen.calls \in Nat /\ b.calls \in Nat /\ Cardinality(Probing) \in Nat
      /\ seen.calls <= Cardinality(Probing)
  BY <1>1, <1>2, ProbesFinite DEF Sound, Breaker, BreakerInv, SlotsBelongToProbes
<1>6. CASE seen.state = "half_open" /\ Allows(seen) /\ b' = TakeSlot(seen) /\ Go(o, "probing")
  <2>1. b' = [seen EXCEPT !.calls = seen.calls + 1] BY <1>6 DEF TakeSlot
  <2>2. seen.calls < MaxProbes BY <1>6 DEF Allows
  <2>3. Sound(b') /\ b'.calls = seen.calls + 1
    BY <1>2, <2>1, <2>2, ThresholdsAssumption DEF Sound, Breaker
  <2>4. TypeOK' BY <1>3, <1>6, <2>3 DEF Go, BreakerInv, TypeOK, Sound, PCs
  <2>5. Probing' = Probing \cup {o} BY <1>6 DEF Go, Probing, BreakerInv, TypeOK
  <2>6. Cardinality(Probing') = Cardinality(Probing) + 1
    BY <1>4, <2>5, ProbesFinite, FS_AddElement DEF BreakerInv
  <2>7. SlotsBelongToProbes' BY <1>5, <2>3, <2>6 DEF SlotsBelongToProbes
  <2>8. Streaks'
    BY <1>1, <1>2, <1>3, <1>6, <2>1 DEF BreakerInv, Streaks, TypeOK, Sound, Breaker
  <2> QED BY <2>4, <2>7, <2>8 DEF BreakerInv
<1>7. CASE b' = seen /\ (Go(o, "running") \/ Go(o, "idle"))
  <2>1. TypeOK' BY <1>2, <1>3, <1>7 DEF Go, BreakerInv, TypeOK, Sound, PCs
  <2>2. Probing' = Probing BY <1>3, <1>7 DEF Go, Probing, BreakerInv, TypeOK
  <2>3. SlotsBelongToProbes' BY <1>5, <1>7, <2>2 DEF SlotsBelongToProbes
  <2>4. Streaks' BY <1>2, <1>3, <1>7 DEF BreakerInv, Streaks, TypeOK
  <2> QED BY <2>1, <2>3, <2>4 DEF BreakerInv
<1> QED BY <1>3, <1>6, <1>7 DEF Allows, TakeSlot

LEMMA SucceedKeepsBreaker == ASSUME BreakerInv, NEW o \in Ops, Succeed(o) PROVE BreakerInv'
<1> DEFINE seen == Look(b)  c == OnSuccess(seen)
<1> HIDE DEF seen, c
<1>1. Sound(b) BY DEF BreakerInv, TypeOK, Sound
<1>2. /\ Sound(seen) /\ seen.calls <= b.calls
      /\ seen = b \/ (b.state = "open" /\ seen.state = "half_open" /\ seen.successes = 0)
  BY <1>1, LookSound DEF seen
<1>3. Sound(c) /\ c.calls <= seen.calls BY <1>2, SuccessSound DEF c
<1>4. b' = ReleaseSlot(c) /\ pc[o] \in Busy /\ Go(o, "idle")
  BY DEF Succeed, seen, c
<1>5. Sound(b') BY <1>3, <1>4, ReleaseSound
<1>6. good' \in 0..SuccessThreshold /\ bad' = 0 /\ up' = up
  BY ThresholdsAssumption DEF Succeed, AtMost, BreakerInv, TypeOK
<1>7. TypeOK' BY <1>4, <1>5, <1>6, ThresholdsAssumption DEF Go, BreakerInv, TypeOK, Sound, PCs
<1>8. SlotsBelongToProbes'
  <2>1. c.calls <= b.calls BY <1>1, <1>2, <1>3 DEF Sound, Breaker
  <2> QED BY <1>3, <1>4, <2>1, EndingKeepsSlots
<1>9. Streaks'
  <2>1. b'.state = c.state /\ b'.successes = c.successes /\ b'.failures = c.failures
    BY <1>3, <1>4, ReleaseSound DEF Sound, Breaker
  <2>2. good' = AtMost(good + 1, SuccessThreshold) BY DEF Succeed
  <2>3. CASE seen.state # "half_open"
    BY <1>2, <1>6, <2>1, <2>3, SuccessSound DEF c, BreakerInv, Streaks
  <2>4. CASE seen.state = "half_open"
    <3>1. seen.successes <= good /\ seen.successes \in Nat /\ good \in Nat
      BY <1>2, <2>4 DEF BreakerInv, Streaks, TypeOK, Sound, Breaker
    <3>2. CASE c.state = "closed" /\ c.failures = 0 /\ c.successes = 0
      BY <1>6, <2>1, <3>2 DEF Streaks
    <3>3. CASE c.state = "half_open" /\ c.successes = seen.successes + 1
      <4>1. c.successes < SuccessThreshold BY <1>3 DEF Sound
      <4> QED BY <2>1, <2>2, <3>1, <3>3, <4>1, ThresholdsAssumption DEF AtMost, Streaks
    <3> QED BY <1>2, <2>4, <3>2, <3>3, SuccessSound DEF c
  <2> QED BY <2>3, <2>4
<1> QED BY <1>7, <1>8, <1>9 DEF BreakerInv

LEMMA FailKeepsBreaker == ASSUME BreakerInv, NEW o \in Ops, Fail(o) PROVE BreakerInv'
<1> DEFINE seen == Look(b)
<1> HIDE DEF seen
<1>1. Sound(b) BY DEF BreakerInv, TypeOK, Sound
<1>2. /\ Sound(seen) /\ seen.calls <= b.calls
      /\ seen = b \/ (b.state = "open" /\ seen.state = "half_open" /\ seen.successes = 0)
  BY <1>1, LookSound DEF seen
<1>3. PICK limited \in BOOLEAN : b' = ReleaseSlot(OnFailure(seen, limited))
  BY DEF Fail, seen
<1> DEFINE c == OnFailure(seen, limited)
<1> HIDE DEF c
<1>4. /\ Sound(c) /\ c.calls <= seen.calls
      /\ \/ c.state = "open" /\ c.failures = 0 /\ c.successes = 0
         \/ /\ c.state = seen.state /\ seen.state # "half_open"
            /\ c.failures = seen.failures + 1 /\ c.failures < FailureThreshold
            /\ c.successes = seen.successes
  BY <1>2, FailureSound DEF c
<1>5. b' = ReleaseSlot(c) /\ pc[o] \in Busy /\ Go(o, "idle") BY <1>3 DEF Fail, c
<1>6. Sound(b') BY <1>4, <1>5, ReleaseSound
<1>7. bad' \in 0..FailureThreshold /\ good' = 0 /\ up' = up
  BY ThresholdsAssumption DEF Fail, AtMost, BreakerInv, TypeOK
<1>8. TypeOK' BY <1>5, <1>6, <1>7, ThresholdsAssumption DEF Go, BreakerInv, TypeOK, Sound, PCs
<1>9. SlotsBelongToProbes'
  <2>1. c.calls <= b.calls BY <1>1, <1>2, <1>4 DEF Sound, Breaker
  <2> QED BY <1>4, <1>5, <2>1, EndingKeepsSlots
<1>10. Streaks'
  <2>1. b'.state = c.state /\ b'.successes = c.successes /\ b'.failures = c.failures
    BY <1>4, <1>5, ReleaseSound DEF Sound, Breaker
  <2>2. CASE c.state = "open" /\ c.failures = 0 /\ c.successes = 0
    BY <1>7, <2>1, <2>2 DEF Streaks
  <2>3. CASE /\ c.state = seen.state /\ seen.state # "half_open"
             /\ c.failures = seen.failures + 1 /\ c.failures < FailureThreshold
             /\ c.successes = seen.successes
    <3>1. seen = b /\ b.successes = 0 /\ b.failures <= bad /\ b.failures \in Nat
          /\ bad \in 0..FailureThreshold
      BY <1>2, <2>3 DEF BreakerInv, Streaks, TypeOK, Breaker
    <3>2. bad' = AtMost(bad + 1, FailureThreshold) BY DEF Fail
    <3>3. c.failures <= bad' BY <2>3, <3>1, <3>2, ThresholdsAssumption DEF AtMost
    <3> QED BY <2>1, <2>3, <3>1, <3>3 DEF Streaks
  <2> QED BY <1>4, <2>2, <2>3
<1> QED BY <1>8, <1>9, <1>10 DEF BreakerInv

LEMMA BreakerKept == BreakerInv /\ [Next]_vars => BreakerInv'
<1> SUFFICES ASSUME BreakerInv, [Next]_vars PROVE BreakerInv' OBVIOUS
<1>1. Sound(b) BY DEF BreakerInv, TypeOK, Sound
<1>2. ASSUME NEW o \in Ops, LeaveQueue(o) PROVE BreakerInv'
  <2>1. Probing' = Probing BY <1>2 DEF LeaveQueue, Go, Probing, BreakerInv, TypeOK
  <2> QED BY <1>2, <2>1
          DEF LeaveQueue, Go, BreakerInv, TypeOK, PCs, SlotsBelongToProbes, Streaks
<1>3. ASSUME NEW o \in Ops, EndUncounted(o) PROVE BreakerInv'
  <2>1. b' = ReleaseSlot(b) /\ pc[o] \in Busy /\ Go(o, "idle") BY <1>3 DEF EndUncounted
  <2>2. Sound(b') BY <1>1, <2>1, ReleaseSound
  <2>3. TypeOK' BY <1>3, <2>1, <2>2 DEF EndUncounted, Go, BreakerInv, TypeOK, Sound, PCs
  <2>4. b.calls <= b.calls BY <1>1 DEF Sound, Breaker
  <2>5. SlotsBelongToProbes' BY <1>1, <2>1, <2>4, EndingKeepsSlots
  <2>6. b'.state = b.state /\ b'.successes = b.successes /\ b'.failures = b.failures
    BY <1>1, <2>1, ReleaseSound DEF Sound, Breaker
  <2>7. Streaks' BY <1>3, <2>6 DEF EndUncounted, BreakerInv, Streaks
  <2> QED BY <2>3, <2>5, <2>7 DEF BreakerInv
<1>4. CASE Tick
  <2>1. Sound(b') /\ b'.state = b.state /\ b'.calls = b.calls
        /\ b'.successes = b.successes /\ b'.failures = b.failures
    BY <1>1, <1>4, LadderAssumption DEF Tick, Sound, Breaker
  <2>2. Probing' = Probing BY <1>4 DEF Tick, Probing
  <2>3. TypeOK' BY <1>4, <2>1 DEF Tick, BreakerInv, TypeOK, Sound
  <2> QED BY <1>4, <2>1, <2>2, <2>3 DEF Tick, BreakerInv, SlotsBelongToProbes, Streaks
<1>5. CASE ResourceChanges
  <2>1. Probing' = Probing BY <1>5 DEF ResourceChanges, Probing
  <2> QED BY <1>5, <2>1
          DEF ResourceChanges, BreakerInv, TypeOK, SlotsBelongToProbes, Streaks
<1>6. CASE UNCHANGED vars
  <2>1. Probing' = Probing BY <1>6 DEF vars, Probing
  <2> QED BY <1>6, <2>1 DEF vars, BreakerInv, TypeOK, SlotsBelongToProbes, Streaks
<1> QED BY <1>2, <1>3, <1>4, <1>5, <1>6, AskKeepsBreaker, StartKeepsBreaker,
         SucceedKeepsBreaker, FailKeepsBreaker
        DEF Next

LEMMA BreakerSteps == [AnswersNext]_all => [Next]_vars
BY DEF AnswersNext, OthersStill, Still, all, breakerVars

LEMMA BreakerHolds == AnswersSpec => []BreakerInv
<1>1. AnswersInit => BreakerInv BY BreakerBegins DEF AnswersInit
<1>2. BreakerInv /\ [AnswersNext]_all => BreakerInv' BY BreakerSteps, BreakerKept
<1> QED BY <1>1, <1>2, PTL DEF AnswersSpec

(* The counters of the breaker keep their ranges. *)
THEOREM BreakerTypeCorrect == AnswersSpec => []TypeOK
BY BreakerHolds, PTL DEF BreakerInv

(* No probe's slot is taken for good: a counted slot has a probe that runs. *)
THEOREM NoProbeSlotIsLost == AnswersSpec => []SlotsBelongToProbes
BY BreakerHolds, PTL DEF BreakerInv

(* The circuit closes only on a streak of successes. *)
THEOREM ClosingTakesAStreak == AnswersSpec => ClosesAfterStreak
<1>1. BreakerInv /\ [Next]_vars =>
        [b.state # "closed" /\ b'.state = "closed" => good' = SuccessThreshold]_vars
  <2> SUFFICES ASSUME BreakerInv, Next, b.state # "closed", b'.state = "closed"
               PROVE  good' = SuccessThreshold
    BY DEF vars
  <2>1. Sound(b) BY DEF BreakerInv, TypeOK, Sound
  <2> DEFINE seen == Look(b)
  <2> HIDE DEF seen
  <2>2. Sound(seen) /\ seen.state # "closed"
        /\ (seen = b \/ (b.state = "open" /\ seen.state = "half_open" /\ seen.successes = 0))
    BY <2>1, LookSound DEF seen
  <2>3. ASSUME NEW o \in Ops PROVE ~Ask(o) /\ ~LeaveQueue(o)
    BY <2>2 DEF Ask, LeaveQueue, seen
  <2>4. ASSUME NEW o \in Ops PROVE ~Start(o)
    BY <2>2 DEF Start, TakeSlot, seen, Sound, Breaker
  <2>5. ASSUME NEW o \in Ops PROVE ~EndUncounted(o)
    BY <2>1, ReleaseSound DEF EndUncounted, Sound, Breaker
  <2>6. ASSUME NEW o \in Ops PROVE ~Fail(o)
    BY <2>2, FailureSound, ReleaseSound DEF Fail, seen, Sound, Breaker
  <2>7. ~Tick /\ ~ResourceChanges BY <2>1 DEF Tick, ResourceChanges, Sound, Breaker
  <2>8. ASSUME NEW o \in Ops, Succeed(o) PROVE good' = SuccessThreshold
    <3>1. b' = ReleaseSlot(OnSuccess(seen)) /\ good' = AtMost(good + 1, SuccessThreshold)
      BY <2>8 DEF Succeed, seen
    <3>2. OnSuccess(seen).state = "closed"
      BY <2>2, <3>1, SuccessSound, ReleaseSound DEF Sound, Breaker
    <3>3. seen.state = "half_open" /\ seen.successes + 1 >= SuccessThreshold
      BY <2>2, <3>2, SuccessSound
    <3>4. seen.successes <= good /\ seen.successes \in Nat /\ good \in 0..SuccessThreshold
      BY <2>2, <3>3 DEF BreakerInv, Streaks, TypeOK, Sound, Breaker
    <3> QED BY <3>1, <3>3, <3>4, ThresholdsAssumption DEF AtMost
  <2> QED BY <2>3, <2>4, <2>5, <2>6, <2>7, <2>8 DEF Next
<1> QED BY <1>1, BreakerSteps, BreakerHolds, PTL DEF AnswersSpec, ClosesAfterStreak

(* A closed circuit opens only on a streak of failures. *)
THEOREM OpeningTakesAStreak == AnswersSpec => OpensAfterStreak
<1>1. BreakerInv /\ [Next]_vars =>
        [b.state = "closed" /\ b'.state = "open" => bad' = FailureThreshold]_vars
  <2> SUFFICES ASSUME BreakerInv, Next, b.state = "closed", b'.state = "open"
               PROVE  bad' = FailureThreshold
    BY DEF vars
  <2>1. Sound(b) BY DEF BreakerInv, TypeOK, Sound
  <2>2. Look(b) = b BY DEF Look
  <2>3. ASSUME NEW o \in Ops PROVE ~Ask(o) /\ ~LeaveQueue(o) /\ ~Start(o)
    BY <2>2 DEF Ask, LeaveQueue, Start, TakeSlot
  <2>4. ASSUME NEW o \in Ops PROVE ~EndUncounted(o)
    BY <2>1, ReleaseSound DEF EndUncounted, Sound, Breaker
  <2>5. ASSUME NEW o \in Ops PROVE ~Succeed(o)
    BY <2>1, <2>2, SuccessSound, ReleaseSound DEF Succeed, Sound, Breaker
  <2>6. ~Tick /\ ~ResourceChanges BY DEF Tick, ResourceChanges
  <2>7. ASSUME NEW o \in Ops, Fail(o) PROVE bad' = FailureThreshold
    <3>1. PICK limited \in BOOLEAN : b' = ReleaseSlot(OnFailure(b, limited))
      BY <2>2, <2>7 DEF Fail
    <3>2. OnFailure(b, limited).state = "open"
      BY <2>1, <3>1, FailureSound, ReleaseSound DEF Sound, Breaker
    <3>3. b.failures + 1 >= FailureThreshold BY <2>1, <3>2, FailureSound
    <3>4. b.failures <= bad /\ b.failures \in Nat /\ bad \in 0..FailureThreshold
      BY DEF BreakerInv, Streaks, TypeOK, Breaker
    <3>5. bad' = AtMost(bad + 1, FailureThreshold) BY <2>7 DEF Fail
    <3> QED BY <3>3, <3>4, <3>5, ThresholdsAssumption DEF AtMost
  <2> QED BY <2>3, <2>4, <2>5, <2>6, <2>7 DEF Next
<1> QED BY <1>1, BreakerSteps, BreakerHolds, PTL DEF AnswersSpec, OpensAfterStreak

(***************************************************************************)
(* The calls of the providers                                               *)
(***************************************************************************)
(* What the answer of a provider may be called. *)
Verdicts ==
  {"timeout", "network", "authentication", "data", "rate_limit", "provider", "no_route",
   "route_rejected"}
Outcomes == {"none", "quote", "swap", "reproduced", "mismatch", "ready", "degraded",
             "unsupported", "configuration"} \cup Verdicts
Refusals == {"data", "no_route", "route_rejected", "unsupported"}

(* A call under way, of an adapter that can do it; the number of its         *)
(* attempts; nobody has heard a bad word of it before it ends.               *)
CallIsKnown ==
  qStep \in {"first", "second"} =>
    /\ qCall \in Q!QuoteRequest
    /\ qCall.wants = "swap" =>
         qCall.provider \in {"uniswap", "kyberswap", "velora"} /\ 
         (qCall.provider # "uniswap" => qCall.slippage \in Slippages)
AttemptsCounted ==
  /\ qAttempts \in 0..QuoteAttempts
  /\ qRetried \subseteq Q!Retryable
QuoteKnown ==
  /\ qQuote.output \in Int /\ (qStep = "second" => qCall.wants = "swap")
NothingHeard ==
  /\ qStep \in {"idle", "first", "second", "ended"}
  /\ qStep # "ended" => qResult = "none" /\ qTracked = "none" /\ qBreaker # "failure"
QuotesInv ==
  /\ CallIsKnown /\ AttemptsCounted /\ QuoteKnown /\ NothingHeard
  /\ RefusalsCostNothing /\ SwapsCanSucceed

LEMMA ProvidersKnown == Q!Providers = {"uniswap", "kyberswap", "velora", "zero_x", "oneinch"}
BY DEF Q!Providers, Q!Adapter

LEMMA CategoryKnown ==
  ASSUME NEW p \in Q!Providers, NEW a \in Q!Answers, a.status # "200"
  PROVE  Q!Category(p, a) \in Verdicts
<1>1. a.status \in Q!Statuses \cup Q!Lost BY DEF Q!Answers
<1>2. CASE a.status \in Q!Lost
  BY <1>2 DEF Q!Category, Q!Lost, Q!Transport, Verdicts
<1>3. CASE a.status \notin Q!Lost
  <2>1. Q!Says(p, a) \in {"nothing", "no_route", "provider", "route_rejected"}
    BY ProvidersKnown DEF Q!Says, Q!UniswapSays, Q!KyberSwapSays, Q!VeloraSays, Q!ZeroXSays
  <2>2. Q!Classified(a.status) \in Verdicts
    BY DEF Q!Classified, Verdicts
  <2> QED BY <1>3, <2>1, <2>2 DEF Q!Category, Verdicts
<1> QED BY <1>2, <1>3

LEMMA QuotesBegin == Q!Init => QuotesInv
BY QuotesAssumption
   DEF Q!Init, Q!None, Q!Absent, QuotesInv, CallIsKnown, AttemptsCounted, QuoteKnown,
       NothingHeard, RefusalsCostNothing, SwapsCanSucceed, Q!RefusalsCostNothing,
       Q!SwapsCanSucceed

LEMMA AskKept == QuotesInv /\ Q!Ask => QuotesInv'
<1> SUFFICES ASSUME QuotesInv, Q!Ask PROVE QuotesInv' OBVIOUS
<1>1. PICK c \in Q!QuoteRequest, known \in BOOLEAN :
        /\ qCall' = c
        /\ IF Q!Obstacle(c, known) = "none"
           THEN qStep' = "first" /\ qAttempts' = 1 /\ UNCHANGED qResult
           ELSE /\ Q!Ends(IF c.wants = "health" THEN "degraded" ELSE Q!Obstacle(c, known))
                /\ UNCHANGED qAttempts
  BY DEF Q!Ask
<1>2. qStep = "idle" /\ UNCHANGED <<qQuote, qMinimum, qRetried, qBreaker, qTracked>>
  BY DEF Q!Ask
<1>3. qResult = "none" /\ qTracked = "none" /\ qBreaker # "failure"
  BY <1>2 DEF QuotesInv, NothingHeard
<1>4. c.provider \in Q!Providers BY DEF Q!QuoteRequest
<1>5. Q!Obstacle(c, known) \in {"none", "unsupported", "configuration", "data"}
  BY <1>4, ProvidersKnown
  DEF Q!Obstacle, Q!UniswapObstacle, Q!KyberSwapObstacle, Q!VeloraObstacle, Q!ZeroXObstacle,
      Q!OneInchObstacle
<1>6. CASE Q!Obstacle(c, known) = "none"
  <2>1. c.wants = "swap" =>
          /\ c.provider \in {"uniswap", "kyberswap", "velora"}
          /\ c.provider # "uniswap" => c.slippage \in Slippages
    <3> SUFFICES ASSUME c.wants = "swap"
                 PROVE  /\ c.provider \in {"uniswap", "kyberswap", "velora"}
                        /\ c.provider # "uniswap" => c.slippage \in Slippages
      OBVIOUS
    <3>1. Q!Adapter[c.provider].executes
      <4> SUFFICES ASSUME ~Q!Adapter[c.provider].executes PROVE FALSE OBVIOUS
      <4>1. Q!Obstacle(c, known) = "unsupported" BY DEF Q!Obstacle
      <4> QED BY <1>6, <4>1
    <3>2. c.provider \in {"uniswap", "kyberswap", "velora"}
      BY <1>4, <3>1, ProvidersKnown DEF Q!Adapter, Q!ZeroXAdapter, Q!OneInchAdapter
    <3>3. c.provider # "uniswap" => c.slippage # Q!Absent
      BY <1>6, <3>1, <3>2 DEF Q!Obstacle, Q!KyberSwapObstacle, Q!VeloraObstacle
    <3>4. c.slippage \in Slippages \cup {Q!Absent} BY DEF Q!QuoteRequest
    <3> QED BY <3>2, <3>3, <3>4
  <2> QED
    BY <1>1, <1>2, <1>3, <1>6, <2>1, QuotesAssumption
    DEF QuotesInv, CallIsKnown, AttemptsCounted, QuoteKnown, NothingHeard, RefusalsCostNothing,
        SwapsCanSucceed, Q!RefusalsCostNothing, Q!SwapsCanSucceed
<1>7. CASE Q!Obstacle(c, known) # "none"
  <2>1. qResult' \in {"degraded", "unsupported", "configuration", "data"} /\ qStep' = "ended"
        /\ qAttempts' = qAttempts
    BY <1>1, <1>5, <1>7 DEF Q!Ends
  <2> QED
    BY <1>1, <1>2, <1>3, <2>1
    DEF QuotesInv, CallIsKnown, AttemptsCounted, QuoteKnown, NothingHeard, RefusalsCostNothing,
        SwapsCanSucceed, Q!RefusalsCostNothing, Q!SwapsCanSucceed
<1> QED BY <1>6, <1>7

LEMMA FailsKept == QuotesInv /\ Q!Fails => QuotesInv'
<1> SUFFICES ASSUME QuotesInv, Q!Fails PROVE QuotesInv' OBVIOUS
<1>1. PICK a \in Q!Answers :
        /\ a.status # "200"
        /\ IF Q!MayRetry(Q!Category(qCall.provider, a))
           THEN /\ qAttempts' = qAttempts + 1
                /\ qRetried' = qRetried \cup {Q!Category(qCall.provider, a)}
                /\ UNCHANGED <<qStep, qResult, qBreaker, qTracked>>
           ELSE /\ Q!Finish(Q!Category(qCall.provider, a))
                /\ qBreaker' = IF Q!Category(qCall.provider, a) \in Q!Retryable
                               THEN "failure" ELSE qBreaker
                /\ UNCHANGED <<qAttempts, qRetried>>
  BY DEF Q!Fails
<1>2. qStep \in {"first", "second"} /\ UNCHANGED <<qCall, qQuote, qMinimum>>
  BY DEF Q!Fails, Q!Waiting
<1>3. /\ qResult = "none" /\ qTracked = "none" /\ qBreaker # "failure"
      /\ qCall \in Q!QuoteRequest
  BY <1>2 DEF QuotesInv, NothingHeard, CallIsKnown
<1>4. qCall.provider \in Q!Providers BY <1>3 DEF Q!QuoteRequest
<1>5. PICK v \in Verdicts : v = Q!Category(qCall.provider, a)
  BY <1>1, <1>4, CategoryKnown
<1>6. CASE Q!MayRetry(v)
  <2>1. qAttempts < QuoteAttempts /\ v \in Q!Retryable BY <1>6 DEF Q!MayRetry
  <2>2. qRetried' = qRetried \cup {v} /\ qAttempts' = qAttempts + 1
        /\ UNCHANGED <<qStep, qResult, qBreaker, qTracked>>
    BY <1>1, <1>5, <1>6
  <2>3. qRetried' \subseteq Q!Retryable BY <2>1, <2>2 DEF QuotesInv, AttemptsCounted
  <2>4. qAttempts' \in 0..QuoteAttempts
    BY <2>1, <2>2, QuotesAssumption DEF QuotesInv, AttemptsCounted
  <2>5. qRetried' \cap {"data", "no_route", "route_rejected", "authentication"} = {}
    BY <2>3 DEF Q!Retryable
  <2> QED
    BY <1>2, <1>3, <2>2, <2>3, <2>4, <2>5
    DEF QuotesInv, CallIsKnown, AttemptsCounted, QuoteKnown, NothingHeard, RefusalsCostNothing,
        SwapsCanSucceed, Q!RefusalsCostNothing, Q!SwapsCanSucceed
<1>7. CASE ~Q!MayRetry(v)
  <2>1. /\ qStep' = "ended" /\ UNCHANGED <<qAttempts, qRetried>>
        /\ qResult' = IF qCall.wants = "health" THEN "degraded" ELSE v
        /\ qTracked' = IF qCall.wants = "health" THEN "none"
                       ELSE IF v \in Q!Unavailable THEN "failure" ELSE "none"
        /\ qBreaker' = IF v \in Q!Retryable THEN "failure" ELSE qBreaker
    BY <1>1, <1>5, <1>7 DEF Q!Finish, Q!Ends, Q!Told, Q!Tracked, Verdicts
  <2>2. v \in Q!Retryable => qAttempts = QuoteAttempts /\ v \in Q!Unavailable
    BY <1>7, QuotesAssumption
    DEF Q!MayRetry, QuotesInv, AttemptsCounted, Verdicts, Q!Retryable, Q!Unavailable
  <2>3. v \in Refusals => v \notin Q!Retryable /\ v \notin Q!Unavailable
    BY DEF Refusals, Q!Retryable, Q!Unavailable
  <2>4. RefusalsCostNothing'
    BY <1>3, <2>1, <2>2, <2>3
    DEF QuotesInv, RefusalsCostNothing, Q!RefusalsCostNothing, Refusals, Verdicts
  <2> QED
    BY <1>2, <1>3, <2>1, <2>4
    DEF QuotesInv, CallIsKnown, AttemptsCounted, QuoteKnown, NothingHeard,
        SwapsCanSucceed, Q!SwapsCanSucceed, Verdicts
<1> QED BY <1>6, <1>7

(* An amount that was read from a payload, whichever adapter reads it. *)
LEMMA ParsedKnown ==
  ASSUME NEW p \in Q!Providers, NEW x \in Q!Payloads
  PROVE  /\ Q!Parsed(p, x).ok => Q!Parsed(p, x).output \in Int
         /\ ~Q!Parsed(p, x).ok => Q!Parsed(p, x).category \in {"data", "no_route"}
<1>1. x.output \in Int /\ x.afterFee \in Int
  <2>1. x.output \in Quotable /\ x.afterFee \in Quotable \cup {Q!Absent} BY DEF Q!Payloads
  <2>2. Q!Absent \in Int BY DEF Q!Absent
  <2>3. Quotable \subseteq Int BY QuotesAssumption
  <2> QED BY <2>1, <2>2, <2>3
<1>2. ASSUME NEW o \in Int, NEW m
      PROVE  Q!Quote(o, m).ok /\ Q!Quote(o, m).output \in Int
  BY DEF Q!Quote
<1>3. ASSUME NEW r PROVE ~Q!Refused(r).ok /\ Q!Refused(r).category = r
  BY DEF Q!Refused
<1>4. CASE p = "uniswap"
  BY <1>1, <1>2, <1>3, <1>4 DEF Q!Parsed, Q!UniswapQuote
<1>5. CASE p = "kyberswap"
  BY <1>1, <1>2, <1>3, <1>5 DEF Q!Parsed, Q!KyberSwapQuote
<1>6. CASE p = "velora"
  BY <1>1, <1>2, <1>3, <1>6 DEF Q!Parsed, Q!VeloraQuote
<1>7. CASE p = "zero_x"
  BY <1>1, <1>2, <1>3, <1>7 DEF Q!Parsed, Q!ZeroXQuote
<1>8. CASE p = "oneinch"
  BY <1>1, <1>2, <1>3, <1>8 DEF Q!Parsed, Q!OneInchQuote
<1> QED BY <1>4, <1>5, <1>6, <1>7, <1>8, ProvidersKnown

(* A call that ends without a fault of the provider. *)
LEMMA EndsKept ==
  ASSUME QuotesInv, qStep \in {"first", "second"}, qBreaker' # "failure",
         UNCHANGED <<qCall, qRetried>>, qAttempts' = qAttempts, qQuote'.output \in Int,
         NEW v \in Outcomes, v \notin Q!Unavailable, Q!Finish(v),
         v = "swap" => qMinimum' \in 1..qQuote'.output
  PROVE  QuotesInv'
<1>1. qStep' = "ended" /\ qTracked' \in {"none", "success"} /\ qResult' \in {v, "degraded"}
  BY DEF Q!Finish, Q!Ends, Q!Told, Q!Tracked
<1>2. qTracked' = "success" => v \in {"quote", "swap", "reproduced", "mismatch"}
  BY DEF Q!Finish, Q!Tracked
<1> QED
  BY <1>1, <1>2
  DEF QuotesInv, CallIsKnown, AttemptsCounted, QuoteKnown, NothingHeard, RefusalsCostNothing,
      SwapsCanSucceed, Q!RefusalsCostNothing, Q!SwapsCanSucceed

LEMMA QuotedKept == QuotesInv /\ Q!Quoted => QuotesInv'
<1> SUFFICES ASSUME QuotesInv, Q!Quoted PROVE QuotesInv' OBVIOUS
<1>1. PICK x \in Q!Payloads :
        IF ~Q!Parsed(qCall.provider, x).ok
        THEN Q!Finish(Q!Parsed(qCall.provider, x).category) /\ UNCHANGED <<qQuote, qAttempts>>
        ELSE /\ qQuote' = [output |-> Q!Parsed(qCall.provider, x).output,
                           mode |-> Q!Parsed(qCall.provider, x).mode]
             /\ IF qCall.wants = "quote" THEN Q!Finish("quote") /\ UNCHANGED qAttempts
                ELSE IF qCall.wants = "fixed"
                THEN /\ Q!Finish(IF Q!Matches(qQuote') THEN "reproduced" ELSE "mismatch")
                     /\ UNCHANGED qAttempts
                ELSE IF qCall.options # "sound"
                THEN Q!Finish("unsupported") /\ UNCHANGED qAttempts
                ELSE qStep' = "second" /\ qAttempts' = 1 /\ UNCHANGED <<qResult, qTracked>>
  BY DEF Q!Quoted
<1>2. /\ qStep = "first" /\ qCall.wants # "health" /\ qBreaker' = "success"
      /\ UNCHANGED <<qCall, qMinimum, qRetried>>
  BY DEF Q!Quoted
<1>3. /\ qResult = "none" /\ qTracked = "none" /\ qCall \in Q!QuoteRequest
      /\ qQuote.output \in Int
  BY <1>2 DEF QuotesInv, NothingHeard, CallIsKnown, QuoteKnown
<1>4. qCall.provider \in Q!Providers /\ qCall.wants \in {"quote", "swap", "fixed"}
  BY <1>2, <1>3 DEF Q!QuoteRequest
<1>5. PICK parsed : parsed = Q!Parsed(qCall.provider, x) OBVIOUS
<1>6. /\ parsed.ok => parsed.output \in Int
      /\ ~parsed.ok => parsed.category \in {"data", "no_route"}
  BY <1>4, <1>5, ParsedKnown
<1>7. CASE ~parsed.ok
  <2>1. Q!Finish(parsed.category) /\ UNCHANGED <<qQuote, qAttempts>> BY <1>1, <1>5, <1>7
  <2>2. parsed.category \in Outcomes /\ parsed.category \notin Q!Unavailable
        /\ parsed.category # "swap"
    BY <1>6, <1>7 DEF Outcomes, Verdicts, Q!Unavailable
  <2> QED BY <1>2, <1>3, <2>1, <2>2, EndsKept
<1>8. CASE parsed.ok
  <2>1. qQuote'.output \in Int BY <1>1, <1>5, <1>6, <1>8
  <2>2. ASSUME NEW v \in {"quote", "reproduced", "mismatch", "unsupported"}, Q!Finish(v),
               UNCHANGED qAttempts
        PROVE  QuotesInv'
    BY <1>2, <2>1, <2>2, EndsKept DEF Outcomes, Verdicts, Q!Unavailable
  <2>3. ASSUME qStep' = "second", qAttempts' = 1, UNCHANGED <<qResult, qTracked>>,
               qCall.wants = "swap"
        PROVE  QuotesInv'
    BY <1>2, <1>3, <2>1, <2>3, QuotesAssumption
    DEF QuotesInv, CallIsKnown, AttemptsCounted, QuoteKnown, NothingHeard, RefusalsCostNothing,
        SwapsCanSucceed, Q!RefusalsCostNothing, Q!SwapsCanSucceed
  <2> QED BY <1>1, <1>4, <1>5, <1>8, <2>2, <2>3
<1> QED BY <1>7, <1>8

LEMMA ProbedKept == QuotesInv /\ Q!Probed => QuotesInv'
<1> SUFFICES ASSUME QuotesInv, Q!Probed PROVE QuotesInv' OBVIOUS
<1>1. PICK v \in {"ready", "data"} : Q!Finish(v) BY DEF Q!Probed
<1> QED
  BY <1>1, EndsKept DEF Q!Probed, QuotesInv, QuoteKnown, Outcomes, Verdicts, Q!Unavailable

(* The minimum of whichever adapter is a number. *)
LEMMA LeastIsNumber ==
  ASSUME NEW output \in Int, NEW bps \in Int PROVE Q!Least(output, bps) \in Int
<1>1. (output * (10000 - bps)) \in Int OBVIOUS
<1>2. (output * (10000 - bps)) \div 10000 \in Int BY <1>1
<1> QED BY <1>2 DEF Q!Least

LEMMA BuiltKept == QuotesInv /\ Q!Built => QuotesInv'
<1> SUFFICES ASSUME QuotesInv, Q!Built PROVE QuotesInv' OBVIOUS
<1>1. PICK sound \in BOOLEAN, built \in Quotable :
        IF sound /\ Q!Signable(Q!Minimum(built))
        THEN Q!Finish("swap") /\ qMinimum' = Q!Minimum(built)
        ELSE Q!Finish("data") /\ UNCHANGED qMinimum
  BY DEF Q!Built
<1>2. /\ qStep = "second" /\ qBreaker' = "success"
      /\ UNCHANGED <<qCall, qAttempts, qQuote, qRetried>>
  BY DEF Q!Built
<1>3. /\ qQuote.output \in Int
      /\ qCall.provider \in {"uniswap", "kyberswap", "velora"}
      /\ qCall.provider # "uniswap" => qCall.slippage \in Slippages
  BY <1>2 DEF QuotesInv, CallIsKnown, QuoteKnown
<1>4. CASE Q!Finish("data")
  BY <1>2, <1>3, <1>4, EndsKept DEF Outcomes, Verdicts, Q!Unavailable
<1>5. CASE Q!Signable(Q!Minimum(built)) /\ Q!Finish("swap") /\ qMinimum' = Q!Minimum(built)
  <2>1. built \in Int BY QuotesAssumption
  <2>3. Q!Minimum(built) \in Int
    <3>1. CASE qCall.provider = "kyberswap"
      BY <1>3, <2>1, <3>1, LeastIsNumber, QuotesAssumption DEF Q!Minimum, Q!KyberSwapMinimum
    <3>2. CASE qCall.provider = "velora"
      BY <1>3, <3>2, LeastIsNumber, QuotesAssumption DEF Q!Minimum, Q!VeloraMinimum
    <3>3. CASE qCall.provider = "uniswap"
      BY <2>1, <3>3 DEF Q!Minimum, Q!UniswapMinimum
    <3> QED BY <1>3, <3>1, <3>2, <3>3
  <2>4. qMinimum' \in 1..qQuote.output BY <1>3, <1>5, <2>3 DEF Q!Signable
  <2> QED
    BY <1>2, <1>3, <1>5, <2>4, EndsKept DEF Outcomes, Verdicts, Q!Unavailable
<1> QED BY <1>1, <1>4, <1>5

LEMMA QuotesKept == QuotesInv /\ [Q!Next]_quotesVars => QuotesInv'
<1>1. QuotesInv /\ UNCHANGED quotesVars => QuotesInv'
  BY DEF quotesVars, QuotesInv, CallIsKnown, AttemptsCounted, QuoteKnown, NothingHeard,
         RefusalsCostNothing, SwapsCanSucceed, Q!RefusalsCostNothing, Q!SwapsCanSucceed
<1> QED BY <1>1, AskKept, FailsKept, QuotedKept, ProbedKept, BuiltKept DEF Q!Next

LEMMA QuotesSteps == [AnswersNext]_all => [Q!Next]_quotesVars
BY DEF AnswersNext, OthersStill, Still, all

LEMMA QuotesHolds == AnswersSpec => []QuotesInv
<1>1. AnswersInit => QuotesInv BY QuotesBegin DEF AnswersInit
<1>2. QuotesInv /\ [AnswersNext]_all => QuotesInv' BY QuotesSteps, QuotesKept
<1> QED BY <1>1, <1>2, PTL DEF AnswersSpec

(* A refusal costs a provider nothing, and what it could not answer costs it *)
(* once: for whatever amounts, slippages and number of attempts              *)
(* (HttpProviderAdapter.request, domain/errors/classification.py).           *)
THEOREM RefusalsStayFree == AnswersSpec => []RefusalsCostNothing
<1>1. QuotesInv => RefusalsCostNothing BY DEF QuotesInv
<1> QED BY <1>1, QuotesHolds, PTL

(* What is signed is above nothing and not more than the quote, whatever the *)
(* second answer says (build_swap of the adapters, SwapTransaction).         *)
THEOREM SwapsStayPossible == AnswersSpec => []SwapsCanSucceed
<1>1. QuotesInv => SwapsCanSucceed BY DEF QuotesInv
<1> QED BY <1>1, QuotesHolds, PTL

(***************************************************************************)
(* The calculation of a profit                                              *)
(***************************************************************************)
(* A quote that was taken into account: of this amount, and not of nothing.  *)
LegOf(q, amount) ==
  /\ q.known /\ q.input = amount /\ q.output \in Nat
  /\ q.units \in Nat \cup {V!Absent} /\ q.price \in Nat \cup {V!Absent}
  /\ q.usd \in Nat \cup {V!Absent}

Bought == vStep \notin {"buy", "ended"} => LegOf(vBuy, Amount)
Sold == vStep \notin {"buy", "sell", "ended"} => LegOf(vSell, vBuy.output)
FeesTaken ==
  vStep \notin {"buy", "sell", "fees", "ended"} =>
    vFees = <<V!Components(vSetup.policy), V!Components(vSetup.policy)>>

(* What the estimate is made of, with the correction of its own moment. *)
UnitsKnown ==
  vStep = "price" =>
    /\ V!Absent \notin {vBuy.units, vSell.units}
    /\ \E f \in vFactors :
         vGas.units = V!Rounded(vBuy.units, f) + V!Rounded(vSell.units, f)
GasTaken ==
  vStep \in {"rate", "asking", "calculate"} =>
    \/ vGas = V!Nothing
    \/ /\ vGas.known /\ V!Absent \notin {vBuy.units, vSell.units}
       /\ \E f \in vFactors, price \in Nat :
            vGas.native = (V!Rounded(vBuy.units, f) + V!Rounded(vSell.units, f)) * price

(* The rate of the quotes is taken wherever there is one. *)
RateTaken ==
  /\ vStep = "asking" => ~V!QuotedRate.known
  /\ vStep = "calculate" /\ ~V!NoRateNeeded /\ V!QuotedRate.known => vRate = V!QuotedRate

FactorsKept == vFactor \in vFactors /\ vFactors \subseteq Factors
Undecided == vStep # "ended" => ~V!Accepted /\ ~V!Judged

Preparation ==
  Bought /\ Sold /\ FeesTaken /\ UnitsKnown /\ GasTaken /\ RateTaken /\ FactorsKept
VerificationInv == Preparation /\ Undecided /\ ProfitIsReal

LEMMA RoundedKnown ==
  ASSUME NEW f \in Factors, NEW u \in Nat
  PROVE  /\ V!Rounded(u, f) \in Nat
         /\ u = 0 <=> V!Rounded(u, f) = 0
         /\ f[1] \in Nat \ {0} /\ f[2] \in Nat \ {0}
<1>1. f[1] \in Nat \ {0} /\ f[2] \in Nat \ {0} BY VerificationAssumption
<1>2. PICK n \in Nat \ {0}, d \in Nat \ {0} : n = f[1] /\ d = f[2] BY <1>1
<1>3. u * n \in Nat BY <1>2
<1>4. ASSUME NEW x \in Nat PROVE (x + d - 1) \div d \in Nat BY <1>2
<1>5. (u * n + d - 1) \div d \in Nat BY <1>3, <1>4
<1>6. (0 + d - 1) \div d = 0 BY <1>2
<1>7. u = 0 => u * n = 0 BY <1>2
<1>8. u # 0 => (u * n + d - 1) \div d # 0
  <2> SUFFICES ASSUME u # 0 PROVE (u * n + d - 1) \div d # 0 OBVIOUS
  <2>1. PICK x \in Nat : x = u * n /\ x >= 1
    <3>1. u \in Nat \ {0} OBVIOUS
    <3> QED BY <1>2, <3>1
  <2>2. (x + d - 1) \div d >= 1 BY <1>2, <2>1
  <2> QED BY <2>1, <2>2
<1> QED BY <1>1, <1>2, <1>5, <1>6, <1>7, <1>8 DEF V!Rounded

LEMMA VerificationBegins == V!Init => VerificationInv
BY DEF V!Init, V!Result, V!Accepted, V!Judged, VerificationInv, Preparation, Bought, Sold, FeesTaken, UnitsKnown,
       GasTaken, RateTaken, FactorsKept, Undecided, ProfitIsReal, V!ProfitIsReal

(* What an amount that is given up leaves is no profit. *)
LEMMA GivenUp ==
  ASSUME vStep' = "ended", ~V!Accepted', ~V!Judged', FactorsKept'
  PROVE  VerificationInv'
BY DEF VerificationInv, Preparation, Bought, Sold, FeesTaken, UnitsKnown, GasTaken,
       RateTaken, FactorsKept, Undecided, ProfitIsReal, V!ProfitIsReal

LEMMA NotJudged ==
  ASSUME NEW status, vResult' = V!Result(status),
         status \notin {"qualified", "rejected", "profitable", "unprofitable"}
  PROVE  ~V!Accepted' /\ ~V!Judged'
BY DEF V!Accepted, V!Judged, V!Result

LEMMA StillUndecided ==
  ASSUME VerificationInv, vStep # "ended", UNCHANGED vResult
  PROVE  ~V!Accepted' /\ ~V!Judged' /\ Undecided' /\ ProfitIsReal'
BY DEF VerificationInv, Undecided, V!Accepted, V!Judged, ProfitIsReal, V!ProfitIsReal

LEMMA LegTaken ==
  ASSUME NEW q \in V!Quotes, NEW amount \in Nat, V!Outcome(q, amount) \in V!Good
  PROVE  LegOf(q, amount)
<1>1. q.known = TRUE /\ q.output \in Outputs /\ q.units \in Units \cup {V!Absent}
      /\ q.price \in Prices \cup {V!Absent} /\ q.usd \in Costs \cup {V!Absent}
  BY DEF V!Quotes, V!Optional
<1>2. q.input = amount
  BY DEF V!Outcome, V!Collected, V!Checked, V!Good
<1> QED BY <1>1, <1>2, VerificationAssumption DEF LegOf

LEMMA BuyKept == VerificationInv /\ V!Buy => VerificationInv'
<1> SUFFICES ASSUME VerificationInv, V!Buy PROVE VerificationInv' OBVIOUS
<1>1. PICK q \in V!Quotes :
        IF V!Outcome(q, Amount) \in V!Good
        THEN vStep' = "sell" /\ vBuy' = q /\ UNCHANGED vResult
        ELSE V!Unavailable /\ UNCHANGED vBuy
  BY DEF V!Buy
<1>2. vStep = "buy" /\ UNCHANGED <<vFactor, vFactors>>
  BY DEF V!Buy, V!measured
<1>3. FactorsKept' BY <1>2 DEF VerificationInv, Preparation, FactorsKept
<1>4. CASE V!Outcome(q, Amount) \in V!Good
  <2>1. LegOf(q, Amount) BY <1>4, LegTaken, VerificationAssumption
  <2>2. vStep' = "sell" /\ vBuy' = q /\ UNCHANGED vResult BY <1>1, <1>4
  <2>3. Bought' BY <2>1, <2>2 DEF Bought, LegOf
  <2> QED
    BY <1>2, <1>3, <2>2, <2>3, StillUndecided
    DEF VerificationInv, Preparation, Sold, FeesTaken, UnitsKnown, GasTaken,
       RateTaken
<1>5. CASE V!Unavailable
  BY <1>3, <1>5, GivenUp, NotJudged DEF V!Unavailable
<1> QED BY <1>1, <1>4, <1>5

LEMMA SellKept == VerificationInv /\ V!Sell => VerificationInv'
<1> SUFFICES ASSUME VerificationInv, V!Sell PROVE VerificationInv' OBVIOUS
<1>1. PICK q \in V!Quotes :
        IF V!Outcome(q, vBuy.output) \in V!Good
        THEN vStep' = "fees" /\ vSell' = q /\ UNCHANGED vResult
        ELSE V!Unavailable /\ UNCHANGED vSell
  BY DEF V!Sell
<1>2. vStep = "sell" /\ UNCHANGED <<vBuy, vFactor, vFactors>>
  BY DEF V!Sell, V!measured
<1>3. FactorsKept' BY <1>2 DEF VerificationInv, Preparation, FactorsKept
<1>4. LegOf(vBuy, Amount) BY <1>2 DEF VerificationInv, Preparation, Bought
<1>5. CASE V!Outcome(q, vBuy.output) \in V!Good
  <2>1. LegOf(q, vBuy.output) BY <1>4, <1>5, LegTaken DEF LegOf
  <2>2. vStep' = "fees" /\ vSell' = q /\ UNCHANGED vResult BY <1>1, <1>5
  <2>3. Bought' /\ Sold' BY <1>2, <1>4, <2>1, <2>2 DEF Bought, Sold, LegOf
  <2> QED
    BY <1>2, <1>3, <2>2, <2>3, StillUndecided
    DEF VerificationInv, Preparation, FeesTaken, UnitsKnown, GasTaken,
       RateTaken
<1>6. CASE V!Unavailable
  BY <1>3, <1>6, GivenUp, NotJudged DEF V!Unavailable
<1> QED BY <1>1, <1>5, <1>6

LEMMA FeesKept == VerificationInv /\ V!Fees => VerificationInv'
<1> SUFFICES ASSUME VerificationInv, V!Fees PROVE VerificationInv' OBVIOUS
<1>1. /\ vStep = "fees" /\ vStep' = "gas"
      /\ vFees' = <<V!Components(vSetup.policy), V!Components(vSetup.policy)>>
      /\ UNCHANGED <<vSetup, vBuy, vSell, vFactor, vFactors, vResult>>
  BY DEF V!Fees, V!measured
<1>2. Bought' /\ Sold' /\ FactorsKept'
  BY <1>1 DEF VerificationInv, Preparation, Bought, Sold, FactorsKept, LegOf
<1>3. FeesTaken' BY <1>1 DEF FeesTaken, V!Components
<1> QED
  BY <1>1, <1>2, <1>3, StillUndecided
  DEF VerificationInv, Preparation, UnitsKnown, GasTaken, RateTaken

(* The parts of the invariant that a later step leaves alone. *)
LEMMA EarlierKept ==
  ASSUME VerificationInv, vStep \notin {"buy", "sell", "fees", "ended"}, 
         UNCHANGED <<vSetup, vBuy, vSell, vFees>>
  PROVE  /\ LegOf(vBuy, Amount) /\ LegOf(vSell, vBuy.output)
         /\ Bought' /\ Sold' /\ FeesTaken'
<1>1. LegOf(vBuy, Amount) /\ LegOf(vSell, vBuy.output)
      /\ vFees = <<V!Components(vSetup.policy), V!Components(vSetup.policy)>>
  BY DEF VerificationInv, Preparation, Bought, Sold, FeesTaken
<1> QED BY <1>1 DEF Bought, Sold, FeesTaken, LegOf, V!Components

(* Both legs, with one correction. *)
LEMMA RoundTripKnown ==
  ASSUME LegOf(vBuy, Amount), LegOf(vSell, vBuy.output), FactorsKept
  PROVE  LET units == V!RoundTripUnits(vBuy.units, vSell.units)
         IN \/ V!Absent \in {vBuy.units, vSell.units} /\ units = V!Absent
            \/ /\ vBuy.units \in Nat /\ vSell.units \in Nat
               /\ V!Absent \notin {vBuy.units, vSell.units}
               /\ units = V!Rounded(vBuy.units, vFactor) + V!Rounded(vSell.units, vFactor)
               /\ units \in Nat /\ units # V!Absent
<1>1. CASE V!Absent \in {vBuy.units, vSell.units}
  BY <1>1 DEF V!RoundTripUnits
<1>2. CASE V!Absent \notin {vBuy.units, vSell.units}
  <2>1. vBuy.units \in Nat /\ vSell.units \in Nat BY <1>2 DEF LegOf
  <2>2. V!Rounded(vBuy.units, vFactor) \in Nat /\ V!Rounded(vSell.units, vFactor) \in Nat
    BY <2>1, RoundedKnown DEF FactorsKept
  <2>3. V!RoundTripUnits(vBuy.units, vSell.units) =
          V!Rounded(vBuy.units, vFactor) + V!Rounded(vSell.units, vFactor)
    BY <1>2 DEF V!RoundTripUnits, V!Corrected
  <2> QED BY <1>2, <2>1, <2>2, <2>3 DEF V!Absent
<1> QED BY <1>1, <1>2

LEMMA EstimateKept == VerificationInv /\ V!Estimate => VerificationInv'
<1> SUFFICES ASSUME VerificationInv, V!Estimate PROVE VerificationInv' OBVIOUS
<1>1. PICK units : units = V!RoundTripUnits(vBuy.units, vSell.units) OBVIOUS
<1>2. /\ vStep = "gas"
      /\ UNCHANGED <<vSetup, vBuy, vSell, vFees, vFactor, vFactors, vResult>>
      /\ \/ vGas' = V!Gas(units, V!QuotedPrice) /\ vStep' = "rate"
         \/ /\ units # V!Absent
            /\ vGas' = [known |-> FALSE, units |-> units] /\ vStep' = "price"
  BY <1>1 DEF V!Estimate, V!measured
<1>3. FactorsKept /\ FactorsKept'
  BY <1>2 DEF VerificationInv, Preparation, FactorsKept
<1>4. /\ LegOf(vBuy, Amount) /\ LegOf(vSell, vBuy.output)
      /\ Bought' /\ Sold' /\ FeesTaken'
  BY <1>2, EarlierKept
<1>5. Undecided' /\ ProfitIsReal' BY <1>2, StillUndecided
<1>6. \/ V!Absent \in {vBuy.units, vSell.units} /\ units = V!Absent
      \/ /\ V!Absent \notin {vBuy.units, vSell.units}
         /\ units = V!Rounded(vBuy.units, vFactor) + V!Rounded(vSell.units, vFactor)
         /\ units \in Nat /\ units # V!Absent
  BY <1>1, <1>3, <1>4, RoundTripKnown
<1>7. CASE vGas' = V!Gas(units, V!QuotedPrice) /\ vStep' = "rate"
  <2>1. V!QuotedPrice \in Nat \cup {V!Absent} BY <1>4 DEF V!QuotedPrice, LegOf
  <2>2. CASE V!Absent \in {units, V!QuotedPrice}
    BY <1>2, <1>3, <1>4, <1>5, <1>7, <2>2
    DEF V!Gas, VerificationInv, Preparation, UnitsKnown, GasTaken, RateTaken
  <2>3. CASE V!Absent \notin {units, V!QuotedPrice}
    <3>1. vGas'.known /\ vGas'.native = units * V!QuotedPrice BY <1>7, <2>3 DEF V!Gas
    <3>2. V!QuotedPrice \in Nat /\ V!Absent \notin {vBuy.units, vSell.units}
      BY <1>6, <2>1, <2>3
    <3>3. \E price \in Nat :
            vGas'.native =
              (V!Rounded(vBuy.units, vFactor) + V!Rounded(vSell.units, vFactor)) * price
      BY <1>6, <2>3, <3>1, <3>2
    <3>4. GasTaken'
      BY <1>2, <1>3, <1>7, <3>1, <3>2, <3>3 DEF GasTaken, FactorsKept, V!Rounded
    <3> QED
      BY <1>2, <1>3, <1>4, <1>5, <1>7, <3>4
      DEF VerificationInv, Preparation, UnitsKnown, RateTaken
  <2> QED BY <2>2, <2>3
<1>8. CASE /\ units # V!Absent
           /\ vGas' = [known |-> FALSE, units |-> units] /\ vStep' = "price"
  <2>1. vGas'.units = V!Rounded(vBuy.units, vFactor) + V!Rounded(vSell.units, vFactor)
        /\ V!Absent \notin {vBuy.units, vSell.units}
    BY <1>6, <1>8
  <2>2. UnitsKnown' BY <1>2, <1>3, <2>1 DEF UnitsKnown, FactorsKept, V!Rounded
  <2> QED
    BY <1>3, <1>4, <1>5, <1>8, <2>2 DEF VerificationInv, Preparation, GasTaken, RateTaken
<1> QED BY <1>2, <1>7, <1>8

LEMMA PriceKept == VerificationInv /\ V!Price => VerificationInv'
<1> SUFFICES ASSUME VerificationInv, V!Price PROVE VerificationInv' OBVIOUS
<1>1. /\ vStep = "price"
      /\ UNCHANGED <<vSetup, vBuy, vSell, vFees, vFactor, vFactors>>
      /\ \/ /\ \E price \in Prices \cup {V!Absent} : vGas' = V!Gas(vGas.units, price)
            /\ vStep' = "rate" /\ UNCHANGED vResult
         \/ vStep' = "ended" /\ vResult' = V!Result("raised")
  BY DEF V!Price, V!measured
<1>2. FactorsKept /\ FactorsKept'
  BY <1>1 DEF VerificationInv, Preparation, FactorsKept
<1>3. /\ LegOf(vBuy, Amount) /\ LegOf(vSell, vBuy.output)
      /\ Bought' /\ Sold' /\ FeesTaken'
  BY <1>1, EarlierKept
<1>4. CASE vStep' = "ended" /\ vResult' = V!Result("raised")
  BY <1>2, <1>4, GivenUp, NotJudged
<1>5. ASSUME NEW price \in Prices \cup {V!Absent}, vGas' = V!Gas(vGas.units, price),
             vStep' = "rate", UNCHANGED vResult
      PROVE  VerificationInv'
  <2>1. PICK f \in vFactors :
          vGas.units = V!Rounded(vBuy.units, f) + V!Rounded(vSell.units, f)
    BY <1>1 DEF VerificationInv, Preparation, UnitsKnown
  <2>2. V!Absent \notin {vBuy.units, vSell.units}
    BY <1>1 DEF VerificationInv, Preparation, UnitsKnown
  <2>3. GasTaken'
    <3>1. CASE V!Absent \in {vGas.units, price}
      BY <1>5, <3>1 DEF V!Gas, GasTaken
    <3>2. CASE V!Absent \notin {vGas.units, price}
      <4>1. price \in Nat BY <3>2, VerificationAssumption
      <4>2. vGas'.known /\ vGas'.native = vGas.units * price BY <1>5, <3>2 DEF V!Gas
      <4>3. vGas'.native = (V!Rounded(vBuy.units, f) + V!Rounded(vSell.units, f)) * price
        BY <2>1, <4>2
      <4> QED BY <1>1, <1>2, <1>5, <2>2, <4>1, <4>2, <4>3 DEF GasTaken, V!Rounded
    <3> QED BY <3>1, <3>2
  <2> QED
    BY <1>1, <1>2, <1>3, <1>5, <2>3, StillUndecided
    DEF VerificationInv, Preparation, UnitsKnown, RateTaken
<1> QED BY <1>1, <1>4, <1>5

(* What the rate of the quotes is made of stays while a rate is awaited. *)
LEMMA LaterKept ==
  ASSUME VerificationInv, vStep \in {"rate", "asking", "calculate"},
         vStep' \in {"rate", "asking", "calculate"},
         UNCHANGED <<vSetup, vBuy, vSell, vFees, vGas, vFactor, vFactors, vResult>>
  PROVE  /\ Bought' /\ Sold' /\ FeesTaken' /\ UnitsKnown' /\ GasTaken' /\ FactorsKept'
         /\ Undecided' /\ ProfitIsReal'
         /\ V!QuotedRate' = V!QuotedRate /\ V!NoRateNeeded' = V!NoRateNeeded
<1>1. Bought' /\ Sold' /\ FeesTaken' BY EarlierKept
<1>2. UnitsKnown' BY DEF UnitsKnown
<1>3. GasTaken' BY DEF VerificationInv, Preparation, GasTaken, V!Rounded
<1>4. FactorsKept' BY DEF VerificationInv, Preparation, FactorsKept
<1>5. V!QuotedRate' = V!QuotedRate
  BY DEF V!QuotedRate, V!CostUsd, V!Correction, V!RoundTripUnits, V!Corrected, V!Rounded,
         V!QuotedUnits, V!Rate
<1>6. V!NoRateNeeded' = V!NoRateNeeded BY DEF V!NoRateNeeded
<1> QED BY <1>1, <1>2, <1>3, <1>4, <1>5, <1>6, StillUndecided

LEMMA ConvertKept == VerificationInv /\ V!Convert => VerificationInv'
<1> SUFFICES ASSUME VerificationInv, V!Convert PROVE VerificationInv' OBVIOUS
<1>1. /\ vStep = "rate"
      /\ UNCHANGED <<vSetup, vBuy, vSell, vFees, vGas, vFactor, vFactors, vResult>>
      /\ \/ V!NoRateNeeded /\ vStep' = "calculate"
         \/ ~V!NoRateNeeded /\ V!QuotedRate.known /\ vRate' = V!QuotedRate /\ vStep' = "calculate"
         \/ ~V!QuotedRate.known /\ vStep' \in {"calculate", "asking"}
  BY DEF V!Convert, V!measured
<1>2. /\ Bought' /\ Sold' /\ FeesTaken' /\ UnitsKnown' /\ GasTaken' /\ FactorsKept'
      /\ Undecided' /\ ProfitIsReal'
      /\ V!QuotedRate' = V!QuotedRate /\ V!NoRateNeeded' = V!NoRateNeeded
  BY <1>1, LaterKept
<1>3. RateTaken'
  <2>1. CASE V!NoRateNeeded /\ vStep' = "calculate" BY <1>2, <2>1 DEF RateTaken
  <2>2. CASE V!QuotedRate.known /\ vRate' = V!QuotedRate /\ vStep' = "calculate"
    BY <1>2, <2>2 DEF RateTaken
  <2>3. CASE ~V!QuotedRate.known BY <1>2, <2>3 DEF RateTaken
  <2> QED BY <1>1, <2>1, <2>2, <2>3
<1> QED BY <1>2, <1>3 DEF VerificationInv, Preparation

LEMMA AnsweredKept == VerificationInv /\ V!Answered => VerificationInv'
<1> SUFFICES ASSUME VerificationInv, V!Answered PROVE VerificationInv' OBVIOUS
<1>1. /\ vStep = "asking" /\ vStep' = "calculate"
      /\ UNCHANGED <<vSetup, vBuy, vSell, vFees, vGas, vFactor, vFactors, vResult>>
  BY DEF V!Answered, V!measured
<1>2. /\ Bought' /\ Sold' /\ FeesTaken' /\ UnitsKnown' /\ GasTaken' /\ FactorsKept'
      /\ Undecided' /\ ProfitIsReal'
      /\ V!QuotedRate' = V!QuotedRate /\ V!NoRateNeeded' = V!NoRateNeeded
  BY <1>1, LaterKept
<1>3. ~V!QuotedRate.known BY <1>1 DEF VerificationInv, Preparation, RateTaken
<1>4. RateTaken' BY <1>1, <1>2, <1>3 DEF RateTaken
<1> QED BY <1>2, <1>4 DEF VerificationInv, Preparation

(* The property is about the quotes, the gas, the rate and the result only. *)
LEMMA DecidedStays ==
  ASSUME ProfitIsReal,
         UNCHANGED <<vNow, vSetup, vBuy, vSell, vGas, vFactor, vFactors, vRate, vResult>>
  PROVE  ProfitIsReal'
<1>1. V!QuotedRate' = V!QuotedRate /\ V!GasCost' = V!GasCost
  BY DEF V!QuotedRate, V!CostUsd, V!Correction, V!RoundTripUnits, V!Corrected, V!Rounded,
         V!QuotedUnits, V!Rate, V!GasCost, V!InBase, V!RateBook, V!Fresh
<1>2. V!QuotedUnits' = V!QuotedUnits /\ V!Accepted' = V!Accepted /\ V!Judged' = V!Judged
  BY DEF V!QuotedUnits, V!Accepted, V!Judged
<1>3. \A f : V!RealDollars(f)' = V!RealDollars(f) /\ V!PaysDollars(f)' = V!PaysDollars(f)
  BY DEF V!RealDollars, V!PaysDollars, V!CostUsd, V!Rounded, V!QuotedUnits
<1> QED BY <1>1, <1>2, <1>3 DEF ProfitIsReal, V!ProfitIsReal, V!Fresh

(* Nothing that was decided changes any more, and what was not stays so. *)
LEMMA PausesKept ==
  VerificationInv /\ (V!Refused \/ V!Calibrate \/ V!Tick \/ UNCHANGED verificationVars)
    => VerificationInv'
<1>1. VerificationInv /\ V!Refused => VerificationInv'
  BY GivenUp, NotJudged
  DEF V!Refused, V!Unavailable, V!measured, VerificationInv, Preparation, FactorsKept
<1>2. VerificationInv /\ V!Calibrate => VerificationInv'
  <2> SUFFICES ASSUME VerificationInv, V!Calibrate PROVE VerificationInv' OBVIOUS
  <2>1. /\ vStep = "price" /\ vFactor' \in Factors /\ vFactors' = vFactors \cup {vFactor'}
        /\ UNCHANGED <<vStep, vSetup, vBuy, vSell, vFees, vGas, vResult>>
    BY DEF V!Calibrate
  <2>2. Bought' /\ Sold' /\ FeesTaken' BY <2>1, EarlierKept
  <2>3. UnitsKnown'
    BY <2>1 DEF VerificationInv, Preparation, UnitsKnown, V!Rounded
  <2> QED
    BY <2>1, <2>2, <2>3, StillUndecided
    DEF VerificationInv, Preparation, GasTaken, RateTaken, FactorsKept
<1>3. VerificationInv /\ V!Tick => VerificationInv'
  <2> SUFFICES ASSUME VerificationInv, V!Tick PROVE VerificationInv' OBVIOUS
  <2>1. /\ vStep # "ended"
        /\ UNCHANGED <<vStep, vSetup, vBuy, vSell, vFees, vGas, vFactor, vFactors, vRate,
                       vResult>>
    BY DEF V!Tick, V!measured
  <2>2. Undecided' /\ ProfitIsReal' BY <2>1, StillUndecided
  <2>3. Bought' /\ Sold' /\ FeesTaken' /\ FactorsKept'
    BY <2>1
    DEF VerificationInv, Preparation, Bought, Sold, FeesTaken, FactorsKept, LegOf, V!Components
  <2>4. UnitsKnown' /\ GasTaken'
    BY <2>1 DEF VerificationInv, Preparation, UnitsKnown, GasTaken, V!Rounded
  <2>5. RateTaken'
    <3>1. V!QuotedRate' = V!QuotedRate
      BY <2>1 DEF V!QuotedRate, V!CostUsd, V!Correction, V!RoundTripUnits, V!Corrected, V!Rounded,
                  V!QuotedUnits, V!Rate
    <3>2. V!NoRateNeeded' = V!NoRateNeeded BY <2>1 DEF V!NoRateNeeded
    <3> QED BY <2>1, <3>1, <3>2 DEF VerificationInv, Preparation, RateTaken
  <2> QED BY <2>2, <2>3, <2>4, <2>5 DEF VerificationInv, Preparation
<1>4. VerificationInv /\ UNCHANGED verificationVars => VerificationInv'
  <2> SUFFICES ASSUME VerificationInv, UNCHANGED verificationVars PROVE VerificationInv'
    OBVIOUS
  <2>1. UNCHANGED <<vStep, vNow, vSetup, vBuy, vSell, vFees, vGas, vFactor, vFactors, vRate,
                    vResult>>
    BY DEF verificationVars
  <2>2. Undecided' BY <2>1 DEF VerificationInv, Undecided, V!Accepted, V!Judged
  <2>3. ProfitIsReal' BY <2>1, DecidedStays DEF VerificationInv
  <2>4. Bought' /\ Sold' /\ FeesTaken' /\ FactorsKept'
    BY <2>1
    DEF VerificationInv, Preparation, Bought, Sold, FeesTaken, FactorsKept, LegOf, V!Components
  <2>5. UnitsKnown' /\ GasTaken'
    BY <2>1 DEF VerificationInv, Preparation, UnitsKnown, GasTaken, V!Rounded
  <2>6. RateTaken'
    <3>1. V!QuotedRate' = V!QuotedRate
      BY <2>1 DEF V!QuotedRate, V!CostUsd, V!Correction, V!RoundTripUnits, V!Corrected, V!Rounded,
                  V!QuotedUnits, V!Rate
    <3>2. V!NoRateNeeded' = V!NoRateNeeded BY <2>1 DEF V!NoRateNeeded
    <3> QED BY <2>1, <3>1, <3>2 DEF VerificationInv, Preparation, RateTaken
  <2> QED BY <2>2, <2>3, <2>4, <2>5, <2>6 DEF VerificationInv, Preparation
<1> QED BY <1>1, <1>2, <1>3, <1>4

(***************************************************************************)
(* The calculation                                                          *)
(***************************************************************************)
(* A positive factor is cancelled. *)
LEMMA Cancel ==
  ASSUME NEW g \in Nat, g > 0, NEW x \in Int, NEW y \in Int
  PROVE  x * g >= y * g <=> x >= y
<1>1. ASSUME x * g >= y * g PROVE x >= y
  <2> SUFFICES ASSUME x + 1 <= y PROVE FALSE OBVIOUS
  <2>1. (y - x - 1) * g >= 0
    <3>1. y - x - 1 \in Nat OBVIOUS
    <3> QED BY <3>1
  <2>2. (y - x - 1) * g = y * g - x * g - g OBVIOUS
  <2> QED BY <1>1, <2>1, <2>2
<1>2. ASSUME x >= y PROVE x * g >= y * g
  <2>1. (x - y) * g >= 0
    <3>1. x - y \in Nat BY <1>2
    <3> QED BY <3>1
  <2>2. (x - y) * g = x * g - y * g OBVIOUS
  <2> QED BY <2>1, <2>2
<1> QED BY <1>1, <1>2

(* The gas in dollars: exactly what the quotes say it costs, for the          *)
(* corrected units, at whatever price of gas, which both sides have; and a   *)
(* result that pays the one pays the other.                                  *)
LEMMA DollarsCounted ==
  ASSUME VerificationInv, vStep = "calculate", V!QuotedRate.known
  PROVE  LET cost == vGas.native * V!QuotedRate.num
             den == V!QuotedRate.den
         IN /\ cost * V!QuotedUnits = V!RealDollars(vFactor) * den
            /\ (vSell.output - Amount - Threshold) * den >= cost
                 <=> V!PaysDollars(vFactor)
<1>1. LegOf(vBuy, Amount) /\ LegOf(vSell, vBuy.output) /\ FactorsKept
  BY DEF VerificationInv, Preparation, Bought, Sold
<1>2. /\ vSetup.base = "stable" /\ vGas.known /\ vGas.native > 0 /\ V!CostUsd > 0
      /\ V!QuotedRate = V!Rate(V!CostUsd * V!Correction[1], vGas.native * V!Correction[2],
                               V!Absent)
  BY DEF V!QuotedRate, V!Nothing
<1>3. /\ vGas # V!Nothing /\ V!Absent \notin {vBuy.units, vSell.units}
      /\ \E f \in vFactors, price \in Nat :
           vGas.native = (V!Rounded(vBuy.units, f) + V!Rounded(vSell.units, f)) * price
  BY <1>2 DEF VerificationInv, Preparation, GasTaken, V!Nothing
<1>4. vBuy.units \in Nat /\ vSell.units \in Nat BY <1>1, <1>3 DEF LegOf
<1>5. vFactor \in Factors /\ vFactors \subseteq Factors BY <1>1 DEF FactorsKept
<1>6. PICK u \in Nat, w \in Nat :
        u = V!Rounded(vBuy.units, vFactor) /\ w = V!Rounded(vSell.units, vFactor)
  BY <1>4, <1>5, RoundedKnown
<1>7. PICK g \in Nat : g = vGas.native /\ g > 0
  <2>1. PICK f \in vFactors, price \in Nat :
          vGas.native = (V!Rounded(vBuy.units, f) + V!Rounded(vSell.units, f)) * price
    BY <1>3
  <2>2. V!Rounded(vBuy.units, f) \in Nat /\ V!Rounded(vSell.units, f) \in Nat
    BY <1>4, <1>5, <2>1, RoundedKnown
  <2>3. (V!Rounded(vBuy.units, f) + V!Rounded(vSell.units, f)) * price \in Nat BY <2>2
  <2> QED BY <1>2, <2>1, <2>3
<1>8. PICK x \in Int : x = vSell.output - Amount - Threshold
  BY <1>1, VerificationAssumption DEF LegOf
<1>9. PICK q \in Nat : q = V!QuotedUnits /\ q = vBuy.units + vSell.units
  BY <1>3, <1>4 DEF V!QuotedUnits
<1>10. PICK c \in Nat : c = V!CostUsd /\ c > 0
  <2>1. CASE V!Absent \in {vBuy.usd, vSell.usd} BY <1>2, <2>1 DEF V!CostUsd, V!Absent
  <2>2. CASE V!Absent \notin {vBuy.usd, vSell.usd} BY <1>1, <1>2, <2>2 DEF V!CostUsd, LegOf
  <2> QED BY <2>1, <2>2
<1>11. V!RealDollars(vFactor) = c * (u + w) BY <1>6, <1>10 DEF V!RealDollars
<1>12. V!RoundTripUnits(vBuy.units, vSell.units) = u + w
  BY <1>1, <1>3, <1>6, RoundTripKnown
<1>13. q # 0 /\ u + w # 0
  <2>1. q # 0
    <3> SUFFICES ASSUME q = 0 PROVE FALSE OBVIOUS
    <3>1. vBuy.units = 0 /\ vSell.units = 0 BY <1>4, <1>9
    <3>2. \A f \in vFactors : V!Rounded(vBuy.units, f) = 0 /\ V!Rounded(vSell.units, f) = 0
      BY <1>4, <1>5, <3>1, RoundedKnown
    <3>3. vGas.native = 0 BY <1>3, <3>2
    <3> QED BY <1>2, <3>3
  <2>2. vBuy.units # 0 \/ vSell.units # 0 BY <1>4, <1>9, <2>1
  <2>3. u # 0 \/ w # 0 BY <1>4, <1>5, <1>6, <2>2, RoundedKnown
  <2> QED BY <2>1, <2>3
<1>14. V!Correction = <<u + w, q>>
  BY <1>9, <1>12, <1>13 DEF V!Correction, V!Absent
<1>15. V!QuotedRate.num = c * (u + w) /\ V!QuotedRate.den = g * q
  BY <1>2, <1>7, <1>10, <1>14 DEF V!Rate
<1> DEFINE dollars == c * (u + w)
           cost == g * dollars
           den == g * q
<1>16. dollars \in Nat /\ cost \in Nat /\ den \in Nat
  <2>1. dollars \in Nat OBVIOUS
  <2> QED BY <2>1
<1>17. cost * q = dollars * den
  <2>1. PICK e \in Nat : e = dollars BY <1>16
  <2>2. (g * e) * q = e * (g * q) OBVIOUS
  <2> QED BY <2>1, <2>2
<1>18. x * den >= cost <=> x * q >= dollars
  <2>1. PICK e \in Nat : e = dollars BY <1>16
  <2>2. x * (g * q) = (x * q) * g /\ g * e = e * g OBVIOUS
  <2>3. x * q \in Int OBVIOUS
  <2>4. (x * q) * g >= e * g <=> x * q >= e BY <1>7, <2>1, <2>3, Cancel
  <2> QED BY <2>1, <2>2, <2>4
<1>19. vGas.native * V!QuotedRate.num = cost /\ V!QuotedRate.den = den BY <1>7, <1>15
<1>20. V!PaysDollars(vFactor) <=> x * q >= dollars BY <1>8, <1>9, <1>11 DEF V!PaysDollars
<1> HIDE DEF dollars, cost, den
<1>21. V!RealDollars(vFactor) = dollars BY <1>11 DEF dollars
<1> QED BY <1>8, <1>9, <1>17, <1>18, <1>19, <1>20, <1>21

LEMMA CalculateKept == VerificationInv /\ V!Calculate => VerificationInv'
<1> SUFFICES ASSUME VerificationInv, V!Calculate PROVE VerificationInv' OBVIOUS
<1>1. /\ vStep = "calculate" /\ vStep' = "ended"
      /\ vResult' = V!Result(IF vSetup.level = 1 THEN V!Preliminary ELSE V!StatusFor)
      /\ UNCHANGED <<vNow, vSetup, vBuy, vSell, vFees, vGas, vFactor, vFactors, vRate>>
  BY DEF V!Calculate, V!measured
<1>2. /\ LegOf(vBuy, Amount) /\ LegOf(vSell, vBuy.output)
      /\ vFees = <<V!Components(vSetup.policy), V!Components(vSetup.policy)>>
  BY <1>1 DEF VerificationInv, Preparation, Bought, Sold, FeesTaken
<1>3. FactorsKept /\ FactorsKept'
  BY <1>1 DEF VerificationInv, Preparation, FactorsKept
<1>4. V!Accepted' =>
        /\ V!Passed
        /\ vSetup.metric = "net" \/ vSetup.level = 2 => V!FeesKnown /\ V!GasCost.known
  <2>1. V!Accepted' => /\ vSetup.level = 1 => V!Preliminary \in {"qualified", "profitable"}
                       /\ vSetup.level # 1 => V!StatusFor \in {"qualified", "profitable"}
    BY <1>1 DEF V!Accepted, V!Result
  <2>2. V!Preliminary \in {"qualified", "profitable"} => V!Passed BY DEF V!Preliminary
  <2>3. V!StatusFor \in {"qualified", "profitable"}
          => V!Passed /\ V!FeesKnown /\ V!GasCost.known
    BY DEF V!StatusFor
  <2>4. V!Passed /\ vSetup.metric = "net" => V!FeesKnown /\ V!GasCost.known BY DEF V!Passed
  <2> QED BY <2>1, <2>2, <2>3, <2>4
<1>5. V!Accepted' =>
        /\ vBuy.input = Amount /\ vSell.input = vBuy.output
        /\ vSetup.metric = "net" \/ vSetup.level = 2 =>
             V!Absent \notin {vBuy.units, vSell.units} /\ vSetup.policy = "inclusive"
        /\ vSetup.metric = "net" /\ vSetup.base = "native" =>
             vSell.output - Amount - Threshold >= vGas.native
        /\ vSetup.metric = "net" /\ vSetup.base # "native" => V!Fresh(vRate)
  <2> SUFFICES ASSUME V!Accepted'
               PROVE  /\ vBuy.input = Amount /\ vSell.input = vBuy.output
                      /\ vSetup.metric = "net" \/ vSetup.level = 2 =>
                           /\ V!Absent \notin {vBuy.units, vSell.units}
                           /\ vSetup.policy = "inclusive"
                      /\ vSetup.metric = "net" /\ vSetup.base = "native" =>
                           vSell.output - Amount - Threshold >= vGas.native
                      /\ vSetup.metric = "net" /\ vSetup.base # "native" => V!Fresh(vRate)
    OBVIOUS
  <2>1. vBuy.input = Amount /\ vSell.input = vBuy.output BY <1>2 DEF LegOf
  <2>2. V!GasCost.known => vGas # V!Nothing
    BY DEF V!GasCost, V!Nothing
  <2>3. vSetup.metric = "net" \/ vSetup.level = 2 =>
          V!Absent \notin {vBuy.units, vSell.units} /\ vSetup.policy = "inclusive"
    <3> SUFFICES ASSUME V!FeesKnown, V!GasCost.known
                 PROVE  V!Absent \notin {vBuy.units, vSell.units} /\ vSetup.policy = "inclusive"
      BY <1>4
    <3>1. V!Components(vSetup.policy).known
      BY <1>2 DEF V!FeesKnown, V!IsKnown
    <3>2. vSetup.policy = "inclusive" BY <3>1 DEF V!Components, V!UnknownFee
    <3> QED BY <1>1, <2>2, <3>2 DEF VerificationInv, Preparation, GasTaken
  <2>4. ASSUME vSetup.metric = "net"
        PROVE  /\ V!GasCost = V!InBase(vGas.native) /\ V!GasCost.known /\ vGas # V!Nothing
               /\ (vSell.output - Amount - Threshold) * V!GasCost.den >= V!GasCost.num
    <3>1. V!GasCost.known /\ vGas # V!Nothing BY <1>4, <2>2, <2>4
    <3>2. V!GasCost = V!InBase(vGas.native) BY <3>1 DEF V!GasCost, V!Nothing
    <3>3. (vSell.output - Amount - Threshold) * V!GasCost.den >= V!GasCost.num
      BY <1>4, <2>4 DEF V!Passed
    <3> QED BY <3>1, <3>2, <3>3
  <2>5. vSetup.metric = "net" /\ vSetup.base = "native" =>
          vSell.output - Amount - Threshold >= vGas.native
    <3> SUFFICES ASSUME vSetup.metric = "net", vSetup.base = "native"
                 PROVE  vSell.output - Amount - Threshold >= vGas.native
      OBVIOUS
    <3>1. V!GasCost.den = 1 /\ V!GasCost.num = vGas.native BY <2>4 DEF V!InBase
    <3>2. vSell.output - Amount - Threshold \in Int
      BY <1>2, VerificationAssumption DEF LegOf
    <3> QED BY <2>4, <3>1, <3>2
  <2>6. vSetup.metric = "net" /\ vSetup.base # "native" => V!Fresh(vRate)
    <3> SUFFICES ASSUME vSetup.metric = "net", vSetup.base # "native" PROVE V!Fresh(vRate)
      OBVIOUS
    <3>1. V!RateBook.known BY <2>4 DEF V!InBase, V!Nothing
    <3> QED BY <3>1 DEF V!RateBook, V!Nothing
  <2> QED BY <2>1, <2>3, <2>5, <2>6
<1>6. ASSUME V!Judged', vSetup.metric = "net", V!QuotedRate.known
      PROVE  /\ V!GasCost.known
             /\ V!GasCost.num * V!QuotedUnits = V!RealDollars(vFactor) * V!GasCost.den
             /\ vSetup.policy = "inclusive" => (V!Accepted' <=> V!PaysDollars(vFactor))
  <2>1. vSetup.base = "stable" /\ vGas.known BY <1>6 DEF V!QuotedRate, V!Nothing
  <2>2. vRate = V!QuotedRate
    BY <1>1, <1>6, <2>1 DEF VerificationInv, Preparation, RateTaken, V!NoRateNeeded
  <2>3. V!Fresh(vRate) BY <1>6, <2>2 DEF V!Fresh, V!QuotedRate, V!Rate, V!Nothing
  <2>4. /\ V!GasCost.known /\ V!GasCost.num = vGas.native * V!QuotedRate.num
        /\ V!GasCost.den = V!QuotedRate.den
    BY <1>6, <2>1, <2>2, <2>3 DEF V!GasCost, V!InBase, V!RateBook
  <2>5. /\ V!GasCost.num * V!QuotedUnits = V!RealDollars(vFactor) * V!GasCost.den
        /\ (vSell.output - Amount - Threshold) * V!GasCost.den >= V!GasCost.num
             <=> V!PaysDollars(vFactor)
    BY <1>1, <1>6, <2>4, DollarsCounted
  <2>6. ASSUME vSetup.policy = "inclusive" PROVE V!Accepted' <=> V!PaysDollars(vFactor)
    <3>1. V!FeesKnown
      BY <1>2, <2>6 DEF V!FeesKnown, V!IsKnown, V!Components, V!QuoteInclusive
    <3>2. V!Passed <=> V!PaysDollars(vFactor) BY <1>6, <2>4, <2>5, <3>1 DEF V!Passed
    <3>3. V!Passed => V!Accepted'
      BY <1>1, <2>4, <3>1 DEF V!Accepted, V!Result, V!Preliminary, V!StatusFor
    <3> QED BY <1>4, <3>2, <3>3
  <2> QED BY <2>4, <2>5, <2>6
<1>7. ProfitIsReal'
  <2>1. V!QuotedRate' = V!QuotedRate /\ V!GasCost' = V!GasCost
    BY <1>1 DEF V!QuotedRate, V!CostUsd, V!Correction, V!RoundTripUnits, V!Corrected, V!Rounded,
           V!QuotedUnits, V!Rate, V!GasCost, V!InBase, V!RateBook, V!Fresh
  <2>2. V!QuotedUnits' = V!QuotedUnits BY <1>1 DEF V!QuotedUnits
  <2>3. \A f : V!RealDollars(f)' = V!RealDollars(f) /\ V!PaysDollars(f)' = V!PaysDollars(f)
    BY <1>1 DEF V!RealDollars, V!PaysDollars, V!CostUsd, V!Rounded, V!QuotedUnits
  <2>4. vFactor \in vFactors' BY <1>1, <1>3 DEF FactorsKept
  <2> QED
    BY <1>1, <1>5, <1>6, <2>1, <2>2, <2>3, <2>4 DEF ProfitIsReal, V!ProfitIsReal, V!Fresh
<1> QED
  BY <1>1, <1>3, <1>7
  DEF VerificationInv, Preparation, Undecided, Bought, Sold, FeesTaken, UnitsKnown,
       GasTaken,
      RateTaken

LEMMA VerificationKept == VerificationInv /\ [V!Next]_verificationVars => VerificationInv'
BY BuyKept, SellKept, FeesKept, EstimateKept, PriceKept, ConvertKept, AnsweredKept,
   CalculateKept, PausesKept DEF V!Next

LEMMA VerificationSteps == [AnswersNext]_all => [V!Next]_verificationVars
BY DEF AnswersNext, OthersStill, Still, all

LEMMA VerificationHolds == AnswersSpec => []VerificationInv
<1>1. AnswersInit => VerificationInv BY VerificationBegins DEF AnswersInit
<1>2. VerificationInv /\ [AnswersNext]_all => VerificationInv' BY VerificationSteps, VerificationKept
<1> QED BY <1>1, <1>2, PTL DEF AnswersSpec

(* What is called a profit covers its gas, for whatever quotes, prices,      *)
(* corrections and thresholds, however long each answer took                 *)
(* (AmountVerifier.verify, PreliminaryEvaluator.evaluate).                   *)
THEOREM ProfitStaysReal == AnswersSpec => []ProfitIsReal
<1>1. VerificationInv => ProfitIsReal BY DEF VerificationInv
<1> QED BY <1>1, VerificationHolds, PTL

(***************************************************************************)
(* The calibration of gas                                                   *)
(***************************************************************************)
(* A sum of estimates is at least its number of samples, halved or not. *)
Sums == {s \in [samples : Nat, quoted : Nat, actual : Nat, fresh : Nat] : s.quoted >= s.samples}

CalibrationTypeOK ==
  cMemory \in Sums /\ cStored \in Sums /\ cSaving \in Seq(Sums) /\ cCost \in Real

(* Sums come in the order in which they were measured: the row, the saves    *)
(* under way, the memory.                                                   *)
LaterMeasured ==
  /\ \A i \in 1..Len(cSaving) :
       /\ C!Measured(cStored) => C!Measured(cSaving[i])
       /\ C!Measured(cSaving[i]) => C!Measured(cMemory)
       /\ \A j \in 1..Len(cSaving) :
            i < j /\ C!Measured(cSaving[i]) => C!Measured(cSaving[j])
  /\ C!Measured(cStored) => C!Measured(cMemory)

CalibrationInv == CalibrationTypeOK /\ LaterMeasured

(* A measurement more, with the halving at the limit of the history. *)
LEMMA SumIsSum ==
  ASSUME NEW s \in Sums, NEW actual \in Real
  PROVE  /\ C!Sum(s, actual) \in Sums
         /\ MaxSamples + 1 >= 2 * MinSamples /\ C!Measured(s) => C!Measured(C!Sum(s, actual))
<1>1. PICK n \in Nat, q \in Nat, a \in Nat, fresh \in Nat :
        /\ n = s.samples /\ q = s.quoted /\ a = s.actual /\ q >= n
        /\ fresh = C!AtMost(s.fresh + 1, MaxSamples)
  BY CalibrationAssumption DEF Sums, C!AtMost
<1>2. PICK t \in [samples : Nat, quoted : Nat, actual : Nat, fresh : Nat] :
        t = [samples |-> n + 1, quoted |-> q + QuotedGas, actual |-> a + actual, fresh |-> fresh]
  <2>1. n + 1 \in Nat /\ q + QuotedGas \in Nat /\ a + actual \in Nat
    BY <1>1, CalibrationAssumption
  <2> QED BY <2>1
<1>3. C!Sum(s, actual) = C!Halved(t) BY <1>1, <1>2 DEF C!Sum
<1>4. t.samples = n + 1 /\ t.quoted = q + QuotedGas /\ t.quoted >= t.samples
  BY <1>1, <1>2, CalibrationAssumption
<1>5. CASE t.samples <= MaxSamples
  <2>1. C!Halved(t) = t BY <1>5 DEF C!Halved
  <2> QED BY <1>1, <1>2, <1>3, <1>4, <2>1, CalibrationAssumption DEF Sums, C!Measured
<1>6. CASE ~(t.samples <= MaxSamples)
  <2>1. C!Halved(t) = [t EXCEPT !.samples = t.samples \div 2, !.quoted = t.quoted \div 2,
                                !.actual = t.actual \div 2]
    BY <1>6 DEF C!Halved
  <2>2. /\ C!Halved(t) \in [samples : Nat, quoted : Nat, actual : Nat, fresh : Nat]
        /\ C!Halved(t).samples = t.samples \div 2 /\ C!Halved(t).quoted = t.quoted \div 2
    <3>1. ASSUME NEW x \in Nat PROVE x \div 2 \in Nat OBVIOUS
    <3>2. /\ t.samples \div 2 \in Nat /\ t.quoted \div 2 \in Nat /\ t.actual \div 2 \in Nat
          /\ t.fresh \in Nat
      BY <1>2, <3>1
    <3>3. PICK x \in Nat, y \in Nat, z \in Nat :
            x = t.samples \div 2 /\ y = t.quoted \div 2 /\ z = t.actual \div 2
      BY <3>2
    <3> QED BY <1>2, <2>1, <3>2, <3>3
  <2>3. t.quoted \div 2 >= t.samples \div 2 BY <1>2, <1>4
  <2>4. MaxSamples + 1 >= 2 * MinSamples => t.samples \div 2 >= MinSamples
    BY <1>4, <1>6, CalibrationAssumption
  <2> QED BY <1>3, <2>2, <2>3, <2>4, CalibrationAssumption DEF Sums, C!Measured
<1> QED BY <1>2, <1>4, <1>5, <1>6

LEMMA StaleIsSum ==
  ASSUME NEW s \in Sums
  PROVE  C!Stale(s) \in Sums /\ (C!Measured(C!Stale(s)) <=> C!Measured(s))
BY DEF C!Stale, Sums, C!Measured

LEMMA CalibrationBegins == C!Init => CalibrationInv
BY CalibrationAssumption
   DEF C!Init, C!NoSample, CalibrationInv, CalibrationTypeOK, LaterMeasured, Sums

LEMMA CalibrationKept ==
  ASSUME MaxSamples + 1 >= 2 * MinSamples, CalibrationInv, [C!Next]_calibrationVars
  PROVE  CalibrationInv' /\ (C!StaysMeasured \/ UNCHANGED calibrationVars)
<1>1. CASE C!Record
  <2>1. /\ cMemory' = C!Sum(cMemory, cCost) /\ cSaving' = Append(cSaving, cMemory')
        /\ UNCHANGED <<cStored, cCost>>
    BY <1>1 DEF C!Record
  <2>2. cMemory' \in Sums /\ (C!Measured(cMemory) => C!Measured(cMemory'))
    BY <2>1, SumIsSum DEF CalibrationInv, CalibrationTypeOK
  <2>3. CalibrationTypeOK' BY <2>1, <2>2 DEF CalibrationInv, CalibrationTypeOK
  <2>4. /\ Len(cSaving') = Len(cSaving) + 1 /\ Len(cSaving) \in Nat
        /\ \A i \in 1..Len(cSaving) : cSaving'[i] = cSaving[i]
        /\ cSaving'[Len(cSaving) + 1] = cMemory'
    BY <2>1, <2>2 DEF CalibrationInv, CalibrationTypeOK
  <2>5. LaterMeasured'
    <3>1. ASSUME NEW i \in 1..Len(cSaving')
          PROVE  /\ C!Measured(cStored) => C!Measured(cSaving'[i])
                 /\ C!Measured(cSaving'[i]) => C!Measured(cMemory')
      BY <2>2, <2>4, <3>1 DEF CalibrationInv, LaterMeasured
    <3>2. ASSUME NEW i \in 1..Len(cSaving'), NEW j \in 1..Len(cSaving'), i < j,
                 C!Measured(cSaving'[i])
          PROVE  C!Measured(cSaving'[j])
      <4>1. i \in 1..Len(cSaving) BY <2>4, <3>2
      <4>2. CASE j \in 1..Len(cSaving)
        BY <2>4, <3>2, <4>1, <4>2 DEF CalibrationInv, LaterMeasured
      <4>3. CASE j = Len(cSaving) + 1
        BY <2>4, <3>1, <3>2, <4>3
      <4> QED BY <2>4, <4>2, <4>3
    <3>3. C!Measured(cStored) => C!Measured(cMemory')
      BY <2>2 DEF CalibrationInv, LaterMeasured
    <3> QED BY <2>1, <3>1, <3>2, <3>3 DEF LaterMeasured, C!Measured
  <2>6. C!StaysMeasured BY <2>1, <2>2 DEF C!StaysMeasured, C!Measured
  <2> QED BY <2>3, <2>5, <2>6 DEF CalibrationInv
<1>2. ASSUME cSaving # <<>>, cSaving' = Tail(cSaving), UNCHANGED <<cMemory, cCost>>,
             cStored' \in {cStored, Head(cSaving)}
      PROVE  CalibrationInv' /\ C!StaysMeasured
  <2>1. /\ Len(cSaving) \in Nat \ {0} /\ Len(cSaving') = Len(cSaving) - 1
        /\ \A i \in 1..Len(cSaving') : cSaving'[i] = cSaving[i + 1]
        /\ Head(cSaving) = cSaving[1] /\ Head(cSaving) \in Sums /\ cSaving' \in Seq(Sums)
    BY <1>2 DEF CalibrationInv, CalibrationTypeOK
  <2>2. CalibrationTypeOK' BY <1>2, <2>1 DEF CalibrationInv, CalibrationTypeOK
  <2>3. /\ C!Measured(cStored) => C!Measured(cStored')
        /\ C!Measured(cStored') => C!Measured(cMemory)
    BY <1>2, <2>1 DEF CalibrationInv, LaterMeasured
  <2>4. LaterMeasured'
    <3>1. ASSUME NEW i \in 1..Len(cSaving')
          PROVE  /\ i + 1 \in 1..Len(cSaving) /\ 1 \in 1..Len(cSaving) /\ 1 < i + 1
                 /\ cSaving'[i] = cSaving[i + 1]
      BY <2>1
    <3>2. ASSUME NEW i \in 1..Len(cSaving')
          PROVE  /\ C!Measured(cStored') => C!Measured(cSaving'[i])
                 /\ C!Measured(cSaving'[i]) => C!Measured(cMemory)
      BY <1>2, <2>1, <3>1 DEF CalibrationInv, LaterMeasured
    <3>3. ASSUME NEW i \in 1..Len(cSaving'), NEW j \in 1..Len(cSaving'), i < j,
                 C!Measured(cSaving'[i])
          PROVE  C!Measured(cSaving'[j])
      <4>1. i + 1 < j + 1 BY <2>1, <3>3
      <4> QED BY <3>1, <3>3, <4>1 DEF CalibrationInv, LaterMeasured
    <3> QED BY <1>2, <2>3, <3>2, <3>3 DEF LaterMeasured, C!Measured
  <2>5. C!StaysMeasured BY <1>2, <2>3 DEF C!StaysMeasured, C!Measured
  <2> QED BY <2>2, <2>4, <2>5 DEF CalibrationInv
<1>3. CASE C!Saved \/ C!SaveFails BY <1>2, <1>3 DEF C!Saved, C!SaveFails
<1>4. CASE C!Restart
  <2>1. cMemory' = cStored /\ cSaving' = <<>> /\ UNCHANGED <<cStored, cCost>>
    BY <1>4 DEF C!Restart
  <2>2. CalibrationTypeOK' BY <2>1 DEF CalibrationInv, CalibrationTypeOK
  <2>3. LaterMeasured' BY <2>1 DEF LaterMeasured, C!Measured
  <2>4. C!StaysMeasured BY <2>1 DEF C!StaysMeasured, C!Measured
  <2> QED BY <2>2, <2>3, <2>4 DEF CalibrationInv
<1>5. CASE C!RoutesChange
  <2>1. /\ cCost' \in Real
        /\ cMemory' = C!Stale(cMemory) /\ cStored' = C!Stale(cStored)
        /\ cSaving' = [i \in DOMAIN cSaving |-> C!Stale(cSaving[i])]
    BY <1>5 DEF C!RoutesChange
  <2>2. /\ cMemory' \in Sums /\ (C!Measured(cMemory') <=> C!Measured(cMemory))
        /\ cStored' \in Sums /\ (C!Measured(cStored') <=> C!Measured(cStored))
    BY <2>1, StaleIsSum DEF CalibrationInv, CalibrationTypeOK
  <2>3. DOMAIN cSaving = 1..Len(cSaving) /\ Len(cSaving) \in Nat
    BY DEF CalibrationInv, CalibrationTypeOK
  <2>4. ASSUME NEW i \in 1..Len(cSaving)
        PROVE  /\ cSaving'[i] \in Sums /\ cSaving'[i] = C!Stale(cSaving[i])
               /\ C!Measured(cSaving'[i]) <=> C!Measured(cSaving[i])
    <3>1. cSaving[i] \in Sums BY DEF CalibrationInv, CalibrationTypeOK
    <3>2. cSaving'[i] = C!Stale(cSaving[i]) BY <2>1, <2>3
    <3> QED BY <3>1, <3>2, StaleIsSum
  <2>5. cSaving' \in Seq(Sums) /\ Len(cSaving') = Len(cSaving)
    BY <2>1, <2>3, <2>4
  <2>6. CalibrationTypeOK' BY <2>1, <2>2, <2>5 DEF CalibrationTypeOK
  <2>7. LaterMeasured'
    <3>1. ASSUME NEW i \in 1..Len(cSaving')
          PROVE  /\ C!Measured(cStored') => C!Measured(cSaving'[i])
                 /\ C!Measured(cSaving'[i]) => C!Measured(cMemory')
      BY <2>2, <2>4, <2>5 DEF CalibrationInv, LaterMeasured
    <3>2. ASSUME NEW i \in 1..Len(cSaving'), NEW j \in 1..Len(cSaving'), i < j,
                 C!Measured(cSaving'[i])
          PROVE  C!Measured(cSaving'[j])
      BY <2>4, <2>5, <3>2 DEF CalibrationInv, LaterMeasured
    <3>3. C!Measured(cStored') => C!Measured(cMemory')
      BY <2>2 DEF CalibrationInv, LaterMeasured
    <3> QED BY <3>1, <3>2, <3>3 DEF LaterMeasured, C!Measured
  <2>8. C!StaysMeasured BY <2>2 DEF C!StaysMeasured, C!Measured
  <2> QED BY <2>6, <2>7, <2>8 DEF CalibrationInv
<1>6. CASE UNCHANGED calibrationVars
  BY <1>6 DEF calibrationVars, CalibrationInv, CalibrationTypeOK, LaterMeasured, C!Measured
<1> QED BY <1>1, <1>3, <1>4, <1>5, <1>6 DEF C!Next

LEMMA CalibrationSteps == [AnswersNext]_all => [C!Next]_calibrationVars
BY DEF AnswersNext, OthersStill, Still, all

(* Enough measurements stay enough, through halvings, failed saves and       *)
(* restarts, if half of the history that is kept is enough: the defaults are *)
(* such numbers, but the configuration demands no more than                  *)
(* max_samples > min_samples (GasCalibration.record, config/sections/fees.py). *)
THEOREM MeasurementsStay ==
  MaxSamples + 1 >= 2 * MinSamples
    => (AnswersSpec => [][C!StaysMeasured]_calibrationVars)
<1> SUFFICES ASSUME MaxSamples + 1 >= 2 * MinSamples
             PROVE  AnswersSpec => [][C!StaysMeasured]_calibrationVars
  OBVIOUS
<1>1. AnswersInit => CalibrationInv BY CalibrationBegins DEF AnswersInit
<1>2. CalibrationInv /\ [AnswersNext]_all
        => CalibrationInv' /\ [C!StaysMeasured]_calibrationVars
  BY CalibrationSteps, CalibrationKept
<1> QED BY <1>1, <1>2, PTL DEF AnswersSpec

(***************************************************************************)
(* The correction follows the routes                                        *)
(***************************************************************************)
(* How far the sums are on the side of the cost mine, seen from other.       *)
Excess(actual, quoted, mine, other) == 2 * (actual * QuotedGas) - (mine + other) * quoted
Lead(s, mine, other) ==
  IF mine > other THEN Excess(s.actual, s.quoted, mine, other)
  ELSE -Excess(s.actual, s.quoted, mine, other)

(* Two costs, and they differ by more than halvings round away.              *)
Gap(mine, other) == (IF mine > other THEN mine - other ELSE other - mine) * QuotedGas
Apart(mine, other) ==
  /\ mine \in Nat /\ other \in Nat
  /\ mine - other >= 2 \/ other - mine >= 2
  /\ Gap(mine, other) >= mine + other

LEMMA LeadIs ==
  ASSUME NEW actual \in Nat, NEW quoted \in Nat, NEW mine, NEW other, Apart(mine, other)
  PROVE  /\ Excess(actual, quoted, mine, other) \in Int
         /\ Gap(mine, other) \in Nat /\ Gap(mine, other) >= 2 * QuotedGas
         /\ Gap(mine, other) >= 2
<1>1. QuotedGas \in Nat /\ QuotedGas >= 1 BY CalibrationAssumption
<1>2. mine \in Nat /\ other \in Nat BY DEF Apart
<1>3. actual * QuotedGas \in Int /\ (mine + other) * quoted \in Int BY <1>1, <1>2
<1> DEFINE k == IF mine > other THEN mine - other ELSE other - mine
<1>4. k \in Nat /\ k >= 2 /\ Gap(mine, other) = k * QuotedGas
  <2>1. k \in Nat /\ k >= 2 BY <1>2 DEF Apart
  <2> QED BY <2>1 DEF Gap
<1> HIDE DEF k
<1>5. k * QuotedGas >= 2 * QuotedGas /\ k * QuotedGas \in Nat BY <1>1, <1>4
<1> QED BY <1>1, <1>3, <1>4, <1>5 DEF Excess

(* A measurement more. *)
LEMMA ExcessGrows ==
  ASSUME NEW actual \in Nat, NEW quoted \in Nat, NEW mine \in Nat, NEW other \in Nat
  PROVE  Excess(actual + mine, quoted + QuotedGas, mine, other)
           = Excess(actual, quoted, mine, other) + (mine - other) * QuotedGas
<1>1. QuotedGas \in Nat BY CalibrationAssumption
<1> DEFINE q == QuotedGas
<1>2. (actual + mine) * q = actual * q + mine * q BY <1>1
<1>3. (mine + other) * (quoted + q) = (mine + other) * quoted + (mine * q + other * q)
  BY <1>1
<1>4. (mine - other) * q = mine * q - other * q BY <1>1
<1>5. /\ actual * q \in Int /\ mine * q \in Int /\ other * q \in Int
      /\ (mine + other) * quoted \in Int
  BY <1>1
<1> QED BY <1>2, <1>3, <1>4, <1>5 DEF Excess

(* What halving rounds away. *)
LEMMA ExcessHalved ==
  ASSUME NEW actual \in Nat, NEW quoted \in Nat, NEW mine \in Nat, NEW other \in Nat
  PROVE  LET e == Excess(actual, quoted, mine, other)
             h == Excess(actual \div 2, quoted \div 2, mine, other)
         IN e - 2 * QuotedGas <= 2 * h /\ 2 * h <= e + (mine + other)
<1>1. QuotedGas \in Nat BY CalibrationAssumption
<1> DEFINE q == QuotedGas
           c == mine + other
           x == actual \div 2
           y == quoted \div 2
<1>2. /\ x \in Nat /\ (actual = 2 * x \/ actual = 2 * x + 1)
      /\ y \in Nat /\ (quoted = 2 * y \/ quoted = 2 * y + 1)
  OBVIOUS
<1>3. c \in Nat OBVIOUS
<1> HIDE DEF x, y, c
<1>4. x * q \in Int /\ c * y \in Int BY <1>1, <1>2, <1>3
<1>5. actual * q = 2 * (x * q) \/ actual * q = 2 * (x * q) + q BY <1>1, <1>2
<1>6. c * quoted = 2 * (c * y) \/ c * quoted = 2 * (c * y) + c BY <1>2, <1>3
<1>7. Excess(x, y, mine, other) = 2 * (x * q) - c * y BY DEF Excess, c
<1>8. Excess(actual, quoted, mine, other) = 2 * (actual * q) - c * quoted BY DEF Excess, c
<1>9. LET e == Excess(actual, quoted, mine, other)
          h == Excess(x, y, mine, other)
      IN e - 2 * q <= 2 * h /\ 2 * h <= e + c
  BY <1>1, <1>3, <1>4, <1>5, <1>6, <1>7, <1>8
<1> QED BY <1>9 DEF x, y, c

(* What the sums say of the last measurements: n samples, the last fresh of  *)
(* them of one cost, lead v on its side, d for each.  In turn: nothing was    *)
(* halved since the cost changed, or once, or twice; or all are fresh.        *)
Half == (MaxSamples + 1) \div 2
Leads(n, fresh, v, d) ==
  /\ -((n + 2) * d) <= v /\ v <= (n + 2) * d
  /\ \/ (2 * fresh - n - 2) * d <= v
     \/ (2 * fresh - MaxSamples - 4) * d <= 2 * v /\ n <= Half + fresh - 1
     \/ /\ (2 * fresh + 2 * n - 2 * Half - MaxSamples - 6) * d <= 4 * v
        /\ MaxSamples + 2 - Half <= Half + fresh - n /\ Half + fresh - n <= MaxSamples
     \/ fresh = MaxSamples /\ v > 0

LEMMA HalfIs ==
  ASSUME MaxSamples \in Nat
  PROVE  /\ Half \in Nat /\ MaxSamples <= 2 * Half /\ 2 * Half <= MaxSamples + 1
         /\ Half <= MaxSamples + 1
BY DEF Half

(* Products with d, which the solver takes as numbers. *)
LEMMA Products ==
  ASSUME NEW n \in Int, NEW f \in Int, NEW m \in Int, NEW h \in Int, NEW d \in Int
  PROVE  /\ n * d \in Int /\ f * d \in Int /\ m * d \in Int /\ h * d \in Int
         /\ (n + 2) * d = n * d + 2 * d /\ (h + 2) * d = h * d + 2 * d
         /\ (n + 1 + 2) * d = n * d + 3 * d
         /\ (2 * f - n - 2) * d = 2 * (f * d) - n * d - 2 * d
         /\ (2 * f - m - 4) * d = 2 * (f * d) - m * d - 4 * d
         /\ (2 * f + 2 * n - 2 * h - m - 6) * d
              = 2 * (f * d) + 2 * (n * d) - 2 * (h * d) - m * d - 6 * d
OBVIOUS

(* Once every measurement that counts is fresh, the lead is won. *)
LEMMA LeadIsWon ==
  ASSUME MaxSamples \in Nat, MaxSamples >= 7,
         NEW n \in 0..MaxSamples, NEW f \in 0..MaxSamples, NEW v \in Int,
         NEW d \in Nat \ {0}, Leads(n, f, v, d), f = MaxSamples
  PROVE  v > 0
<1> DEFINE m == MaxSamples
           nd == n * d
           fd == f * d
           md == m * d
           hd == Half * d
<1>1. Half \in Nat /\ m <= 2 * Half /\ 2 * Half <= m + 1 BY HalfIs
<1>2. nd \in Int /\ fd \in Int /\ md \in Int /\ hd \in Int BY <1>1, Products
<1>3. md <= 2 * hd /\ 7 * d <= md /\ (n <= m => nd <= md) /\ 2 * hd <= md + d
      /\ (f = m => fd = md) /\ (n = m => nd = md) /\ (n = Half => nd = hd)
  <2>1. 2 * hd = (2 * Half) * d /\ md + d = (m + 1) * d BY <1>1
  <2>2. m * d <= (2 * Half) * d /\ (2 * Half) * d <= (m + 1) * d /\ 7 * d <= m * d BY <1>1
  <2>3. n <= m => n * d <= m * d OBVIOUS
  <2> QED BY <2>1, <2>2, <2>3
<1>4. /\ -(nd + 2 * d) <= v /\ v <= nd + 2 * d
      /\ \/ 2 * fd - nd - 2 * d <= v
         \/ 2 * fd - md - 4 * d <= 2 * v /\ n <= Half + f - 1
         \/ /\ 2 * fd + 2 * nd - 2 * hd - md - 6 * d <= 4 * v
            /\ m + 2 - Half <= Half + f - n /\ Half + f - n <= m
         \/ f = m /\ v > 0
  BY <1>1, Products DEF Leads
<1>5. fd = md BY <1>3
<1>6. n >= Half => nd >= hd
  <2>1. n >= Half => n * d >= Half * d BY <1>1
  <2> QED BY <2>1
<1> HIDE DEF nd, fd, md, hd
<1>7. CASE 2 * fd - nd - 2 * d <= v BY <1>2, <1>3, <1>5, <1>7
<1>8. CASE 2 * fd - md - 4 * d <= 2 * v BY <1>2, <1>3, <1>5, <1>8
<1>9. CASE /\ 2 * fd + 2 * nd - 2 * hd - md - 6 * d <= 4 * v
           /\ m + 2 - Half <= Half + f - n /\ Half + f - n <= m
  <2>1. n >= Half BY <1>1, <1>9
  <2> QED BY <1>2, <1>3, <1>5, <1>6, <1>9, <2>1
<1> QED BY <1>4, <1>7, <1>8, <1>9

(* A measurement more, without halving and with.                             *)
LEMMA LeadsGrow ==
  ASSUME MaxSamples \in Nat, MaxSamples >= 7,
         NEW n \in 0..MaxSamples, NEW f \in 0..MaxSamples, NEW v \in Int,
         NEW d \in Nat \ {0}, Leads(n, f, v, d),
         NEW w \in Int, n < MaxSamples => w = v + d,
         n = MaxSamples => v <= 2 * w /\ 2 * w <= v + 2 * d
  PROVE  Leads(IF n < MaxSamples THEN n + 1 ELSE Half,
               IF f < MaxSamples THEN f + 1 ELSE f, w, d)
<1> DEFINE m == MaxSamples
           nd == n * d
           fd == f * d
           md == m * d
           hd == Half * d
<1>1. Half \in Nat /\ m <= 2 * Half /\ 2 * Half <= m + 1 BY HalfIs
<1>2. nd \in Int /\ fd \in Int /\ md \in Int /\ hd \in Int BY <1>1, Products
<1>3. md <= 2 * hd /\ 7 * d <= md /\ (n <= m => nd <= md) /\ 2 * hd <= md + d
      /\ (f = m => fd = md) /\ (n = m => nd = md) /\ (n = Half => nd = hd)
  <2>1. 2 * hd = (2 * Half) * d /\ md + d = (m + 1) * d BY <1>1
  <2>2. m * d <= (2 * Half) * d /\ (2 * Half) * d <= (m + 1) * d /\ 7 * d <= m * d BY <1>1
  <2>3. n <= m => n * d <= m * d OBVIOUS
  <2> QED BY <2>1, <2>2, <2>3
<1>4. /\ -(nd + 2 * d) <= v /\ v <= nd + 2 * d
      /\ \/ 2 * fd - nd - 2 * d <= v
         \/ 2 * fd - md - 4 * d <= 2 * v /\ n <= Half + f - 1
         \/ /\ 2 * fd + 2 * nd - 2 * hd - md - 6 * d <= 4 * v
            /\ m + 2 - Half <= Half + f - n /\ Half + f - n <= m
         \/ f = m /\ v > 0
  BY <1>1, Products DEF Leads
<1>5. ASSUME NEW i \in 0..m, NEW g \in 0..m, NEW id \in Int, NEW gd \in Int,
             id = i * d, gd = g * d,
             -(id + 2 * d) <= w, w <= id + 2 * d,
             \/ 2 * gd - id - 2 * d <= w
             \/ 2 * gd - md - 4 * d <= 2 * w /\ i <= Half + g - 1
             \/ /\ 2 * gd + 2 * id - 2 * hd - md - 6 * d <= 4 * w
                /\ m + 2 - Half <= Half + g - i /\ Half + g - i <= m
             \/ g = m /\ w > 0
      PROVE  Leads(i, g, w, d)
  BY <1>1, <1>5, Products DEF Leads
<1>6. f = m => v > 0 BY LeadIsWon
<1>7. CASE n < m
  <2>1. n + 1 \in 0..m /\ (n + 1) * d = nd + d /\ w = v + d BY <1>7
  <2>2. CASE f < m
    <3>1. f + 1 \in 0..m /\ (f + 1) * d = fd + d BY <2>2
    <3> HIDE DEF nd, fd, md, hd
    <3>2. -((nd + d) + 2 * d) <= w /\ w <= (nd + d) + 2 * d BY <1>2, <1>4, <2>1
    <3>3. \/ 2 * (fd + d) - (nd + d) - 2 * d <= w
          \/ 2 * (fd + d) - md - 4 * d <= 2 * w /\ n + 1 <= Half + (f + 1) - 1
          \/ /\ 2 * (fd + d) + 2 * (nd + d) - 2 * hd - md - 6 * d <= 4 * w
             /\ m + 2 - Half <= Half + (f + 1) - (n + 1) /\ Half + (f + 1) - (n + 1) <= m
      BY <1>1, <1>2, <1>4, <2>1, <2>2
    <3>4. nd + d \in Int /\ fd + d \in Int BY <1>2
    <3>5. Leads(n + 1, f + 1, w, d) BY <1>5, <2>1, <3>1, <3>2, <3>3, <3>4
    <3> QED BY <1>7, <2>2, <3>5
  <2>3. CASE f = m
    <3>1. w > 0 BY <1>6, <2>1, <2>3
    <3>2. f \in 0..m /\ f * d = fd OBVIOUS
    <3> HIDE DEF nd, fd, md, hd
    <3>3. -((nd + d) + 2 * d) <= w /\ w <= (nd + d) + 2 * d BY <1>2, <1>4, <2>1
    <3>4. nd + d \in Int BY <1>2
    <3>5. Leads(n + 1, f, w, d) BY <1>2, <1>5, <2>1, <2>3, <3>1, <3>2, <3>3, <3>4
    <3> QED BY <1>7, <2>3, <3>5
  <2> QED BY <2>2, <2>3
<1>8. CASE n = m
  <2>1. Half \in 0..m /\ Half * d = hd /\ nd = md /\ v <= 2 * w /\ 2 * w <= v + 2 * d
    BY <1>1, <1>8
  <2>2. CASE f < m
    <3>1. f + 1 \in 0..m /\ (f + 1) * d = fd + d BY <2>2
    <3>2. f + 1 <= m => fd + d <= md
      <4>1. f + 1 <= m => (f + 1) * d <= m * d OBVIOUS
      <4> QED BY <3>1, <4>1
    <3> HIDE DEF nd, fd, md, hd
    <3>3. -(hd + 2 * d) <= w /\ w <= hd + 2 * d BY <1>2, <1>3, <1>4, <2>1
    <3>4. CASE 2 * fd - nd - 2 * d <= v
      <4>1. 2 * (fd + d) - md - 4 * d <= 2 * w /\ Half <= Half + (f + 1) - 1
        BY <1>1, <1>2, <2>1, <3>4
      <4> QED BY <1>2, <1>5, <1>8, <2>1, <2>2, <3>1, <3>3, <4>1
    <3>5. CASE 2 * fd - md - 4 * d <= 2 * v /\ n <= Half + f - 1
      <4>1. /\ 2 * (fd + d) + 2 * hd - 2 * hd - md - 6 * d <= 4 * w
            /\ m + 2 - Half <= Half + (f + 1) - Half /\ Half + (f + 1) - Half <= m
        BY <1>1, <1>2, <1>8, <2>1, <2>2, <3>5
      <4> QED BY <1>2, <1>5, <1>8, <2>1, <2>2, <3>1, <3>3, <4>1
    <3>6. CASE m + 2 - Half <= Half + f - n /\ Half + f - n <= m
      BY <1>1, <1>8, <2>2, <3>6
    <3> QED BY <1>4, <2>2, <3>4, <3>5, <3>6
  <2>3. CASE f = m
    <3>1. w > 0 BY <1>6, <2>1, <2>3
    <3>2. f \in 0..m /\ f * d = fd OBVIOUS
    <3> HIDE DEF nd, fd, md, hd
    <3>3. -(hd + 2 * d) <= w /\ w <= hd + 2 * d BY <1>2, <1>3, <1>4, <2>1
    <3>4. Leads(Half, f, w, d) BY <1>2, <1>5, <2>1, <2>3, <3>1, <3>2, <3>3
    <3> QED BY <1>8, <2>3, <3>4
  <2> QED BY <2>2, <2>3
<1> QED BY <1>7, <1>8

(* What the sums s know of the cost mine that routes have. *)
Tracked(s, mine) ==
  /\ s \in Sums /\ s.samples \in 0..MaxSamples /\ s.fresh \in 0..MaxSamples
  /\ \A other \in Real \ {mine} :
       Leads(s.samples, s.fresh, Lead(s, mine, other), Gap(mine, other))

TwoCosts ==
  /\ MaxSamples >= 7
  /\ \E low, high : Real = {low, high} /\ \A a, c \in Real : a # c => Apart(a, c)

LEMMA TrackedIsKept ==
  ASSUME TwoCosts, NEW s, NEW mine \in Real, Tracked(s, mine)
  PROVE  Tracked(C!Sum(s, mine), mine)
<1>1. /\ MaxSamples \in Nat /\ MaxSamples >= 7 /\ QuotedGas \in Nat \ {0} /\ mine \in Nat
  BY CalibrationAssumption DEF TwoCosts
<1>2. PICK n \in 0..MaxSamples, q \in Nat, a \in Nat, f \in 0..MaxSamples :
        n = s.samples /\ q = s.quoted /\ a = s.actual /\ f = s.fresh
  BY DEF Tracked, Sums
<1>3. C!AtMost(f + 1, MaxSamples) = IF f < MaxSamples THEN f + 1 ELSE f
  BY <1>1, <1>2 DEF C!AtMost
<1>4. PICK g \in 0..MaxSamples :
        g = (IF f < MaxSamples THEN f + 1 ELSE f) /\ g = C!AtMost(f + 1, MaxSamples)
  BY <1>1, <1>2, <1>3
<1>5. PICK n1 \in Nat, q1 \in Nat, a1 \in Nat :
        n1 = n + 1 /\ q1 = q + QuotedGas /\ a1 = a + mine
  BY <1>1, <1>2
<1> DEFINE t == [samples |-> n1, quoted |-> q1, actual |-> a1, fresh |-> g]
<1>6. C!Sum(s, mine) = C!Halved(t) BY <1>2, <1>4, <1>5 DEF C!Sum
<1>7. C!Sum(s, mine) \in Sums BY SumIsSum DEF Tracked
<1>8. ASSUME NEW other \in Real \ {mine}
      PROVE  /\ other \in Nat /\ Gap(mine, other) \in Nat \ {0}
             /\ Lead(s, mine, other) \in Int
             /\ Leads(n, f, Lead(s, mine, other), Gap(mine, other))
             /\ Gap(mine, other) >= 2 * QuotedGas /\ Gap(mine, other) >= mine + other
             /\ Lead(t, mine, other) \in Int
             /\ Lead(t, mine, other) = Lead(s, mine, other) + Gap(mine, other)
  <2>1. Apart(mine, other) BY <1>8 DEF TwoCosts
  <2>2. other \in Nat /\ Gap(mine, other) >= mine + other BY <2>1 DEF Apart
  <2>3. /\ Excess(a, q, mine, other) \in Int /\ Excess(a1, q1, mine, other) \in Int
        /\ Gap(mine, other) \in Nat /\ Gap(mine, other) >= 2 * QuotedGas
        /\ Gap(mine, other) >= 2
    BY <2>1, LeadIs
  <2>4. Excess(a1, q1, mine, other) = Excess(a, q, mine, other) + (mine - other) * QuotedGas
    BY <1>1, <1>5, <2>2, ExcessGrows
  <2>5. Gap(mine, other) = IF mine > other THEN (mine - other) * QuotedGas
                           ELSE -((mine - other) * QuotedGas)
    BY <1>1, <2>2 DEF Gap
  <2>6. (mine - other) * QuotedGas \in Int BY <1>1, <2>2
  <2>7. /\ Lead(s, mine, other) = IF mine > other THEN Excess(a, q, mine, other)
                                  ELSE -Excess(a, q, mine, other)
        /\ Lead(t, mine, other) = IF mine > other THEN Excess(a1, q1, mine, other)
                                  ELSE -Excess(a1, q1, mine, other)
    BY <1>2 DEF Lead
  <2>8. /\ Lead(s, mine, other) \in Int /\ Lead(t, mine, other) \in Int
        /\ Lead(t, mine, other) = Lead(s, mine, other) + Gap(mine, other)
    BY <2>3, <2>4, <2>5, <2>6, <2>7
  <2>9. Leads(n, f, Lead(s, mine, other), Gap(mine, other)) BY <1>2, <1>8 DEF Tracked
  <2> QED BY <2>2, <2>3, <2>8, <2>9
<1>9. CASE n < MaxSamples
  <2>1. C!Sum(s, mine) = t /\ n1 \in 0..MaxSamples
    BY <1>1, <1>2, <1>5, <1>6, <1>9 DEF C!Halved
  <2>2. ASSUME NEW other \in Real \ {mine}
        PROVE  Leads(n1, g, Lead(t, mine, other), Gap(mine, other))
    <3> DEFINE v == Lead(s, mine, other)
               w == Lead(t, mine, other)
               d == Gap(mine, other)
    <3>1. v \in Int /\ w \in Int /\ d \in Nat \ {0} /\ w = v + d /\ Leads(n, f, v, d)
      BY <1>8
    <3> HIDE DEF v, w, d
    <3>2. Leads(IF n < MaxSamples THEN n + 1 ELSE Half,
                IF f < MaxSamples THEN f + 1 ELSE f, w, d)
      <4>1. n # MaxSamples BY <1>1, <1>9
      <4> QED BY <1>1, <1>9, <3>1, <4>1, LeadsGrow
    <3>3. Leads(n1, g, w, d) BY <1>4, <1>5, <1>9, <3>2
    <3> QED BY <3>3 DEF w, d
  <2>3. t.samples = n1 /\ t.fresh = g OBVIOUS
  <2> QED BY <1>7, <2>1, <2>2, <2>3 DEF Tracked
<1>10. CASE n = MaxSamples
  <2>1. PICK u \in [samples : Nat, quoted : Nat, actual : Nat, fresh : Nat] :
          /\ u.samples = n1 \div 2 /\ u.quoted = q1 \div 2 /\ u.actual = a1 \div 2
          /\ u.fresh = g /\ C!Sum(s, mine) = u
    <3>1. C!Halved(t) = [t EXCEPT !.samples = n1 \div 2, !.quoted = q1 \div 2,
                                  !.actual = a1 \div 2]
      BY <1>1, <1>5, <1>10 DEF C!Halved
    <3>2. PICK x \in Nat, y \in Nat, z \in Nat :
            x = n1 \div 2 /\ y = q1 \div 2 /\ z = a1 \div 2
      <4>1. ASSUME NEW k \in Nat PROVE k \div 2 \in Nat OBVIOUS
      <4> QED BY <4>1
    <3>3. C!Halved(t) = [samples |-> x, quoted |-> y, actual |-> z, fresh |-> g]
      BY <3>1, <3>2
    <3> QED BY <1>6, <3>2, <3>3
  <2>2. n1 \div 2 = Half /\ Half \in 0..MaxSamples
    BY <1>1, <1>5, <1>10 DEF Half
  <2>3. ASSUME NEW other \in Real \ {mine}
        PROVE  Leads(Half, g, Lead(u, mine, other), Gap(mine, other))
    <3> DEFINE v == Lead(s, mine, other)
               w == Lead(t, mine, other)
               h == Lead(u, mine, other)
               d == Gap(mine, other)
               e1 == Excess(a1, q1, mine, other)
               e2 == Excess(a1 \div 2, q1 \div 2, mine, other)
    <3>1. /\ v \in Int /\ w \in Int /\ d \in Nat \ {0} /\ w = v + d /\ Leads(n, f, v, d)
          /\ d >= 2 * QuotedGas /\ d >= mine + other /\ other \in Nat
      BY <1>8
    <3>2. e1 - 2 * QuotedGas <= 2 * e2 /\ 2 * e2 <= e1 + (mine + other)
      BY <1>1, <3>1, ExcessHalved
    <3>3. e1 \in Int /\ e2 \in Int
      <4>1. Apart(mine, other) BY <2>3 DEF TwoCosts
      <4>2. ASSUME NEW k \in Nat PROVE k \div 2 \in Nat OBVIOUS
      <4>3. a1 \div 2 \in Nat /\ q1 \div 2 \in Nat BY <4>2
      <4> QED BY <4>1, <4>3, LeadIs
    <3>4. /\ w = IF mine > other THEN e1 ELSE -e1
          /\ h = IF mine > other THEN e2 ELSE -e2
      BY <2>1 DEF Lead
    <3> HIDE DEF v, w, h, d, e1, e2
    <3>5. h \in Int /\ v <= 2 * h /\ 2 * h <= v + 2 * d BY <1>1, <3>1, <3>2, <3>3, <3>4
    <3>6. Leads(Half, g, h, d) BY <1>1, <1>2, <1>4, <1>10, <3>1, <3>5, LeadsGrow
    <3> QED BY <3>6 DEF h, d
  <2> QED BY <1>7, <2>1, <2>2, <2>3 DEF Tracked
<1> QED BY <1>1, <1>2, <1>9, <1>10

(* New costs: what led on one side trails on the other. *)
LEMMA TrackedAnew ==
  ASSUME TwoCosts, NEW s, NEW mine \in Real, NEW new \in Real \ {mine}, Tracked(s, mine)
  PROVE  Tracked(C!Stale(s), new)
<1>1. /\ MaxSamples \in Nat /\ QuotedGas \in Nat \ {0} /\ mine \in Nat /\ new \in Nat
  BY CalibrationAssumption DEF TwoCosts
<1>2. PICK n \in 0..MaxSamples, q \in Nat, a \in Nat, f \in 0..MaxSamples :
        n = s.samples /\ q = s.quoted /\ a = s.actual /\ f = s.fresh
  BY DEF Tracked, Sums
<1>3. C!Stale(s) \in Sums BY StaleIsSum DEF Tracked
<1>4. /\ C!Stale(s).samples = n /\ C!Stale(s).quoted = q /\ C!Stale(s).actual = a
      /\ C!Stale(s).fresh = 0
  BY <1>2 DEF C!Stale, Tracked, Sums
<1>5. ASSUME NEW other \in Real \ {new} PROVE other = mine
  BY <1>5 DEF TwoCosts
<1>6. Leads(n, 0, Lead(C!Stale(s), new, mine), Gap(new, mine))
  <2>1. Apart(mine, new) /\ Apart(new, mine) BY DEF TwoCosts
  <2> DEFINE v == Lead(s, mine, new)
             w == Lead(C!Stale(s), new, mine)
             d == Gap(mine, new)
  <2>2. Gap(new, mine) = d /\ mine # new BY <1>1 DEF Gap
  <2>3. Excess(a, q, new, mine) = Excess(a, q, mine, new) BY <1>1 DEF Excess
  <2>4. /\ Excess(a, q, mine, new) \in Int /\ d \in Nat /\ d >= 2
    BY <2>1, LeadIs
  <2>5. /\ v = IF mine > new THEN Excess(a, q, mine, new) ELSE -Excess(a, q, mine, new)
        /\ w = IF new > mine THEN Excess(a, q, mine, new) ELSE -Excess(a, q, mine, new)
    BY <1>2, <1>4, <2>3 DEF Lead
  <2>6. v \in Int /\ w = -v BY <1>1, <2>2, <2>4, <2>5
  <2>7. Leads(n, f, v, d) BY <1>2 DEF Tracked
  <2> HIDE DEF v, w, d
  <2>8. -((n + 2) * d) <= v /\ v <= (n + 2) * d BY <2>7 DEF Leads
  <2>9. (n + 2) * d \in Int /\ (2 * 0 - n - 2) * d = -((n + 2) * d) BY <1>2, <2>4
  <2>10. Leads(n, 0, w, d) BY <2>6, <2>8, <2>9 DEF Leads
  <2> QED BY <2>2, <2>10 DEF w
<1> QED BY <1>1, <1>3, <1>4, <1>5, <1>6 DEF Tracked

LEMMA NothingTracked ==
  ASSUME TwoCosts, NEW mine \in Real
  PROVE  Tracked(C!NoSample, mine)
<1>1. /\ MaxSamples \in Nat /\ QuotedGas \in Nat \ {0}
  BY CalibrationAssumption
<1>2. C!NoSample \in Sums /\ C!NoSample.samples = 0 /\ C!NoSample.fresh = 0
  BY DEF C!NoSample, Sums
<1>3. ASSUME NEW other \in Real \ {mine}
      PROVE  Leads(0, 0, Lead(C!NoSample, mine, other), Gap(mine, other))
  <2>1. Apart(mine, other) BY <1>3 DEF TwoCosts
  <2>2. mine \in Nat /\ other \in Nat BY <2>1 DEF Apart
  <2>3. Excess(0, 0, mine, other) = 0 BY <1>1, <2>2 DEF Excess
  <2>4. Lead(C!NoSample, mine, other) = 0 BY <2>3 DEF Lead, C!NoSample
  <2>5. Gap(mine, other) \in Nat BY <2>1, LeadIs
  <2> QED BY <2>4, <2>5 DEF Leads
<1> QED BY <1>1, <1>2, <1>3 DEF Tracked

(* The lead decides which cost the factor is nearer to. *)
LEMMA TrackedFollows ==
  ASSUME TwoCosts, cCost \in Real, Tracked(cMemory, cCost)
  PROVE  C!FactorFollowsRoutes
<1> SUFFICES ASSUME cMemory.fresh = MaxSamples, NEW other \in Real \ {cCost}
             PROVE  LET twice == 2 * cMemory.actual * QuotedGas
                        middle == (cCost + other) * cMemory.quoted
                    IN IF cCost > other THEN twice > middle ELSE twice < middle
  BY DEF C!FactorFollowsRoutes
<1>1. MaxSamples \in Nat /\ MaxSamples >= 7 /\ QuotedGas \in Nat /\ cCost \in Nat /\ other \in Nat
  BY CalibrationAssumption DEF TwoCosts
<1>2. PICK n \in 0..MaxSamples, q \in Nat, a \in Nat :
        n = cMemory.samples /\ q = cMemory.quoted /\ a = cMemory.actual
  BY DEF Tracked, Sums
<1>3. Apart(cCost, other) BY DEF TwoCosts
<1>4. Excess(a, q, cCost, other) \in Int /\ Gap(cCost, other) \in Nat \ {0}
  BY <1>3, LeadIs
<1>5. Lead(cMemory, cCost, other) \in Int
  BY <1>2, <1>4 DEF Lead
<1>6. Leads(n, MaxSamples, Lead(cMemory, cCost, other), Gap(cCost, other))
  BY <1>2 DEF Tracked
<1>7. Lead(cMemory, cCost, other) > 0
  <2> DEFINE v == Lead(cMemory, cCost, other)
             d == Gap(cCost, other)
  <2>1. v \in Int /\ d \in Nat \ {0} /\ Leads(n, MaxSamples, v, d) BY <1>4, <1>5, <1>6
  <2> HIDE DEF v, d
  <2>2. v > 0 BY <1>1, <1>2, <2>1, LeadIsWon
  <2> QED BY <2>2 DEF v
<1>8. IF cCost > other THEN Excess(a, q, cCost, other) > 0 ELSE Excess(a, q, cCost, other) < 0
  BY <1>2, <1>4, <1>7 DEF Lead
<1>9. 2 * a * QuotedGas = 2 * (a * QuotedGas) /\ a * QuotedGas \in Int
      /\ (cCost + other) * q \in Int
  BY <1>1
<1> QED BY <1>2, <1>8, <1>9 DEF Excess

AllTracked ==
  /\ Tracked(cMemory, cCost) /\ Tracked(cStored, cCost)
  /\ \A i \in 1..Len(cSaving) : Tracked(cSaving[i], cCost)

LEMMA AllTrackedBegins == TwoCosts /\ C!Init => AllTracked
BY NothingTracked DEF C!Init, AllTracked

LEMMA AllTrackedKept ==
  ASSUME TwoCosts, CalibrationTypeOK, AllTracked, [C!Next]_calibrationVars
  PROVE  AllTracked'
<1>1. CASE C!Record
  <2>1. /\ cMemory' = C!Sum(cMemory, cCost) /\ cSaving' = Append(cSaving, cMemory')
        /\ UNCHANGED <<cStored, cCost>>
    BY <1>1 DEF C!Record
  <2>2. Tracked(cMemory', cCost)
    BY <2>1, TrackedIsKept DEF AllTracked, CalibrationTypeOK
  <2>3. cMemory' \in Sums BY <2>2 DEF Tracked
  <2>4. /\ Len(cSaving') = Len(cSaving) + 1 /\ Len(cSaving) \in Nat
        /\ \A i \in 1..Len(cSaving) : cSaving'[i] = cSaving[i]
        /\ cSaving'[Len(cSaving) + 1] = cMemory'
    BY <2>1, <2>3 DEF CalibrationTypeOK
  <2>5. ASSUME NEW i \in 1..Len(cSaving') PROVE Tracked(cSaving'[i], cCost)
    <3>1. i \in 1..Len(cSaving) \/ i = Len(cSaving) + 1 BY <2>4
    <3> QED BY <2>2, <2>4, <3>1 DEF AllTracked
  <2>6. ASSUME NEW s, Tracked(s, cCost) PROVE Tracked(s, cCost')
    BY <2>1, <2>6
  <2> QED BY <2>1, <2>2, <2>5, <2>6 DEF AllTracked
<1>2. ASSUME cSaving # <<>>, cSaving' = Tail(cSaving), UNCHANGED <<cMemory, cCost>>,
             cStored' \in {cStored, Head(cSaving)}
      PROVE  AllTracked'
  <2>1. /\ Len(cSaving) \in Nat \ {0} /\ Len(cSaving') = Len(cSaving) - 1
        /\ \A i \in 1..Len(cSaving') : cSaving'[i] = cSaving[i + 1]
        /\ Head(cSaving) = cSaving[1]
    BY <1>2 DEF CalibrationTypeOK
  <2>2. Tracked(cStored', cCost) BY <1>2, <2>1 DEF AllTracked
  <2>3. ASSUME NEW i \in 1..Len(cSaving') PROVE Tracked(cSaving'[i], cCost)
    <3>1. i + 1 \in 1..Len(cSaving) BY <2>1
    <3> QED BY <2>1, <3>1 DEF AllTracked
  <2> QED BY <1>2, <2>2, <2>3 DEF AllTracked
<1>3. CASE C!Saved \/ C!SaveFails BY <1>2, <1>3 DEF C!Saved, C!SaveFails
<1>4. CASE C!Restart
  BY <1>4 DEF C!Restart, AllTracked
<1>5. CASE C!RoutesChange
  <2>1. /\ cCost' \in Real \ {cCost}
        /\ cMemory' = C!Stale(cMemory) /\ cStored' = C!Stale(cStored)
        /\ cSaving' = [i \in DOMAIN cSaving |-> C!Stale(cSaving[i])]
    BY <1>5 DEF C!RoutesChange
  <2>2. ASSUME NEW s, Tracked(s, cCost) PROVE Tracked(C!Stale(s), cCost')
    BY <2>1, <2>2, TrackedAnew DEF CalibrationTypeOK
  <2>3. DOMAIN cSaving = 1..Len(cSaving) /\ Len(cSaving) \in Nat
    BY DEF CalibrationTypeOK
  <2>4. ASSUME NEW i \in 1..Len(cSaving) PROVE Tracked(cSaving'[i], cCost')
    <3>1. cSaving'[i] = C!Stale(cSaving[i]) BY <2>1, <2>3
    <3> QED BY <2>2, <3>1 DEF AllTracked
  <2>5. Len(cSaving') = Len(cSaving) BY <2>1, <2>3
  <2> QED BY <2>1, <2>2, <2>4, <2>5 DEF AllTracked
<1>6. CASE UNCHANGED calibrationVars BY <1>6 DEF calibrationVars, AllTracked
<1> QED BY <1>1, <1>3, <1>4, <1>5, <1>6 DEF C!Next

LEMMA CalibrationHolds ==
  MaxSamples + 1 >= 2 * MinSamples /\ TwoCosts
    => (AnswersSpec => [](CalibrationInv /\ AllTracked))
<1> SUFFICES ASSUME MaxSamples + 1 >= 2 * MinSamples, TwoCosts
             PROVE  AnswersSpec => [](CalibrationInv /\ AllTracked)
  OBVIOUS
<1>1. AnswersInit => CalibrationInv /\ AllTracked
  BY CalibrationBegins, AllTrackedBegins DEF AnswersInit
<1>2. CalibrationInv /\ AllTracked /\ [AnswersNext]_all => (CalibrationInv /\ AllTracked)'
  BY CalibrationSteps, CalibrationKept, AllTrackedKept DEF CalibrationInv
<1> QED BY <1>1, <1>2, PTL DEF AnswersSpec

(* After max_samples measurements at a new cost the factor is nearer to it   *)
(* than to the old one, whatever was summed up, halved, rounded, saved or     *)
(* lost before, and enough measurements stay enough.  The hypotheses: half    *)
(* of the history is enough, the history is of seven or more, and two costs   *)
(* differ by two or more and by no small part of themselves, their difference *)
(* times the quote against their sum.  The defaults (five of a hundred, gas   *)
(* in hundreds of thousands) are far beyond them; the configuration demands   *)
(* only max_samples > min_samples (GasCalibration.record, factor,             *)
(* config/sections/fees.py).                                                *)
THEOREM CorrectionFollows ==
  MaxSamples + 1 >= 2 * MinSamples /\ TwoCosts => (AnswersSpec => CorrectionIsCurrent)
<1> SUFFICES ASSUME MaxSamples + 1 >= 2 * MinSamples, TwoCosts
             PROVE  AnswersSpec => CorrectionIsCurrent
  OBVIOUS
<1>1. CalibrationInv /\ AllTracked => C!FactorFollowsRoutes
  BY TrackedFollows DEF CalibrationInv, CalibrationTypeOK, AllTracked
<1>2. AnswersSpec => [](CalibrationInv /\ AllTracked) BY CalibrationHolds
<1>3. AnswersSpec => [][C!StaysMeasured]_calibrationVars BY MeasurementsStay
<1> QED BY <1>1, <1>2, <1>3, PTL DEF CorrectionIsCurrent

(***************************************************************************)
(* The hours of the providers                                               *)
(***************************************************************************)
ScopeTypeOK ==
  /\ wConfig \in Configurations /\ W!Valid(wConfig)
  /\ wNow \in 0..(Day - 1)
  /\ wBegun \in [W!Modes -> 0..(Day - 1) \cup {W!Absent}]
  /\ DOMAIN wScopes = W!Modes
ScopeInv == ScopeTypeOK /\ HoursAreKept

(* Hours on the clock. *)
LEMMA ClockHours ==
  ASSUME NEW x \in Int, NEW d \in Nat \ {0}, -d < x, x < d
  PROVE  x % d = IF x >= 0 THEN x ELSE x + d
<1>1. CASE x >= 0 BY <1>1
<1>2. CASE x < 0
  <2>1. x % d = x + d BY <1>2
  <2> QED BY <1>2, <2>1
<1> QED BY <1>1, <1>2

(* DailyWindow.contains is the distance on the clock, on either side of      *)
(* midnight.                                                                *)
LEMMA CoversIsDistance ==
  ASSUME NEW w, w.from \in 0..(Day - 1), w.to \in 0..(Day - 1), w.from # w.to,
         NEW hour \in 0..(Day - 1)
  PROVE  W!Covers(w, hour) <=> (hour - w.from) % Day < (w.to - w.from) % Day
<1>1. PICK f \in 0..(Day - 1), t \in 0..(Day - 1) : f = w.from /\ t = w.to /\ f # t OBVIOUS
<1>2. Day \in Nat \ {0} BY ScopeAssumption
<1>8. /\ hour - f \in Int /\ -Day < hour - f /\ hour - f < Day
      /\ t - f \in Int /\ -Day < t - f /\ t - f < Day
  BY <1>1, <1>2
<1>3. (hour - f) % Day = IF hour - f >= 0 THEN hour - f ELSE hour - f + Day
  BY <1>2, <1>8, ClockHours
<1>4. (t - f) % Day = IF t - f >= 0 THEN t - f ELSE t - f + Day
  BY <1>2, <1>8, ClockHours
<1>5. W!Covers(w, hour) <=> IF f > t THEN hour >= f \/ hour < t ELSE f <= hour /\ hour < t
  BY <1>1 DEF W!Covers
<1>6. PICK a \in Int, z \in Int : a = (hour - f) % Day /\ z = (t - f) % Day
  BY <1>2, <1>3, <1>4
<1>7. (IF f > t THEN hour >= f \/ hour < t ELSE f <= hour /\ hour < t) <=> a < z
  BY <1>1, <1>2, <1>3, <1>4, <1>6
<1> QED BY <1>1, <1>5, <1>6, <1>7

(* Who works now is who is enabled and inside his hours. *)
LEMMA ActiveIsInHours ==
  ASSUME ScopeTypeOK, NEW p \in DOMAIN wConfig.providers
  PROVE  W!IsActive(p) <=> wConfig.providers[p].enabled /\ W!InHours(p, wNow)
<1> DEFINE w == wConfig.providers[p].window
<1>1. CASE w = W!Always BY <1>1 DEF W!IsActive, W!InHours
<1>2. CASE w # W!Always
  <2>1. w.from # w.to
    BY <1>2 DEF ScopeTypeOK, W!Valid, W!ValidProvider
  <2>2. w.from \in 0..(Day - 1) /\ w.to \in 0..(Day - 1)
    BY <1>2, ScopeAssumption DEF ScopeTypeOK
  <2>3. W!Covers(w, wNow) <=> (wNow - w.from) % Day < (w.to - w.from) % Day
    BY <2>1, <2>2, CoversIsDistance DEF ScopeTypeOK
  <2> QED BY <1>2, <2>3 DEF W!IsActive, W!InHours
<1> QED BY <1>1, <1>2

(* Of one mode: what HoursAreKept says. *)
Working(n, m, hour) ==
  {p \in DOMAIN wConfig.providers :
     /\ wConfig.providers[p].enabled /\ W!InHours(p, hour)
     /\ W!DeclaresNetwork(p, n) /\ W!ParticipatesIn(p, m)}
KeptFor(m) ==
  wBegun[m] # W!Absent =>
    \A n \in W!ScanNetworks(m) :
      IF Working(n, m, wBegun[m]) = {} \/ W!ModeTokens(wConfig, n, m) = <<>>
      THEN \A s \in wScopes[m] : s.network # n
      ELSE \E s \in wScopes[m] : s.network = n /\ s.providers = Working(n, m, wBegun[m])

LEMMA HoursOfModes == HoursAreKept <=> \A m \in W!Modes : KeptFor(m)
BY DEF HoursAreKept, W!HoursAreKept, KeptFor, Working

LEMMA HoursOfModesNext == HoursAreKept' <=> \A m \in W!Modes : KeptFor(m)'
BY DEF HoursAreKept, W!HoursAreKept, KeptFor, Working

(* What the configuration says does not change. *)
LEMMA ConfigurationStays ==
  ASSUME UNCHANGED wConfig, NEW m, NEW n, NEW hour
  PROVE  /\ W!ScanNetworks(m)' = W!ScanNetworks(m) /\ W!ModeTokens(wConfig, n, m)' = W!ModeTokens(wConfig, n, m)
         /\ Working(n, m, hour)' = Working(n, m, hour)
         /\ W!Valid(wConfig)' = W!Valid(wConfig)
<1>1. W!ScanNetworks(m)' = W!ScanNetworks(m) BY DEF W!ScanNetworks
<1>2. W!ModeTokens(wConfig, n, m)' = W!ModeTokens(wConfig, n, m) OBVIOUS
<1>3. Working(n, m, hour)' = Working(n, m, hour)
  BY DEF Working, W!InHours, W!DeclaresNetwork, W!ParticipatesIn
<1>4. W!Valid(wConfig)' = W!Valid(wConfig) OBVIOUS
<1> QED BY <1>1, <1>2, <1>3, <1>4

(* A mode whose sweep is left alone. *)
LEMMA SweepKept ==
  ASSUME NEW m, KeptFor(m), UNCHANGED wConfig, wScopes'[m] = wScopes[m],
         wBegun'[m] \in {wBegun[m], W!Absent}
  PROVE  KeptFor(m)'
<1> SUFFICES ASSUME wBegun'[m] = wBegun[m], wBegun[m] # W!Absent PROVE KeptFor(m)'
  BY DEF KeptFor, W!Absent
<1>1. ASSUME NEW n PROVE /\ W!ModeTokens(wConfig, n, m)' = W!ModeTokens(wConfig, n, m)
                         /\ Working(n, m, wBegun[m])' = Working(n, m, wBegun[m])
  BY ConfigurationStays
<1> QED BY ConfigurationStays DEF KeptFor

(* A sweep that begins. *)
LEMMA SweepBegins ==
  ASSUME ScopeTypeOK, NEW m \in W!Modes, W!Begin(m)
  PROVE  KeptFor(m)'
<1>1. /\ UNCHANGED wConfig /\ wBegun'[m] = wNow
      /\ wScopes'[m] = IF W!HasActiveProviders THEN W!Scopes(m) ELSE {}
  BY DEF W!Begin, ScopeTypeOK
<1>2. PICK hour : hour = wNow OBVIOUS
<1>3. ASSUME NEW n
      PROVE  Working(n, m, hour) = {p \in W!ActiveProviders(n) : W!ParticipatesIn(p, m)}
  BY <1>2, ActiveIsInHours DEF Working, W!ActiveProviders
<1>4. ASSUME NEW n \in W!ScanNetworks(m)
      PROVE  IF Working(n, m, hour) = {} \/ W!ModeTokens(wConfig, n, m) = <<>>
             THEN \A s \in wScopes'[m] : s.network # n
             ELSE \E s \in wScopes'[m] : s.network = n /\ s.providers = Working(n, m, hour)
  <2>1. ASSUME NEW k
        PROVE  /\ W!Build(k, m).network = k /\ W!Build(k, m).providers = Working(k, m, hour)
               /\ W!Build(k, m).tokens = W!ModeTokens(wConfig, k, m)
    BY <1>3 DEF W!Build
  <2>2. CASE Working(n, m, hour) = {} \/ W!ModeTokens(wConfig, n, m) = <<>>
    <3>1. \A s \in W!Scopes(m) : s.network # n BY <2>1, <2>2 DEF W!Scopes
    <3> QED BY <1>1, <2>2, <3>1
  <2>3. CASE Working(n, m, hour) # {} /\ W!ModeTokens(wConfig, n, m) # <<>>
    <3>1. n \in wConfig.networks BY DEF W!ScanNetworks
    <3>2. W!HasActiveProviders BY <1>3, <2>3, <3>1 DEF W!HasActiveProviders
    <3>3. W!Build(n, m) \in W!Scopes(m) BY <2>1, <2>3 DEF W!Scopes
    <3> QED BY <1>1, <2>1, <2>3, <3>2, <3>3
  <2> QED BY <2>2, <2>3
<1>5. ASSUME NEW n PROVE /\ W!ModeTokens(wConfig, n, m)' = W!ModeTokens(wConfig, n, m)
                         /\ Working(n, m, hour)' = Working(n, m, hour)
  BY <1>1, ConfigurationStays
<1> QED BY <1>1, <1>2, <1>4, <1>5, ConfigurationStays DEF KeptFor

LEMMA ScopeBegins == W!Init => ScopeInv
BY ScopeAssumption
   DEF W!Init, ScopeInv, ScopeTypeOK, HoursAreKept, W!HoursAreKept, W!Absent

LEMMA ScopeKept == ScopeInv /\ [W!Next]_scopeVars => ScopeInv'
<1> SUFFICES ASSUME ScopeInv, [W!Next]_scopeVars PROVE ScopeInv' OBVIOUS
<1>1. ScopeTypeOK /\ \A m \in W!Modes : KeptFor(m) BY HoursOfModes DEF ScopeInv
<1>2. ASSUME NEW m \in W!Modes, W!Begin(m) PROVE ScopeInv'
  <2>1. /\ UNCHANGED <<wConfig, wNow>> /\ wBegun' = [wBegun EXCEPT ![m] = wNow]
        /\ \E x : wScopes' = [wScopes EXCEPT ![m] = x]
    BY <1>2 DEF W!Begin
  <2>2. ScopeTypeOK' BY <1>1, <2>1 DEF ScopeTypeOK
  <2>3. ASSUME NEW k \in W!Modes, k # m PROVE KeptFor(k)'
    BY <1>1, <2>1, <2>3, SweepKept DEF ScopeTypeOK
  <2>4. KeptFor(m)' BY <1>1, <1>2, SweepBegins
  <2> QED BY <2>2, <2>3, <2>4, HoursOfModesNext DEF ScopeInv
<1>3. ASSUME NEW m \in W!Modes, W!End(m) PROVE ScopeInv'
  <2>1. /\ UNCHANGED <<wConfig, wNow>> /\ wBegun' = [wBegun EXCEPT ![m] = W!Absent]
        /\ wScopes' = [wScopes EXCEPT ![m] = {}]
    BY <1>3 DEF W!End
  <2>2. ScopeTypeOK' BY <1>1, <2>1 DEF ScopeTypeOK
  <2>3. ASSUME NEW k \in W!Modes, k # m PROVE KeptFor(k)'
    BY <1>1, <2>1, <2>3, SweepKept DEF ScopeTypeOK
  <2>4. KeptFor(m)' BY <1>1, <2>1 DEF KeptFor, ScopeTypeOK, W!Absent
  <2> QED BY <2>2, <2>3, <2>4, HoursOfModesNext DEF ScopeInv
<1>4. CASE W!Tick
  <2>1. /\ UNCHANGED <<wConfig, wScopes>> /\ wNow' = (wNow + 1) % Day
        /\ wBegun' = [m \in W!Modes |-> IF wScopes[m] = {} THEN W!Absent ELSE wBegun[m]]
    BY <1>4 DEF W!Tick
  <2>2. wNow' \in 0..(Day - 1)
    <3>1. Day \in Nat \ {0} /\ wNow + 1 \in Int BY <1>1, ScopeAssumption DEF ScopeTypeOK
    <3> QED BY <2>1, <3>1
  <2>3. ScopeTypeOK' BY <1>1, <2>1, <2>2 DEF ScopeTypeOK
  <2>4. ASSUME NEW k \in W!Modes PROVE KeptFor(k)'
    BY <1>1, <2>1, SweepKept
  <2> QED BY <2>3, <2>4, HoursOfModesNext DEF ScopeInv
<1>5. CASE UNCHANGED scopeVars
  <2>1. UNCHANGED <<wConfig, wNow, wScopes, wBegun>> BY <1>5 DEF scopeVars
  <2>2. ScopeTypeOK' BY <1>1, <2>1 DEF ScopeTypeOK
  <2>3. ASSUME NEW k \in W!Modes PROVE KeptFor(k)' BY <1>1, <2>1, SweepKept
  <2> QED BY <2>2, <2>3, HoursOfModesNext DEF ScopeInv
<1> QED BY <1>2, <1>3, <1>4, <1>5 DEF W!Next

LEMMA ScopeSteps == [AnswersNext]_all => [W!Next]_scopeVars
BY DEF AnswersNext, OthersStill, Still, all

LEMMA ScopeHolds == AnswersSpec => []ScopeInv
<1>1. AnswersInit => ScopeInv BY ScopeBegins DEF AnswersInit
<1>2. ScopeInv /\ [AnswersNext]_all => ScopeInv' BY ScopeSteps, ScopeKept
<1> QED BY <1>1, <1>2, PTL DEF AnswersSpec

(* A sweep asks those providers that are inside their hours when it begins,  *)
(* on whichever side of midnight, and no others: for any length of the day   *)
(* and any configuration (DailyWindow.contains, ScopeBuilder.build).         *)
THEOREM HoursStayKept == AnswersSpec => []HoursAreKept
<1>1. ScopeInv => HoursAreKept BY DEF ScopeInv
<1> QED BY <1>1, ScopeHolds, PTL

(***************************************************************************)
(* The selection                                                            *)
(***************************************************************************)
LEMMA SameSelectionCount ==
  \A X : S!Cardinality(X) = Cardinality(X) /\ S!IsFiniteSet(X) = IsFiniteSet(X)
BY DEF Cardinality, S!Cardinality, IsFiniteSet, S!IsFiniteSet

(* R compares any two elements of X and is an order. *)
Orders(R, X) ==
  /\ \A x, y \in X : x # y => <<x, y>> \in R \/ <<y, x>> \in R
  /\ \A x \in X : <<x, x>> \notin R
  /\ \A x, y, z \in X : <<x, y>> \in R /\ <<y, z>> \in R => <<x, z>> \in R

Ascends(s, R) == \A i, j \in DOMAIN s : i < j => <<s[i], s[j]>> \in R

(* A finite set can be sorted: an element's place is how many come before it. *)
LEMMA CanBeSorted ==
  ASSUME NEW X, IsFiniteSet(X), NEW R, Orders(R, X)
  PROVE  \E s \in S!SetToSeqs(X) : Ascends(s, R)
<1> DEFINE n == Cardinality(X)
           Less(x) == {y \in X : <<y, x>> \in R}
           Place == [x \in X |-> Cardinality(Less(x)) + 1]
<1>1. n \in Nat BY FS_CardinalityType
<1>2. ASSUME NEW x \in X
      PROVE  IsFiniteSet(Less(x)) /\ Cardinality(Less(x)) \in Nat /\ Cardinality(Less(x)) < n
  <2>1. Less(x) \in SUBSET X /\ Less(x) # X BY DEF Orders
  <2>2. IsFiniteSet(Less(x)) /\ Cardinality(Less(x)) <= n /\ Cardinality(Less(x)) # n
    BY <2>1, FS_Subset
  <2>3. Cardinality(Less(x)) \in Nat BY <2>2, FS_CardinalityType
  <2> QED BY <1>1, <2>2, <2>3
<1>3. Place \in [X -> 1..n]
  <2>1. \A x \in X : Cardinality(Less(x)) + 1 \in 1..n
    <3> TAKE x \in X
    <3> HIDE DEF n, Less
    <3> QED BY <1>1, <1>2
  <2> HIDE DEF n, Less
  <2> QED BY <2>1
<1>4. ASSUME NEW x \in X, NEW y \in X, <<x, y>> \in R PROVE Place[x] < Place[y]
  <2>1. Less(x) \in SUBSET Less(y) /\ x \in Less(y) /\ x \notin Less(x) BY <1>4 DEF Orders
  <2>2. Cardinality(Less(x)) <= Cardinality(Less(y)) /\ Cardinality(Less(x)) # Cardinality(Less(y))
    BY <1>2, <2>1, FS_Subset
  <2> HIDE DEF Less
  <2> QED BY <1>2, <2>2
<1>5. ASSUME NEW x \in X, NEW y \in X, Place[x] = Place[y] PROVE x = y
  <2>1. Place[x] \in Int /\ Place[y] \in Int
    <3> HIDE DEF Place, n
    <3> QED BY <1>3
  <2> HIDE DEF Place, Less, n
  <2>2. ~(<<x, y>> \in R) /\ ~(<<y, x>> \in R) BY <1>4, <1>5, <2>1
  <2> QED BY <2>2 DEF Orders
<1> HIDE DEF Place, n, Less
<1>6. Place \in Injection(X, 1..n) BY <1>3, <1>5 DEF Injection, IsInjective
<1>7. IsFiniteSet(1..n) /\ Cardinality(1..n) = n BY <1>1, FS_Interval
<1>8. Place \in Surjection(X, 1..n) BY <1>6, <1>7, FS_Injection DEF n
<1> DEFINE s == [i \in 1..n |-> CHOOSE x \in X : Place[x] = i]
<1>9. \A i \in 1..n : s[i] \in X /\ Place[s[i]] = i BY <1>8 DEF Surjection
<1>10. s \in S!SetToSeqs(X)
  <2>1. s \in [1..n -> X] /\ \A i, j \in 1..n : i # j => s[i] # s[j] BY <1>9
  <2> HIDE DEF s
  <2> QED BY <2>1, SameSelectionCount DEF S!SetToSeqs, n
<1>11. Ascends(s, R)
  <2> SUFFICES ASSUME NEW i \in DOMAIN s, NEW j \in DOMAIN s, i < j
               PROVE  <<s[i], s[j]>> \in R
    BY DEF Ascends
  <2>1. i \in 1..n /\ j \in 1..n OBVIOUS
  <2> HIDE DEF s
  <2>2. s[i] \in X /\ s[j] \in X /\ Place[s[i]] = i /\ Place[s[j]] = j BY <1>9, <2>1
  <2>3. i \in Int /\ j \in Int BY <2>1
  <2>4. s[i] # s[j] /\ ~(<<s[j], s[i]>> \in R) BY <1>4, <2>2, <2>3
  <2> QED BY <2>2, <2>4 DEF Orders
<1> QED BY <1>10, <1>11

(* Such a sequence leaves nothing out. *)
LEMMA NothingIsLeftOut ==
  ASSUME NEW X, IsFiniteSet(X), NEW s \in S!SetToSeqs(X)
  PROVE  s \in Seq(X) /\ \A x \in X : \E i \in DOMAIN s : s[i] = x
<1> DEFINE n == Cardinality(X)
<1>1. n \in Nat BY FS_CardinalityType
<1>2. s \in [1..n -> X] /\ \A i, j \in 1..n : i # j => s[i] # s[j]
  BY SameSelectionCount DEF S!SetToSeqs
<1> HIDE DEF n
<1>3. s \in Injection(1..n, X) BY <1>2 DEF Injection, IsInjective
<1>4. IsFiniteSet(1..n) /\ Cardinality(1..n) = n BY <1>1, FS_Interval
<1>5. s \in Surjection(1..n, X) BY <1>3, <1>4, FS_Injection DEF n
<1>6. s \in Seq(X) BY <1>1, <1>2
<1> QED BY <1>5, <1>6 DEF Surjection

(* A finite set of numbers has a greatest. *)
LEMMA GreatestIs ==
  ASSUME NEW X, X \subseteq Int, IsFiniteSet(X), X # {}
  PROVE  S!Max(X) \in X /\ \A x \in X : S!Max(X) >= x
<1> DEFINE R == {p \in Int \X Int : p[1] > p[2]}
<1>1. Orders(R, X) BY DEF Orders
<1>2. PICK s \in S!SetToSeqs(X) : Ascends(s, R) BY <1>1, CanBeSorted
<1> HIDE DEF R
<1>3. s \in Seq(X) /\ \A x \in X : \E i \in DOMAIN s : s[i] = x BY NothingIsLeftOut
<1>4. 1 \in DOMAIN s /\ \A i \in DOMAIN s : i = 1 \/ 1 < i
  <2>1. Len(s) \in Nat /\ DOMAIN s = 1..Len(s) BY <1>3
  <2>2. DOMAIN s # {} BY <1>3
  <2> QED BY <2>1, <2>2
<1>5. s[1] \in X /\ \A x \in X : s[1] >= x
  <2>1. s[1] \in X BY <1>3, <1>4
  <2>2. ASSUME NEW x \in X PROVE s[1] >= x
    <3>1. PICK i \in DOMAIN s : s[i] = x BY <1>3
    <3>2. CASE i = 1 BY <2>1, <3>1, <3>2
    <3>3. CASE i # 1
      <4>1. <<s[1], s[i]>> \in R BY <1>2, <1>4, <3>3 DEF Ascends
      <4> QED BY <3>1, <4>1 DEF R
    <3> QED BY <3>2, <3>3
  <2> QED BY <2>1, <2>2
<1>6. \E m \in X : \A x \in X : m >= x BY <1>5
<1> QED BY <1>6 DEF S!Max

(***************************************************************************)
(* Lemmas: the keys, and the order that they make                           *)
(***************************************************************************)
LEMMA ResultsAre ==
  /\ \A i \in DOMAIN Results :
       /\ i \in Nat /\ Results[i].route \in Int /\ Results[i].amount \in Nat \ {0}
       /\ S!Profit(i) \in Int /\ S!Roi(i) \in Int
  /\ IsFiniteSet(DOMAIN Results)
<1>1. Len(Results) \in Nat /\ DOMAIN Results = 1..Len(Results) BY SelectionAssumption
<1>2. \A i \in DOMAIN Results :
        Results[i] \in [route : Int, amount : Nat \ {0}, profit : Int, passed : BOOLEAN]
  <2> DEFINE Known == [route : Int, amount : Nat \ {0}, profit : Int, passed : BOOLEAN]
  <2>1. Results \in Seq(Known) BY SelectionAssumption
  <2> HIDE DEF Known
  <2>2. \A i \in DOMAIN Results : Results[i] \in Known BY <2>1
  <2> QED BY <2>2 DEF Known
<1>3. \A p \in Int, a \in Nat \ {0} : (p * 100) \div a \in Int OBVIOUS
<1>4. IsFiniteSet(DOMAIN Results) BY <1>1, FS_Interval
<1>5. ASSUME NEW i \in DOMAIN Results
      PROVE  /\ i \in Nat /\ Results[i].route \in Int /\ Results[i].amount \in Nat \ {0}
             /\ S!Profit(i) \in Int /\ S!Roi(i) \in Int
  <2>1. /\ Results[i].route \in Int /\ Results[i].amount \in Nat \ {0}
        /\ Results[i].profit \in Int
    BY <1>2
  <2>2. S!Roi(i) \in Int BY <1>3, <2>1 DEF S!Roi
  <2> QED BY <1>1, <2>1, <2>2 DEF S!Profit
<1> QED BY <1>4, <1>5

LEMMA GroupIs ==
  ASSUME NEW cs \in SUBSET DOMAIN Results, NEW g \in S!Groups(cs)
  PROVE  /\ g = S!Group(cs, g.route) /\ g.route \in Int
         /\ g.members = {i \in cs : Results[i].route = g.route}
         /\ g.members # {} /\ g.members \subseteq DOMAIN Results
         /\ IsFiniteSet(g.members)
<1>1. PICK k \in cs : g = S!Group(cs, Results[k].route) BY DEF S!Groups
<1>2. g.route = Results[k].route /\ g.members = S!Members(cs, g.route)
  BY <1>1 DEF S!Group
<1>3. g.members = {i \in cs : Results[i].route = g.route}
  <2>1. ASSUME NEW i \in cs, NEW j \in cs, j < i,
               Results[i].route = g.route, Results[j].route = g.route
        PROVE  Results[j].amount # Results[i].amount
    <3>1. i \in Nat /\ j \in Nat BY ResultsAre
    <3> QED BY <2>1, <3>1, SelectionAssumption
  <2> QED BY <1>2, <2>1 DEF S!Members
<1>4. k \in g.members BY <1>2, <1>3
<1>5. IsFiniteSet(g.members)
  BY <1>3, ResultsAre, FS_Subset, g.members \in SUBSET DOMAIN Results
<1> QED BY <1>1, <1>2, <1>3, <1>4, <1>5, ResultsAre

(* The best of a group is one of its own, and none of its own is better. *)
LEMMA BestIs ==
  ASSUME NEW cs \in SUBSET DOMAIN Results, NEW g \in S!Groups(cs)
  PROVE  /\ S!BestRoi(g) \in Int /\ S!BestProfit(g) \in Int
         /\ \A i \in g.members : S!Roi(i) <= S!BestRoi(g) /\ S!Profit(i) <= S!BestProfit(g)
         /\ \E i \in g.members : S!Roi(i) = S!BestRoi(g)
         /\ \E i \in g.members : S!Profit(i) = S!BestProfit(g)
<1> DEFINE M == g.members
           X == {S!Roi(i) : i \in M}
           Y == {S!Profit(i) : i \in M}
<1>1. M # {} /\ M \subseteq DOMAIN Results /\ IsFiniteSet(M) BY GroupIs
<1>2. X \subseteq Int /\ Y \subseteq Int /\ X # {} /\ Y # {} BY <1>1, ResultsAre
<1>3. IsFiniteSet(X) /\ IsFiniteSet(Y)
  <2> DEFINE f == [i \in M |-> S!Roi(i)]
             h == [i \in M |-> S!Profit(i)]
  <2>1. f \in Surjection(M, X) /\ h \in Surjection(M, Y) BY DEF Surjection
  <2> QED BY <1>1, <2>1, FS_Surjection
<1>4. S!Max(X) \in X /\ \A x \in X : S!Max(X) >= x BY <1>2, <1>3, GreatestIs
<1>5. S!Max(Y) \in Y /\ \A y \in Y : S!Max(Y) >= y BY <1>2, <1>3, GreatestIs
<1>6. S!BestRoi(g) = S!Max(X) /\ S!BestProfit(g) = S!Max(Y) BY DEF S!BestRoi, S!BestProfit
<1>7. \A i \in M : S!Roi(i) \in X /\ S!Profit(i) \in Y OBVIOUS
<1>8. (\A x \in X : \E i \in M : x = S!Roi(i)) /\ (\A y \in Y : \E i \in M : y = S!Profit(i))
  OBVIOUS
<1> HIDE DEF X, Y
<1>9. S!Max(X) \in Int /\ S!Max(Y) \in Int BY <1>2, <1>4, <1>5
<1>10. \A i \in M : S!Roi(i) \in Int /\ S!Profit(i) \in Int BY <1>1, ResultsAre
<1> QED BY <1>4, <1>5, <1>6, <1>7, <1>8, <1>9, <1>10

(* The order of tuples, written out. *)
LEMMA BeforeIs ==
  ASSUME NEW p1 \in Int, NEW p2 \in Int, NEW p3 \in Int,
         NEW q1 \in Int, NEW q2 \in Int, NEW q3 \in Int
  PROVE  S!Before(<<p1, p2, p3>>, <<q1, q2, q3>>)
           <=> p1 < q1 \/ (p1 = q1 /\ p2 < q2) \/ (p1 = q1 /\ p2 = q2 /\ p3 < q3)
<1> DEFINE x == <<p1, p2, p3>>
           y == <<q1, q2, q3>>
           Up(i) == x[i] < y[i] /\ \A j \in 1..(i - 1) : x[j] = y[j]
<1>1. S!Before(x, y) <=> \E i \in {1, 2, 3} : Up(i)
  <2>1. DOMAIN x = {1, 2, 3} OBVIOUS
  <2> QED BY <2>1 DEF S!Before
<1>2. Up(1) <=> p1 < q1 OBVIOUS
<1>3. Up(2) <=> p1 = q1 /\ p2 < q2
  <2>1. 1..(2 - 1) = {1} OBVIOUS
  <2> QED BY <2>1
<1>4. Up(3) <=> p1 = q1 /\ p2 = q2 /\ p3 < q3
  <2>1. 1..(3 - 1) = {1, 2} OBVIOUS
  <2> QED BY <2>1
<1> HIDE DEF Up
<1> QED BY <1>1, <1>2, <1>3, <1>4

(* The key of a group, most important part first. *)
Major(g, byProfit) == IF byProfit THEN S!BestProfit(g) ELSE S!BestRoi(g)
Minor(g, byProfit) == IF byProfit THEN S!BestRoi(g) ELSE S!BestProfit(g)

LEMMA GroupBeforeIs ==
  ASSUME NEW cs \in SUBSET DOMAIN Results, NEW byProfit \in BOOLEAN,
         NEW g \in S!Groups(cs), NEW h \in S!Groups(cs)
  PROVE  /\ S!GroupBefore(g, h, byProfit)
               <=> \/ Major(g, byProfit) > Major(h, byProfit)
                   \/ /\ Major(g, byProfit) = Major(h, byProfit)
                      /\ \/ Minor(g, byProfit) > Minor(h, byProfit)
                         \/ Minor(g, byProfit) = Minor(h, byProfit) /\ g.route < h.route
         /\ Major(g, byProfit) \in Int /\ Minor(g, byProfit) \in Int
         /\ g.route \in Int /\ (g = h <=> g.route = h.route)
<1>1. /\ S!BestRoi(g) \in Int /\ S!BestProfit(g) \in Int
      /\ S!BestRoi(h) \in Int /\ S!BestProfit(h) \in Int
  BY BestIs
<1>2. g.route \in Int /\ h.route \in Int /\ (g.route = h.route => g = h) BY GroupIs
<1> DEFINE p1 == Major(g, byProfit)
           p2 == Minor(g, byProfit)
           q1 == Major(h, byProfit)
           q2 == Minor(h, byProfit)
<1>3. /\ S!GroupKey(g, byProfit) = <<-p1, -p2, g.route>>
      /\ S!GroupKey(h, byProfit) = <<-q1, -q2, h.route>>
  BY DEF S!GroupKey, Major, Minor
<1>4. p1 \in Int /\ p2 \in Int /\ q1 \in Int /\ q2 \in Int BY <1>1 DEF Major, Minor
<1> HIDE DEF p1, p2, q1, q2
<1>5. -p1 \in Int /\ -p2 \in Int /\ -q1 \in Int /\ -q2 \in Int BY <1>4
<1>6. S!Before(<<-p1, -p2, g.route>>, <<-q1, -q2, h.route>>)
        <=> -p1 < -q1 \/ (-p1 = -q1 /\ -p2 < -q2) \/ (-p1 = -q1 /\ -p2 = -q2 /\ g.route < h.route)
  BY <1>2, <1>5, BeforeIs
<1>7. S!GroupBefore(g, h, byProfit)
        <=> p1 > q1 \/ (p1 = q1 /\ (p2 > q2 \/ (p2 = q2 /\ g.route < h.route)))
  BY <1>3, <1>4, <1>6 DEF S!GroupBefore
<1> QED BY <1>2, <1>4, <1>7 DEF p1, p2, q1, q2

LEMMA GroupsAreFinite ==
  ASSUME NEW cs \in SUBSET DOMAIN Results
  PROVE  IsFiniteSet(S!Groups(cs)) /\ \A i \in cs : S!Group(cs, Results[i].route) \in S!Groups(cs)
<1> DEFINE f == [i \in cs |-> S!Group(cs, Results[i].route)]
<1>1. f \in Surjection(cs, S!Groups(cs)) BY DEF Surjection, S!Groups
<1>2. IsFiniteSet(cs) BY ResultsAre, FS_Subset
<1> QED BY <1>1, <1>2, FS_Surjection DEF S!Groups

LEMMA GroupsAreOrdered ==
  ASSUME NEW cs \in SUBSET DOMAIN Results, NEW byProfit \in BOOLEAN,
         NEW g \in S!Groups(cs), NEW h \in S!Groups(cs), NEW k \in S!Groups(cs)
  PROVE  /\ g # h => S!GroupBefore(g, h, byProfit) \/ S!GroupBefore(h, g, byProfit)
         /\ ~S!GroupBefore(g, g, byProfit)
         /\ S!GroupBefore(g, h, byProfit) /\ S!GroupBefore(h, k, byProfit)
              => S!GroupBefore(g, k, byProfit)
BY GroupBeforeIs

(* What an order that compares the elements of X makes of sorting them. *)
LEMMA SortedIs ==
  ASSUME NEW X, IsFiniteSet(X), NEW R, Orders(R, X)
  PROVE  /\ \E s \in S!SetToSeqs(X) : Ascends(s, R)
         /\ \A s \in S!SetToSeqs(X) :
              /\ s \in Seq(X)
              /\ \A x \in X : \E i \in DOMAIN s : s[i] = x
BY CanBeSorted, NothingIsLeftOut

(* rank_groups: all the groups, in their order. *)
LEMMA GroupsAreRanked ==
  ASSUME NEW cs \in SUBSET DOMAIN Results, NEW byProfit \in BOOLEAN,
         NEW s, s = S!RankGroups(S!Groups(cs), byProfit)
  PROVE  /\ s \in Seq(S!Groups(cs))
         /\ \A g \in S!Groups(cs) : \E i \in DOMAIN s : s[i] = g
         /\ \A i, j \in DOMAIN s : i < j => S!GroupBefore(s[i], s[j], byProfit)
<1> DEFINE X == S!Groups(cs)
           R == {p \in X \X X : S!GroupBefore(p[1], p[2], byProfit)}
<1>1. IsFiniteSet(X) BY GroupsAreFinite
<1>2. \A g, h \in X : <<g, h>> \in R <=> S!GroupBefore(g, h, byProfit) OBVIOUS
<1> HIDE DEF X, R
<1>3. Orders(R, X)
  <2>1. \A g, h, k \in X :
          /\ g # h => S!GroupBefore(g, h, byProfit) \/ S!GroupBefore(h, g, byProfit)
          /\ ~S!GroupBefore(g, g, byProfit)
          /\ S!GroupBefore(g, h, byProfit) /\ S!GroupBefore(h, k, byProfit)
               => S!GroupBefore(g, k, byProfit)
    BY GroupsAreOrdered DEF X
  <2> QED BY <1>2, <2>1 DEF Orders
<1>4. PICK t \in S!SetToSeqs(X) : Ascends(t, R) BY <1>1, <1>3, SortedIs
<1>5. \A i \in DOMAIN t : t[i] \in X BY DEF S!SetToSeqs
<1>6. \A i, j \in DOMAIN t : i < j => S!GroupBefore(t[i], t[j], byProfit)
  BY <1>2, <1>4, <1>5 DEF Ascends
<1>7. /\ s \in S!SetToSeqs(X)
      /\ \A i, j \in DOMAIN s : i < j => S!GroupBefore(s[i], s[j], byProfit)
  BY <1>4, <1>6 DEF S!RankGroups, S!InOrder, X
<1> QED BY <1>1, <1>3, <1>7, SortedIs DEF X

(* The order of the candidates of one group. *)
EarnsMore(i, j) == S!Before(S!CandidateKey(i), S!CandidateKey(j))

LEMMA EarnsMoreIs ==
  ASSUME NEW i \in DOMAIN Results, NEW j \in DOMAIN Results
  PROVE  EarnsMore(i, j)
           <=> \/ S!Profit(i) > S!Profit(j)
               \/ /\ S!Profit(i) = S!Profit(j)
                  /\ \/ S!Roi(i) > S!Roi(j)
                     \/ S!Roi(i) = S!Roi(j) /\ Results[i].amount < Results[j].amount
<1> DEFINE p1 == S!Profit(i)
           p2 == S!Roi(i)
           p3 == Results[i].amount
           q1 == S!Profit(j)
           q2 == S!Roi(j)
           q3 == Results[j].amount
<1>1. p1 \in Int /\ p2 \in Int /\ p3 \in Int /\ q1 \in Int /\ q2 \in Int /\ q3 \in Int BY ResultsAre
<1>2. S!CandidateKey(i) = <<-p1, -p2, p3>> /\ S!CandidateKey(j) = <<-q1, -q2, q3>>
  BY DEF S!CandidateKey
<1> HIDE DEF p1, p2, p3, q1, q2, q3
<1>3. -p1 \in Int /\ -p2 \in Int /\ -q1 \in Int /\ -q2 \in Int BY <1>1
<1>4. S!Before(<<-p1, -p2, p3>>, <<-q1, -q2, q3>>)
        <=> -p1 < -q1 \/ (-p1 = -q1 /\ -p2 < -q2) \/ (-p1 = -q1 /\ -p2 = -q2 /\ p3 < q3)
  BY <1>1, <1>3, BeforeIs
<1>5. EarnsMore(i, j) <=> p1 > q1 \/ (p1 = q1 /\ (p2 > q2 \/ (p2 = q2 /\ p3 < q3)))
  BY <1>1, <1>2, <1>4 DEF EarnsMore
<1> QED BY <1>5 DEF p1, p2, p3, q1, q2, q3

Inner(i, j, byProfit) == IF byProfit THEN EarnsMore(i, j) ELSE i < j

LEMMA MembersAreOrdered ==
  ASSUME NEW byProfit \in BOOLEAN, NEW i \in DOMAIN Results, NEW j \in DOMAIN Results,
         NEW k \in DOMAIN Results
  PROVE  /\ i # j /\ Results[i].route = Results[j].route
              => Inner(i, j, byProfit) \/ Inner(j, i, byProfit)
         /\ ~Inner(i, i, byProfit)
         /\ Inner(i, j, byProfit) /\ Inner(j, k, byProfit) => Inner(i, k, byProfit)
<1>1. /\ i \in Nat /\ j \in Nat /\ k \in Nat
      /\ S!Profit(i) \in Int /\ S!Roi(i) \in Int /\ Results[i].amount \in Int
      /\ S!Profit(j) \in Int /\ S!Roi(j) \in Int /\ Results[j].amount \in Int
      /\ S!Profit(k) \in Int /\ S!Roi(k) \in Int /\ Results[k].amount \in Int
  BY ResultsAre
<1>2. i # j /\ Results[i].route = Results[j].route => Results[i].amount # Results[j].amount
  BY SelectionAssumption
<1>3. /\ i # j /\ Results[i].route = Results[j].route => EarnsMore(i, j) \/ EarnsMore(j, i)
      /\ ~EarnsMore(i, i)
      /\ EarnsMore(i, j) /\ EarnsMore(j, k) => EarnsMore(i, k)
  BY <1>1, <1>2, EarnsMoreIs
<1>4. (i # j => i < j \/ j < i) /\ ~(i < i) /\ (i < j /\ j < k => i < k) BY <1>1
<1> QED BY <1>3, <1>4 DEF Inner

(* rank_candidates: all the candidates, those of the first group first. *)
LEMMA CandidatesAreRanked ==
  ASSUME NEW cs \in SUBSET DOMAIN Results, NEW byProfit \in BOOLEAN,
         NEW s, s = S!RankCandidates(cs, byProfit)
  PROVE  /\ s \in Seq(cs)
         /\ \A c \in cs : \E i \in DOMAIN s : s[i] = c
         /\ \A i, j \in DOMAIN s : i < j =>
              S!CandidateBefore(S!Group(cs, Results[s[i]].route), s[i],
                                S!Group(cs, Results[s[j]].route), s[j], byProfit)
<1> DEFINE G(i) == S!Group(cs, Results[i].route)
           Goes(i, j) == S!CandidateBefore(G(i), i, G(j), j, byProfit)
           R == {p \in cs \X cs : Goes(p[1], p[2])}
<1>1. IsFiniteSet(cs) BY ResultsAre, FS_Subset
<1>2. \A i \in cs : G(i) \in S!Groups(cs) /\ G(i).route = Results[i].route
  BY GroupsAreFinite DEF S!Group
<1>3. UNION {g.members : g \in S!Groups(cs)} = cs
  <2>1. \A g \in S!Groups(cs) : g.members \subseteq cs BY GroupIs
  <2>2. \A i \in cs : i \in G(i).members BY <1>2, GroupIs
  <2> QED BY <1>2, <2>1, <2>2
<1>4. \A i, j \in cs : <<i, j>> \in R <=> Goes(i, j) OBVIOUS
<1>5. \A i, j \in cs :
        Goes(i, j) <=> IF G(i) # G(j) THEN S!GroupBefore(G(i), G(j), byProfit)
                       ELSE Inner(i, j, byProfit)
  BY DEF S!CandidateBefore, Inner, EarnsMore
<1> HIDE DEF G, R, Goes
<1>6. Orders(R, cs)
  <2>1. \A i, j \in cs : i # j => Goes(i, j) \/ Goes(j, i)
    <3> SUFFICES ASSUME NEW i \in cs, NEW j \in cs, i # j PROVE Goes(i, j) \/ Goes(j, i)
      OBVIOUS
    <3>1. CASE G(i) # G(j) BY <1>2, <1>5, <3>1, GroupsAreOrdered
    <3>2. CASE G(i) = G(j)
      <4>1. Results[i].route = Results[j].route BY <1>2, <3>2
      <4> QED BY <1>5, <3>2, <4>1, MembersAreOrdered
    <3> QED BY <3>1, <3>2
  <2>2. \A i \in cs : ~Goes(i, i) BY <1>5, MembersAreOrdered
  <2>3. \A i, j, k \in cs : Goes(i, j) /\ Goes(j, k) => Goes(i, k)
    <3> SUFFICES ASSUME NEW i \in cs, NEW j \in cs, NEW k \in cs, Goes(i, j), Goes(j, k)
                 PROVE  Goes(i, k)
      OBVIOUS
    <3>1. /\ IF G(i) # G(j) THEN S!GroupBefore(G(i), G(j), byProfit) ELSE Inner(i, j, byProfit)
          /\ IF G(j) # G(k) THEN S!GroupBefore(G(j), G(k), byProfit) ELSE Inner(j, k, byProfit)
      BY <1>5
    <3>2. /\ S!GroupBefore(G(i), G(j), byProfit) /\ S!GroupBefore(G(j), G(k), byProfit)
               => S!GroupBefore(G(i), G(k), byProfit)
          /\ ~S!GroupBefore(G(i), G(i), byProfit)
      BY <1>2, GroupsAreOrdered
    <3>3. Inner(i, j, byProfit) /\ Inner(j, k, byProfit) => Inner(i, k, byProfit)
      BY MembersAreOrdered
    <3> QED BY <1>5, <3>1, <3>2, <3>3
  <2> QED BY <1>4, <2>1, <2>2, <2>3 DEF Orders
<1>7. PICK t \in S!SetToSeqs(cs) : Ascends(t, R) BY <1>1, <1>6, SortedIs
<1>8. \A i \in DOMAIN t : t[i] \in cs BY DEF S!SetToSeqs
<1>9. \A i, j \in DOMAIN t : i < j => Goes(t[i], t[j]) BY <1>4, <1>7, <1>8 DEF Ascends
<1>10. /\ s \in S!SetToSeqs(cs)
       /\ \A i, j \in DOMAIN s : i < j => Goes(s[i], s[j])
  BY <1>3, <1>7, <1>9 DEF S!RankCandidates, S!InOrder, Goes, G
<1> QED BY <1>1, <1>6, <1>10, SortedIs DEF Goes, G

(***************************************************************************)
(* The invariant                                                            *)
(***************************************************************************)
Ours == S!Groups(S!Passing)
Gone(g) == g.route \in S!CreatedRoutes \cup sStored \cup sFailed

SelectionTypes ==
  /\ sMode \in {"ur", "ann"} /\ sStep \in {"collected", "choosing", "ended"}
  /\ sCandidates \in SUBSET DOMAIN Results
  /\ \E T : sCreated \in Seq(T)
  /\ sSeen \subseteq sStored
  /\ sStep = "collected" => sCreated = <<>> /\ sRanked = <<>>
  /\ sStep = "ended" => sLeft = <<>> \/ S!Full

(* What is left is in order; a group that is not left was dealt with; what   *)
(* was created comes before all that is left.                               *)
BestAreFirst ==
  sMode = "ur" /\ sStep # "collected" =>
    /\ sLeft \in Seq(Ours)
    /\ \A i, j \in DOMAIN sLeft : i < j => S!GroupBefore(sLeft[i], sLeft[j], FALSE)
    /\ \A g \in Ours : Gone(g) \/ \E i \in DOMAIN sLeft : sLeft[i] = g
    /\ \A r \in S!CreatedRoutes :
         \E g \in Ours : g.route = r /\ \A i \in DOMAIN sLeft : S!GroupBefore(g, sLeft[i], FALSE)

SelectionInv == SelectionTypes /\ BestAreFirst /\ S!FirstEarnsMost

LEMMA PassingAre == SelectionTypes => S!Passing \in SUBSET DOMAIN Results
BY DEF SelectionTypes, S!Passing

(* A group is looked at, and with that it is dealt with. *)
LEMMA HeadIsTaken ==
  ASSUME SelectionTypes, BestAreFirst, sStep = "choosing", sLeft # <<>>,
         UNCHANGED <<sMode, sStep, sCandidates>>, sLeft' = Tail(sLeft),
         sStored \subseteq sStored', sFailed \subseteq sFailed',
         S!CreatedRoutes \subseteq S!CreatedRoutes',
         NEW h, h = Head(sLeft), Gone(h)',
         S!CreatedRoutes' \subseteq S!CreatedRoutes \cup {h.route}
  PROVE  BestAreFirst'
<1> SUFFICES ASSUME sMode = "ur"
             PROVE  /\ sLeft' \in Seq(Ours')
                    /\ \A i, j \in DOMAIN sLeft' : i < j => S!GroupBefore(sLeft'[i], sLeft'[j], FALSE)
                    /\ \A g \in Ours' : Gone(g)' \/ \E i \in DOMAIN sLeft' : sLeft'[i] = g
                    /\ \A r \in S!CreatedRoutes' :
                         \E g \in Ours' : g.route = r
                                       /\ \A i \in DOMAIN sLeft' : S!GroupBefore(g, sLeft'[i], FALSE)
  BY DEF BestAreFirst
<1>1. /\ sLeft \in Seq(Ours)
      /\ \A i, j \in DOMAIN sLeft : i < j => S!GroupBefore(sLeft[i], sLeft[j], FALSE)
      /\ \A g \in Ours : Gone(g) \/ \E i \in DOMAIN sLeft : sLeft[i] = g
      /\ \A r \in S!CreatedRoutes :
           \E g \in Ours : g.route = r /\ \A i \in DOMAIN sLeft : S!GroupBefore(g, sLeft[i], FALSE)
  BY DEF BestAreFirst
<1>2. Ours' = Ours BY DEF Ours, S!Passing
<1>3. /\ sLeft' \in Seq(Ours)
      /\ \A i \in DOMAIN sLeft' : i + 1 \in DOMAIN sLeft /\ sLeft'[i] = sLeft[i + 1]
      /\ \A i \in DOMAIN sLeft : i # 1 => i - 1 \in DOMAIN sLeft' /\ sLeft'[i - 1] = sLeft[i]
      /\ 1 \in DOMAIN sLeft /\ h = sLeft[1] /\ h \in Ours
      /\ \A i \in DOMAIN sLeft' : i \in Nat /\ 1 < i + 1
  BY <1>1
<1>4. ASSUME NEW i \in DOMAIN sLeft', NEW j \in DOMAIN sLeft', i < j
      PROVE  S!GroupBefore(sLeft'[i], sLeft'[j], FALSE)
  <2>1. /\ i + 1 < j + 1 /\ i + 1 \in DOMAIN sLeft /\ j + 1 \in DOMAIN sLeft
        /\ sLeft'[i] = sLeft[i + 1] /\ sLeft'[j] = sLeft[j + 1]
    BY <1>3, <1>4
  <2>2. S!GroupBefore(sLeft[i + 1], sLeft[j + 1], FALSE)
    BY <1>1, <2>1
  <2> QED BY <2>1, <2>2
<1>5. ASSUME NEW g \in Ours PROVE Gone(g)' \/ \E i \in DOMAIN sLeft' : sLeft'[i] = g
  <2>1. CASE Gone(g) BY <2>1 DEF Gone
  <2>2. ASSUME NEW i \in DOMAIN sLeft, sLeft[i] = g
        PROVE  Gone(g)' \/ \E j \in DOMAIN sLeft' : sLeft'[j] = g
    <3>1. CASE i = 1
      <4>1. g = h BY <1>3, <2>2, <3>1
      <4> QED BY <4>1
    <3>2. CASE i # 1 BY <1>3, <2>2, <3>2
    <3> QED BY <3>1, <3>2
  <2> QED BY <1>1, <2>1, <2>2
<1>6. ASSUME NEW r \in S!CreatedRoutes'
      PROVE  \E g \in Ours : g.route = r
                            /\ \A i \in DOMAIN sLeft' : S!GroupBefore(g, sLeft'[i], FALSE)
  <2>1. CASE r \in S!CreatedRoutes
    <3>1. PICK g \in Ours : g.route = r /\ \A i \in DOMAIN sLeft : S!GroupBefore(g, sLeft[i], FALSE)
      BY <1>1, <2>1
    <3>2. \A i \in DOMAIN sLeft' : S!GroupBefore(g, sLeft'[i], FALSE) BY <1>3, <3>1
    <3> QED BY <3>1, <3>2
  <2>2. CASE r = h.route
    <3>1. ASSUME NEW i \in DOMAIN sLeft' PROVE S!GroupBefore(h, sLeft'[i], FALSE)
      BY <1>1, <1>3
    <3> QED BY <1>3, <2>2, <3>1
  <2> QED BY <2>1, <2>2
<1> QED BY <1>2, <1>3, <1>4, <1>5, <1>6

LEMMA FirstStaysFirst ==
  ASSUME S!FirstEarnsMost, UNCHANGED <<sMode, sCandidates, sRanked>> PROVE S!FirstEarnsMost'
BY DEF S!FirstEarnsMost, S!Passing

(* The first of the ranked candidates is of the first group, and its first.  *)
LEMMA FirstIsBest ==
  ASSUME NEW cs \in SUBSET DOMAIN Results, NEW byProfit \in BOOLEAN,
         NEW s, s = S!RankCandidates(cs, byProfit), NEW c \in cs
  PROVE  /\ s[1] \in cs
         /\ c # s[1] =>
              IF Results[c].route = Results[s[1]].route THEN Inner(s[1], c, byProfit)
              ELSE Major(S!Group(cs, Results[s[1]].route), byProfit)
                     >= Major(S!Group(cs, Results[c].route), byProfit)
<1> DEFINE G(i) == S!Group(cs, Results[i].route)
<1>1. /\ s \in Seq(cs)
      /\ \A x \in cs : \E i \in DOMAIN s : s[i] = x
      /\ \A i, j \in DOMAIN s :
           i < j => S!CandidateBefore(G(s[i]), s[i], G(s[j]), s[j], byProfit)
  BY CandidatesAreRanked
<1>2. 1 \in DOMAIN s /\ s[1] \in cs /\ \A i \in DOMAIN s : i = 1 \/ 1 < i
  <2>1. Len(s) \in Nat /\ DOMAIN s = 1..Len(s) /\ DOMAIN s # {} BY <1>1
  <2>2. 1 \in DOMAIN s /\ \A i \in DOMAIN s : i = 1 \/ 1 < i BY <2>1
  <2> QED BY <1>1, <2>2
<1>3. \A i \in cs : G(i) \in S!Groups(cs) /\ G(i).route = Results[i].route
  BY GroupsAreFinite DEF S!Group
<1>4. ASSUME c # s[1] PROVE S!CandidateBefore(G(s[1]), s[1], G(c), c, byProfit)
  <2>1. PICK i \in DOMAIN s : s[i] = c BY <1>1
  <2> QED BY <1>1, <1>2, <1>4, <2>1
<1>5. ASSUME c # s[1], G(c) = G(s[1]) PROVE Inner(s[1], c, byProfit)
  BY <1>4, <1>5 DEF S!CandidateBefore, Inner, EarnsMore
<1>6. ASSUME c # s[1], G(c) # G(s[1]) PROVE Major(G(s[1]), byProfit) >= Major(G(c), byProfit)
  <2>1. S!GroupBefore(G(s[1]), G(c), byProfit) BY <1>4, <1>6 DEF S!CandidateBefore
  <2>2. G(s[1]) \in S!Groups(cs) /\ G(c) \in S!Groups(cs) BY <1>2, <1>3
  <2> QED BY <2>1, <2>2, GroupBeforeIs
<1>7. Results[c].route = Results[s[1]].route => G(c) = G(s[1]) OBVIOUS
<1>8. G(c) = G(s[1]) => Results[c].route = Results[s[1]].route BY <1>2, <1>3
<1> QED BY <1>2, <1>5, <1>6, <1>7, <1>8

LEMMA FirstCandidate ==
  ASSUME NEW cs \in SUBSET DOMAIN Results, NEW s, s = S!RankCandidates(cs, TRUE),
         NEW c \in cs
  PROVE  S!Profit(c) <= S!Profit(s[1])
<1> DEFINE f == s[1]
           G(i) == S!Group(cs, Results[i].route)
<1>1. /\ f \in cs
      /\ \A x \in cs : x # f =>
           IF Results[x].route = Results[f].route THEN Inner(f, x, TRUE)
           ELSE Major(G(f), TRUE) >= Major(G(x), TRUE)
  BY FirstIsBest, Zenon
<1>2. \A x \in cs : x # f =>
        IF Results[x].route = Results[f].route THEN EarnsMore(f, x)
        ELSE S!BestProfit(G(f)) >= S!BestProfit(G(x))
  BY <1>1, Zenon DEF Inner, Major
<1> HIDE DEF f
<1>3. \A i \in cs : G(i) \in S!Groups(cs) /\ G(i).route = Results[i].route
  BY GroupsAreFinite DEF S!Group
<1>4. \A x \in cs : S!Profit(x) \in Int BY ResultsAre
<1>5. ASSUME NEW x \in cs, Results[x].route = Results[f].route
      PROVE  S!Profit(x) <= S!Profit(f)
  <2>1. CASE x = f BY <1>4, <2>1
  <2>2. CASE x # f
    <3>1. EarnsMore(f, x) BY <1>2, <1>5, <2>2
    <3>2. f \in DOMAIN Results /\ x \in DOMAIN Results BY <1>1
    <3> QED BY <1>1, <1>4, <3>1, <3>2, EarnsMoreIs
  <2> QED BY <2>1, <2>2
<1>6. PICK m \in G(f).members : S!Profit(m) = S!BestProfit(G(f)) BY <1>1, <1>3, BestIs
<1>7. m \in cs /\ Results[m].route = Results[f].route BY <1>1, <1>3, <1>6, GroupIs
<1>8. S!BestProfit(G(f)) <= S!Profit(f) BY <1>5, <1>6, <1>7
<1>9. CASE Results[c].route = Results[f].route BY <1>5, <1>9 DEF f
<1>10. CASE Results[c].route # Results[f].route
  <2>1. S!BestProfit(G(f)) >= S!BestProfit(G(c)) BY <1>2, <1>10
  <2>2. c \in G(c).members BY <1>3, GroupIs
  <2>3. S!Profit(c) <= S!BestProfit(G(c)) BY <1>3, <2>2, BestIs
  <2>4. S!BestProfit(G(c)) \in Int /\ S!BestProfit(G(f)) \in Int BY <1>1, <1>3, BestIs
  <2>5. S!Profit(c) \in Int /\ S!Profit(f) \in Int BY <1>1, <1>4
  <2>6. S!Profit(c) <= S!Profit(f) BY <1>8, <2>1, <2>3, <2>4, <2>5
  <2> QED BY <2>6 DEF f
<1> QED BY <1>9, <1>10

(***************************************************************************)
(* Lemmas: every step keeps the invariant                                   *)
(***************************************************************************)
LEMMA SelectionBegins == S!Init => SelectionInv
<1> SUFFICES ASSUME S!Init PROVE SelectionInv OBVIOUS
<1>1. sCreated = <<>> /\ sRanked = <<>> /\ sStep = "collected" /\ sSeen = {} BY DEF S!Init
<1>2. \E T : sCreated \in Seq(T)
  <2>1. sCreated \in Seq({}) BY <1>1
  <2> QED BY <2>1
<1>3. SelectionTypes BY <1>1, <1>2 DEF S!Init, SelectionTypes
<1> QED BY <1>1, <1>3 DEF SelectionInv, BestAreFirst, S!FirstEarnsMost

LEMMA ChooseKeeps == ASSUME SelectionInv, S!Choose PROVE SelectionInv'
<1>1. PICK cs \in SUBSET DOMAIN Results : cs = S!Passing
  BY PassingAre DEF SelectionInv
<1>2. /\ UNCHANGED <<sMode, sCandidates, sCreated, sRoom, sStored, sSeen, sFailed>>
      /\ sStep' = "choosing" /\ sStep = "collected"
      /\ sRanked' = S!RankCandidates(cs, sMode = "ann")
      /\ sLeft' = IF sMode = "ur" THEN S!RankGroups(S!Groups(cs), sMode = "ann") ELSE <<>>
  BY <1>1 DEF S!Choose
<1>3. S!Passing' = cs /\ Ours' = S!Groups(cs) BY <1>1, <1>2 DEF S!Passing, Ours
<1>4. SelectionTypes'
  <2>1. \E T : sCreated' \in Seq(T) BY <1>2 DEF SelectionInv, SelectionTypes
  <2> QED BY <1>2, <2>1 DEF SelectionInv, SelectionTypes
<1>5. S!CreatedRoutes' = {}
  <2>1. sCreated' = <<>> BY <1>2 DEF SelectionInv, SelectionTypes
  <2> QED BY <2>1 DEF S!CreatedRoutes
<1>6. ASSUME sMode = "ur" PROVE BestAreFirst'
  <2>1. (sMode = "ann") = FALSE BY <1>6
  <2>2. sLeft' = S!RankGroups(S!Groups(cs), FALSE) BY <1>2, <1>6, <2>1, Zenon
  <2>3. /\ sLeft' \in Seq(S!Groups(cs))
        /\ \A g \in S!Groups(cs) : \E i \in DOMAIN sLeft' : sLeft'[i] = g
        /\ \A i, j \in DOMAIN sLeft' : i < j => S!GroupBefore(sLeft'[i], sLeft'[j], FALSE)
    <3>1. PICK s : s = sLeft' OBVIOUS
    <3>2. /\ s \in Seq(S!Groups(cs))
          /\ \A g \in S!Groups(cs) : \E i \in DOMAIN s : s[i] = g
          /\ \A i, j \in DOMAIN s : i < j => S!GroupBefore(s[i], s[j], FALSE)
      <4> DEFINE Ranked(p) == /\ s \in Seq(S!Groups(cs))
                              /\ \A g \in S!Groups(cs) : \E i \in DOMAIN s : s[i] = g
                              /\ \A i, j \in DOMAIN s : i < j => S!GroupBefore(s[i], s[j], p)
      <4>1. \A p \in BOOLEAN : s = S!RankGroups(S!Groups(cs), p) => Ranked(p)
        BY GroupsAreRanked
      <4> HIDE DEF Ranked
      <4>2. Ranked(FALSE) BY <2>2, <3>1, <4>1, Zenon
      <4> QED BY <4>2 DEF Ranked
    <3> QED BY <3>1, <3>2
  <2> QED BY <1>3, <1>5, <2>3 DEF BestAreFirst
<1>7. BestAreFirst' BY <1>2, <1>6 DEF BestAreFirst
<1>8. S!FirstEarnsMost'
  <2> SUFFICES ASSUME sMode = "ann", NEW c \in cs PROVE S!Profit(c) <= S!Profit(sRanked'[1])
    BY <1>2, <1>3 DEF S!FirstEarnsMost
  <2>1. (sMode = "ann") = TRUE OBVIOUS
  <2>2. sRanked' = S!RankCandidates(cs, TRUE) BY <1>2, <2>1, Zenon
  <2> QED BY <2>2, FirstCandidate, Zenon
<1> QED BY <1>4, <1>7, <1>8 DEF SelectionInv

LEMMA SkipKeeps == ASSUME SelectionInv, S!Skip PROVE SelectionInv'
<1>1. PICK h : h = Head(sLeft) OBVIOUS
<1>2. /\ UNCHANGED <<sMode, sStep, sCandidates, sCreated, sRoom, sStored, sFailed, sRanked>>
      /\ sStep = "choosing" /\ sLeft # <<>> /\ sLeft' = Tail(sLeft)
      /\ h.route \in sSeen \cup sStored /\ sSeen' = sSeen \cup {h.route}
  BY <1>1 DEF S!Skip, S!IsDuplicate
<1>3. h.route \in sStored BY <1>2 DEF SelectionInv, SelectionTypes
<1>4. SelectionTypes'
  <2>1. \E T : sCreated' \in Seq(T) BY <1>2 DEF SelectionInv, SelectionTypes
  <2> QED BY <1>2, <1>3, <2>1 DEF SelectionInv, SelectionTypes
<1>5. S!CreatedRoutes' = S!CreatedRoutes BY <1>2 DEF S!CreatedRoutes
<1>6. Gone(h)' BY <1>2, <1>3 DEF Gone
<1>7. BestAreFirst' BY <1>1, <1>2, <1>5, <1>6, HeadIsTaken DEF SelectionInv
<1> QED BY <1>2, <1>4, <1>7, FirstStaysFirst DEF SelectionInv

LEMMA CreateKeeps == ASSUME SelectionInv, S!Create PROVE SelectionInv'
<1>1. PICK h, e : h = Head(sLeft) /\ e = [route |-> h.route, amounts |-> S!Amounts(h)] OBVIOUS
<1>2. /\ UNCHANGED <<sMode, sStep, sCandidates, sRoom, sFailed, sRanked>>
      /\ sStep = "choosing" /\ sLeft # <<>> /\ sLeft' = Tail(sLeft)
      /\ sCreated' = Append(sCreated, e)
      /\ sSeen' = sSeen \cup {h.route} /\ sStored' = sStored \cup {h.route}
  BY <1>1 DEF S!Create
<1>3. PICK T : sCreated \in Seq(T) BY DEF SelectionInv, SelectionTypes
<1>4. sCreated \in Seq(T \cup {e})
  <2>1. Len(sCreated) \in Nat /\ sCreated \in [1..Len(sCreated) -> T] BY <1>3
  <2> QED BY <2>1
<1>5. sCreated' \in Seq(T \cup {e}) BY <1>2, <1>4
<1>6. SelectionTypes'
  <2>1. \E U : sCreated' \in Seq(U) BY <1>5
  <2> QED BY <1>2, <2>1 DEF SelectionInv, SelectionTypes
<1>7. S!CreatedRoutes' = S!CreatedRoutes \cup {h.route}
  <2> DEFINE n == Len(sCreated)
  <2>1. /\ n \in Nat /\ DOMAIN sCreated = 1..n /\ DOMAIN sCreated' = 1..(n + 1)
        /\ sCreated'[n + 1] = e /\ \A i \in 1..n : sCreated'[i] = sCreated[i]
    BY <1>2, <1>4
  <2>2. e.route = h.route BY <1>1
  <2>3. 1..(n + 1) = (1..n) \cup {n + 1} BY <2>1
  <2> HIDE DEF n
  <2> QED BY <2>1, <2>2, <2>3 DEF S!CreatedRoutes
<1>8. Gone(h)' BY <1>2 DEF Gone
<1>9. BestAreFirst' BY <1>1, <1>2, <1>7, <1>8, HeadIsTaken DEF SelectionInv
<1> QED BY <1>2, <1>6, <1>9, FirstStaysFirst DEF SelectionInv

LEMMA CreateFailsKeeps == ASSUME SelectionInv, S!CreateFails PROVE SelectionInv'
<1>1. PICK h : h = Head(sLeft) OBVIOUS
<1>2. /\ UNCHANGED <<sMode, sStep, sCandidates, sCreated, sRoom, sSeen, sRanked>>
      /\ sStep = "choosing" /\ sLeft # <<>> /\ sLeft' = Tail(sLeft)
      /\ sFailed' = sFailed \cup {h.route} /\ sStored \subseteq sStored'
  BY <1>1 DEF S!CreateFails
<1>3. SelectionTypes'
  <2>1. \E T : sCreated' \in Seq(T) BY <1>2 DEF SelectionInv, SelectionTypes
  <2> QED BY <1>2, <2>1 DEF SelectionInv, SelectionTypes
<1>4. S!CreatedRoutes' = S!CreatedRoutes BY <1>2 DEF S!CreatedRoutes
<1>5. Gone(h)' BY <1>2 DEF Gone
<1>6. BestAreFirst' BY <1>1, <1>2, <1>4, <1>5, HeadIsTaken DEF SelectionInv
<1> QED BY <1>2, <1>3, <1>6, FirstStaysFirst DEF SelectionInv

(* Nothing is taken: another scan stores, or this one ends. *)
LEMMA QueueStays ==
  ASSUME SelectionInv, sStep # "collected", sStep' \in {"choosing", "ended"},
         UNCHANGED <<sMode, sCandidates, sLeft, sCreated, sRoom, sSeen, sFailed, sRanked>>,
         sStored \subseteq sStored', sStep' = "ended" => sLeft = <<>> \/ S!Full
  PROVE  SelectionInv'
<1>1. SelectionTypes'
  <2>1. \E T : sCreated' \in Seq(T) BY DEF SelectionInv, SelectionTypes
  <2> QED BY <2>1 DEF SelectionInv, SelectionTypes, S!Full
<1>2. BestAreFirst'
  <2>1. Ours' = Ours /\ S!CreatedRoutes' = S!CreatedRoutes
    BY DEF Ours, S!Passing, S!CreatedRoutes
  <2>2. \A g : Gone(g) => Gone(g)' BY <2>1 DEF Gone
  <2> QED BY <2>1, <2>2 DEF SelectionInv, BestAreFirst
<1> QED BY <1>1, <1>2, FirstStaysFirst DEF SelectionInv

LEMMA SelectionKept == SelectionInv /\ [S!Next]_selectionVars => SelectionInv'
<1> SUFFICES ASSUME SelectionInv, [S!Next]_selectionVars PROVE SelectionInv' OBVIOUS
<1>1. CASE S!StoredElsewhere BY <1>1, QueueStays DEF S!StoredElsewhere
<1>2. CASE S!End BY <1>2, QueueStays DEF S!End
<1>3. CASE UNCHANGED selectionVars
  <2>1. UNCHANGED <<sMode, sStep, sCandidates, sLeft, sCreated, sRoom, sStored, sSeen, sFailed,
                    sRanked>>
    BY <1>3 DEF selectionVars
  <2>2. CASE sStep = "collected"
    <3>1. SelectionTypes'
      <4>1. \E T : sCreated' \in Seq(T) BY <2>1 DEF SelectionInv, SelectionTypes
      <4> QED BY <2>1, <2>2, <4>1 DEF SelectionInv, SelectionTypes
    <3> QED BY <2>1, <2>2, <3>1, FirstStaysFirst DEF SelectionInv, BestAreFirst
  <2>3. CASE sStep # "collected"
    BY <2>1, <2>3, QueueStays DEF SelectionInv, SelectionTypes
  <2> QED BY <2>2, <2>3
<1> QED BY <1>1, <1>2, <1>3, ChooseKeeps, SkipKeeps, CreateKeeps, CreateFailsKeeps DEF S!Next

LEMMA SelectionSteps == [AnswersNext]_all => [S!Next]_selectionVars
BY DEF AnswersNext, OthersStill, Still, all

LEMMA SelectionHolds == AnswersSpec => []SelectionInv
<1>1. AnswersInit => SelectionInv BY SelectionBegins DEF AnswersInit
<1>2. SelectionInv /\ [AnswersNext]_all => SelectionInv' BY SelectionSteps, SelectionKept
<1> QED BY <1>1, <1>2, PTL DEF AnswersSpec

(* What passes is of a group that was dealt with, or is left behind all that *)
(* was created.                                                             *)
LEMMA BestComeFirst == SelectionInv => BestFirst
<1> SUFFICES ASSUME SelectionInv PROVE BestFirst OBVIOUS
<1>1. PICK cs \in SUBSET DOMAIN Results : cs = S!Passing BY PassingAre DEF SelectionInv
<1>2. Ours = S!Groups(cs) BY <1>1 DEF Ours
<1>3. ASSUME sStep = "ended", sMode = "ur"
      PROVE  /\ sLeft \in Seq(Ours)
             /\ \A g \in Ours : Gone(g) \/ \E i \in DOMAIN sLeft : sLeft[i] = g
             /\ \A r \in S!CreatedRoutes :
                  \E g \in Ours : g.route = r
                                /\ \A i \in DOMAIN sLeft : S!GroupBefore(g, sLeft[i], FALSE)
             /\ sLeft = <<>> \/ S!Full
  BY <1>3 DEF SelectionInv, SelectionTypes, BestAreFirst
<1>4. ASSUME NEW c \in cs
      PROVE  /\ S!Group(cs, Results[c].route) \in Ours
             /\ S!Group(cs, Results[c].route).route = Results[c].route
  BY <1>2, GroupsAreFinite DEF S!Group
<1>5. S!RoomIsUsed
  <2> SUFFICES ASSUME sStep = "ended", sMode = "ur", sLeft = <<>>, NEW c \in cs
               PROVE  Results[c].route \in S!CreatedRoutes \cup sStored \cup sFailed
    BY <1>1, <1>3 DEF S!RoomIsUsed, S!Full
  <2>1. DOMAIN sLeft = {} OBVIOUS
  <2> QED BY <1>3, <1>4, <2>1 DEF Gone
<1>6. S!BestAreTaken
  <2> SUFFICES ASSUME sStep = "ended", sMode = "ur", NEW c \in cs,
                      Results[c].route \notin S!CreatedRoutes \cup sStored \cup sFailed,
                      NEW r \in S!CreatedRoutes
               PROVE  \E d \in cs : Results[d].route = r /\ S!Roi(d) >= S!Roi(c)
    BY <1>1 DEF S!BestAreTaken
  <2>1. PICK h \in S!Groups(cs) : h = S!Group(cs, Results[c].route) /\ h.route = Results[c].route
    BY <1>2, <1>4
  <2>2. PICK i \in DOMAIN sLeft : sLeft[i] = h BY <1>2, <1>3, <2>1 DEF Gone
  <2>3. PICK g \in S!Groups(cs) : g.route = r /\ S!GroupBefore(g, h, FALSE)
    BY <1>2, <1>3, <2>2
  <2>4. S!BestRoi(g) >= S!BestRoi(h)
    <3>1. \A p \in BOOLEAN : S!GroupBefore(g, h, p) => Major(g, p) >= Major(h, p)
      BY GroupBeforeIs
    <3>2. Major(g, FALSE) >= Major(h, FALSE) BY <2>3, <3>1, Zenon
    <3> QED BY <3>2 DEF Major
  <2>5. c \in h.members BY <2>1, GroupIs
  <2>6. S!Roi(c) <= S!BestRoi(h) BY <2>5, BestIs
  <2>7. PICK d \in g.members : S!Roi(d) = S!BestRoi(g) BY BestIs
  <2>8. d \in cs /\ Results[d].route = r BY <2>3, <2>7, GroupIs
  <2>9. S!BestRoi(g) \in Int /\ S!BestRoi(h) \in Int BY BestIs
  <2>10. S!Roi(c) \in Int BY ResultsAre
  <2>11. S!Roi(d) >= S!Roi(c) BY <2>4, <2>6, <2>7, <2>9, <2>10
  <2> QED BY <2>8, <2>11
<1> QED BY <1>5, <1>6 DEF SelectionInv, BestFirst, S!BestFirst

(* Where there is room for some only they are those with the best return,    *)
(* and room is left only when nothing is; what trades is offered first what  *)
(* earns most: for any results, rooms and stored routes, whatever else is    *)
(* stored meanwhile (rank_groups, rank_candidates, _create_opportunities).   *)
THEOREM BestStayFirst == AnswersSpec => []BestFirst
BY SelectionHolds, BestComeFirst, PTL
=============================================================================
