---------------------------- MODULE Level1Proofs ----------------------------
(***************************************************************************)
(* Proofs about Level1, for every number of modes, providers, tokens and    *)
(* amounts, every route policy, threshold and capacity.                     *)
(***************************************************************************)
EXTENDS Level1, FiniteSetTheorems, TLAPS

Configured ==
  /\ IsFiniteSet(Modes) /\ IsFiniteSet(Providers)
  /\ IsFiniteSet(Tokens) /\ IsFiniteSet(Amounts)

(***************************************************************************)
(* The inductive invariant                                                  *)
(***************************************************************************)
Cycle == [at : {"idle", "start", "buy", "sell"},
          waits : SUBSET Providers, bought : SUBSET Providers, sold : SUBSET Providers]
Statistics == [requests : Nat, successful : Nat, failed : Nat, refused : Nat, skipped : Nat]
HandingOver == [left : SUBSET Groups, checked : SUBSET Groups, room : Int,
                created : SUBSET Groups]

Types ==
  /\ TypeOK
  /\ config \in Configurations
  /\ leg \in [Owners -> [Runs -> Cycle]] /\ failed \in [Modes -> SUBSET Tokens]
  /\ stats \in [Modes -> Statistics] /\ asked \in [Modes -> Nat]
  /\ found \in [Modes -> SUBSET Groups]
  /\ todo \in [Modes -> HandingOver]
  /\ whole \in [Modes -> {"whole", "left", "short"}] /\ denials \in [Keys -> Nat]

Counts(m) == stats[m].successful + stats[m].failed + stats[m].refused

(* Every request of a scan is answered or awaited, by a run that nobody      *)
(* gathers any more too, until the deadline cancels some of them.            *)
Scan(m) ==
  /\ pc[m] = "idle" => /\ stats[m] = NoStatistics /\ asked[m] = 0
                       /\ \A r \in Runs : leg[m][r].at = "idle"
  /\ pc[m] # "idle" => row[m] = "running"
  /\ \A r \in Runs : leg[m][r].at \in {"idle", "start"} => leg[m][r].waits = {}
  /\ pc[m] \in {"collect", "choose"} => Counts(m) + Cardinality(Pending(m)) = asked[m]
  /\ row[m] = "complete" => whole[m] # "short"
Scans == \A m \in Modes : Scan(m)

(* The memory counts no refusal that was not given, and a pause stands on as *)
(* many as the threshold says.                                               *)
Memory ==
  \A key \in Keys :
    /\ ~config.memory => entries[key] = NoEntry
    /\ entries[key].failures <= denials[key]
    /\ entries[key].skip # "no" => entries[key].failures = FailureThreshold

(* Whoever found no opportunity of a group in the window may still add one.  *)
(* Modes that hand nothing over do not look.                                 *)
Undecided(g) == {m \in DispatchModes : todo[m].checked = {g}}
Races ==
  /\ \A m \in Modes \ DispatchModes : todo[m].left = {} /\ todo[m].checked = {}
  /\ \A g \in Groups : recent[g] + Cardinality(Undecided(g)) <= Cardinality(DispatchModes)

IInv == Types /\ Scans /\ Memory /\ Races

(***************************************************************************)
(* Lemmas                                                                   *)
(***************************************************************************)
LEMMA FinitePending ==
  ASSUME Configured, NEW m
  PROVE  IsFiniteSet(Pending(m)) /\ Cardinality(Pending(m)) \in Nat
<1>1. IsFiniteSet(Runs) BY FS_Product DEF Configured, Runs
<1>2. IsFiniteSet(Runs \X Providers) BY <1>1, FS_Product DEF Configured
<1>3. Pending(m) \subseteq Runs \X Providers BY DEF Pending
<1> QED BY <1>2, <1>3, FS_Subset, FS_CardinalityType

(* So are those between a look at the window and their row.                *)
LEMMA FiniteUndecided ==
  ASSUME Configured, NEW g
  PROVE  /\ IsFiniteSet(Undecided(g)) /\ Cardinality(Undecided(g)) \in Nat
         /\ IsFiniteSet(DispatchModes) /\ Cardinality(DispatchModes) \in Nat
<1>1. Undecided(g) \subseteq DispatchModes BY DEF Undecided
<1>2. IsFiniteSet(DispatchModes) BY DispatchAssumption, FS_Subset DEF Configured
<1> QED BY <1>1, <1>2, FS_Subset, FS_CardinalityType

(* A scan that a step leaves alone. *)
LEMMA OtherScan ==
  ASSUME NEW n \in Modes, Scan(n), pc'[n] = pc[n], leg'[n] = leg[n], stats'[n] = stats[n],
         asked'[n] = asked[n], row'[n] = row[n], whole'[n] = whole[n]
  PROVE  Scan(n)'
BY DEF Scan, Counts, Pending

(* A step that leaves every scan alone.                                     *)
LEMMA SameScans ==
  ASSUME Scans, UNCHANGED <<pc, leg, stats, asked, row, whole>>
  PROVE  Scans'
BY OtherScan DEF Scans

(* What leaves the memory or the pauses alone. *)
LEMMA SameMemory == ASSUME Memory, UNCHANGED <<config, entries, denials>> PROVE Memory'
BY DEF Memory

(* Steps after which no more scans are between their look at the window and  *)
(* the row, and no opportunity was added.                                    *)
LEMMA FewerRaces ==
  ASSUME Configured, Types, Races, UNCHANGED recent,
         \A m \in Modes :
           \/ todo'[m] = todo[m]
           \/ todo'[m].checked = {} /\ (m \in DispatchModes \/ todo'[m].left = {})
  PROVE  Races'
<1>1. \A m \in Modes \ DispatchModes : todo'[m].left = {} /\ todo'[m].checked = {}
  BY DEF Races
<1>2. ASSUME NEW g \in Groups
      PROVE  recent'[g] + Cardinality(Undecided(g)') <= Cardinality(DispatchModes)
  <2>1. Undecided(g)' \subseteq Undecided(g) BY DispatchAssumption DEF Undecided
  <2>2. IsFiniteSet(Undecided(g)) /\ Cardinality(Undecided(g)) \in Nat BY FiniteUndecided
  <2>3. Cardinality(Undecided(g)') <= Cardinality(Undecided(g)) BY <2>1, <2>2, FS_Subset
  <2>4. Cardinality(Undecided(g)') \in Nat BY <2>1, <2>2, FS_Subset, FS_CardinalityType
  <2>5. recent[g] \in Nat /\ recent'[g] = recent[g] BY DEF Types, TypeOK
  <2> QED BY <2>2, <2>3, <2>4, <2>5, FiniteUndecided DEF Races
<1> QED BY <1>1, <1>2 DEF Races

(* The round of questions of one run: as many as are asked are awaited.      *)
LEMMA RoundCounts ==
  ASSUME Configured, Types, NEW m \in Modes, NEW r \in Runs, leg[m][r].waits = {},
         NEW open \in SUBSET Providers, leg'[m][r].waits = open,
         \A s \in Runs : s # r => leg'[m][s] = leg[m][s]
  PROVE  Cardinality(Pending(m)') = Cardinality(Pending(m)) + Cardinality(open)
<1>1. IsFiniteSet(open) /\ IsFiniteSet({r}) /\ Cardinality({r}) = 1
  BY FS_Subset, FS_Singleton DEF Configured
<1>2. Cardinality(open) \in Nat BY <1>1, FS_CardinalityType
<1>3. IsFiniteSet({r} \X open) /\ Cardinality({r} \X open) = Cardinality(open)
  BY <1>1, <1>2, FS_Product
<1>4. Pending(m)' = Pending(m) \cup ({r} \X open) BY DEF Pending
<1>5. Pending(m) \cap ({r} \X open) = {} BY DEF Pending
<1>6. Cardinality(Pending(m) \cup ({r} \X open)) = Cardinality(Pending(m)) + Cardinality(open) - 0
  BY <1>3, <1>5, FinitePending, FS_Union, FS_EmptySet
<1> QED BY <1>2, <1>4, <1>6, FinitePending

(* An answer: one request less is awaited. *)
LEMMA AnswerCounts ==
  ASSUME Configured, Types, NEW m \in Modes, NEW r \in Runs, NEW p \in leg[m][r].waits,
         leg'[m][r].waits = leg[m][r].waits \ {p},
         \A s \in Runs : s # r => leg'[m][s] = leg[m][s]
  PROVE  Cardinality(Pending(m)') = Cardinality(Pending(m)) - 1
<1>1. p \in Providers BY DEF Types, Cycle, Owners
<1>2. <<r, p>> \in Pending(m) BY <1>1 DEF Pending
<1>3. Pending(m)' = Pending(m) \ {<<r, p>>} BY DEF Pending
<1>4. Cardinality(Pending(m) \ {<<r, p>>}) = Cardinality(Pending(m)) - 1
  BY <1>2, FinitePending, FS_RemoveElement
<1> QED BY <1>3, <1>4

(***************************************************************************)
(* The steps                                                                *)
(***************************************************************************)
LEMMA InitOK == ASSUME Configured, Init PROVE IInv
<1>1. TypeOK
  BY Level1Bounds DEF Init, TypeOK, NoEntry, Ended
<1>2. Types BY <1>1 DEF Init, Types, Idle, Cycle, NoStatistics, Statistics, Nobody, HandingOver
<1>3. Scans BY DEF Init, Scans, Scan, Idle, Owners
<1>4. Memory BY DEF Init, Memory, NoEntry
<1>5. Races
  <2>1. \A m \in Modes : todo[m].left = {} /\ todo[m].checked = {} BY DEF Init, Nobody
  <2>2. \A g : Undecided(g) = {} BY <2>1, DispatchAssumption DEF Undecided
  <2>3. \A g : Cardinality(Undecided(g)) = 0 BY <2>2, FS_EmptySet
  <2>4. Cardinality(DispatchModes) \in Nat BY FiniteUndecided
  <2>5. \A g \in Groups : recent[g] = 0 BY DEF Init
  <2> QED BY <2>1, <2>3, <2>4, <2>5 DEF Races
<1> QED BY <1>2, <1>3, <1>4, <1>5 DEF IInv

(* A scan begins with no request and no answer.                             *)
LEMMA BeginKeeps == ASSUME Configured, IInv, NEW m \in Modes, Begin(m) PROVE IInv'
<1> USE DEF IInv
<1>1. TypeOK' BY DEF Begin, shared, Types, TypeOK, Ended
<1>2. /\ leg' \in [Owners -> [Runs -> Cycle]] /\ \A n \in Modes : n # m => leg'[n] = leg[n]
      /\ \A r \in Runs : leg'[m][r].waits = {}
  <2> DEFINE runs == [r \in Runs |-> IF r[2] \in config.amounts[m]
                                     THEN [Idle EXCEPT !.at = "start"] ELSE Idle]
  <2>1. runs \in [Runs -> Cycle] /\ \A r \in Runs : runs[r].waits = {} BY DEF Idle, Cycle
  <2>2. leg' = [leg EXCEPT ![m] = runs] BY DEF Begin
  <2> HIDE DEF runs
  <2> QED BY <2>1, <2>2 DEF Types, Owners
<1>3. Types' BY <1>1, <1>2 DEF Begin, shared, Types
<1>4. /\ pc'[m] = "collect" /\ row'[m] = "running"
      /\ stats'[m] = NoStatistics /\ asked'[m] = 0
  BY DEF Begin, Types, TypeOK, Scans, Scan
<1>5. Pending(m)' = {} BY <1>2 DEF Pending
<1>6. Cardinality(Pending(m)') = 0 BY <1>5, FS_EmptySet
<1>7. Counts(m)' = 0 BY <1>4 DEF Counts, NoStatistics
<1>8. Scan(m)' BY <1>2, <1>4, <1>6, <1>7 DEF Scan
<1>9. ASSUME NEW n \in Modes, n # m PROVE Scan(n)'
  <2>1. pc'[n] = pc[n] /\ row'[n] = row[n] BY <1>9 DEF Begin, Types, TypeOK
  <2> QED BY <1>2, <1>9, <2>1, OtherScan DEF Begin, Scans
<1>10. Scans' BY <1>8, <1>9 DEF Scans
<1>11. Memory' BY SameMemory DEF Begin, shared
<1>12. Races' BY FewerRaces DEF Begin, shared
<1> QED BY <1>3, <1>10, <1>11, <1>12

(* What is left of the memory when the pauses that are over are taken out.   *)
LEMMA ExpiredKeepsMemory ==
  ASSUME Types, Memory, NEW o \in Owners, NEW round, Ask(o, round)
  PROVE  /\ Memory' /\ denials' \in [Keys -> Nat]
         /\ entries' \in [Keys -> [failures: 0..FailureThreshold, skip: {"no", "future", "past"}]]
<1>1. entries' \in [Keys -> [failures: 0..FailureThreshold, skip: {"no", "future", "past"}]]
  BY Level1Bounds DEF Ask, Expired, NoEntry, Types, TypeOK
<1>2. denials' \in [Keys -> Nat] BY DEF Ask, Types
<1>3. ASSUME NEW key \in Keys
      PROVE  /\ ~config'.memory => entries'[key] = NoEntry
             /\ entries'[key].failures <= denials'[key]
             /\ entries'[key].skip # "no" => entries'[key].failures = FailureThreshold
  <2>1. CASE entries'[key] = entries[key] BY <2>1 DEF Ask, Memory
  <2>2. CASE entries'[key] # entries[key]
    BY <2>2 DEF Ask, Expired, NoEntry
  <2> QED BY <2>1, <2>2
<1> QED BY <1>1, <1>2, <1>3 DEF Memory

(* Where a run is decides whether its scan is under way.                    *)
LEMMA UnderWay ==
  ASSUME Types, Scans, NEW m \in Modes, NEW r \in Runs, leg[m][r].at # "idle"
  PROVE  pc[m] # "idle"
BY DEF Scans, Scan

(* One run takes a step.                                                    *)
LEMMA SetRun ==
  ASSUME Types, NEW o \in Owners, NEW r \in Runs, NEW cycle \in Cycle,
         leg' = [leg EXCEPT ![o][r] = cycle]
  PROVE  /\ leg' \in [Owners -> [Runs -> Cycle]] /\ leg'[o][r] = cycle
         /\ \A s \in Runs : s # r => leg'[o][s] = leg[o][s]
         /\ \A n \in Modes : n # o => leg'[n] = leg[n]
BY DEF Types, Owners

(* Buy, and Sell when there is a best BUY: a round of questions.             *)
LEMMA RoundKeeps ==
  ASSUME Configured, IInv, NEW o \in Owners, NEW r \in Runs, leg[o][r].at # "idle",
         o \in Modes => leg[o][r].waits = {}, NEW round, Ask(o, round),
         round.open \in SUBSET Providers, round.skipped \in Nat,
         NEW cycle \in Cycle, cycle.at \in {"buy", "sell"}, cycle.waits = round.open,
         leg' = [leg EXCEPT ![o][r] = cycle]
  PROVE  IInv'
<1> USE DEF IInv
<1>1. /\ leg' \in [Owners -> [Runs -> Cycle]] /\ leg'[o][r] = cycle
      /\ \A s \in Runs : s # r => leg'[o][s] = leg[o][s]
      /\ \A n \in Modes : n # o => leg'[n] = leg[n]
  BY SetRun
<1>2. Cardinality(round.open) \in Nat BY FS_Subset, FS_CardinalityType DEF Configured
<1>3. /\ stats' = [m \in Modes |-> IF m = o THEN [stats[m] EXCEPT !.skipped = @ + round.skipped]
                                   ELSE stats[m]]
      /\ asked' = [m \in Modes |-> IF m = o THEN asked[m] + Cardinality(round.open) ELSE asked[m]]
      /\ UNCHANGED <<config, pc, failed, found, todo, row, whole, recent, queue>>
  BY DEF Ask
<1>4. /\ Memory' /\ denials' \in [Keys -> Nat]
      /\ entries' \in [Keys -> [failures: 0..FailureThreshold, skip: {"no", "future", "past"}]]
  BY ExpiredKeepsMemory
<1>5. stats' \in [Modes -> Statistics] /\ asked' \in [Modes -> Nat]
  <2>1. ASSUME NEW m \in Modes
        PROVE  [stats[m] EXCEPT !.skipped = @ + round.skipped] \in Statistics
    <3>1. stats[m] \in Statistics BY DEF Types
    <3>2. stats[m].skipped + round.skipped \in Nat BY <3>1 DEF Statistics
    <3> QED BY <3>1, <3>2 DEF Statistics
  <2>2. stats' \in [Modes -> Statistics] BY <1>3, <2>1 DEF Types
  <2>3. \A m \in Modes : asked[m] + Cardinality(round.open) \in Nat BY <1>2 DEF Types
  <2> QED BY <1>3, <2>2, <2>3 DEF Types
<1>6. Types' BY <1>1, <1>3, <1>4, <1>5 DEF Types, TypeOK
<1>7. ASSUME o \in Modes PROVE Scan(o)'
  <2>1. Cardinality(Pending(o)') = Cardinality(Pending(o)) + Cardinality(round.open)
    BY <1>1, <1>7, RoundCounts
  <2>2. /\ asked'[o] = asked[o] + Cardinality(round.open)
        /\ stats'[o].successful = stats[o].successful /\ stats'[o].failed = stats[o].failed
        /\ stats'[o].refused = stats[o].refused
    BY <1>3, <1>7 DEF Types, Statistics
  <2>3. Counts(o)' = Counts(o) BY <2>2 DEF Counts
  <2>4. Counts(o) \in Nat /\ asked[o] \in Nat BY <1>7 DEF Counts, Types, Statistics
  <2>5. pc[o] # "idle" BY <1>7, UnderWay
  <2>6. Scan(o) BY <1>7 DEF Scans
  <2>7. pc'[o] \in {"collect", "choose"} => Counts(o)' + Cardinality(Pending(o)') = asked'[o]
    BY <1>2, <1>3, <2>1, <2>2, <2>3, <2>4, <2>6, FinitePending DEF Scan
  <2> QED BY <1>1, <1>3, <2>5, <2>6, <2>7 DEF Scan
<1>8. ASSUME NEW n \in Modes, n # o PROVE Scan(n)'
  <2>1. stats'[n] = stats[n] /\ asked'[n] = asked[n] BY <1>3, <1>8
  <2> QED BY <1>1, <1>3, <1>8, <2>1, OtherScan DEF Scans
<1>9. Scans' BY <1>7, <1>8 DEF Scans
<1>10. Races' BY <1>3, FewerRaces
<1> QED BY <1>4, <1>6, <1>9, <1>10

(* A round asks some of its providers and skips the others.                *)
LEMMA RoundIs ==
  ASSUME Configured, NEW t, NEW operation, NEW providers \in SUBSET Providers
  PROVE  /\ Round(t, operation, providers).open \in SUBSET Providers
         /\ Round(t, operation, providers).skipped \in Nat
<1> DEFINE open == {p \in providers : Allows(<<p, operation, t>>)}
<1>1. IsFiniteSet(providers \ open) BY FS_Subset DEF Configured
<1>2. Cardinality(providers \ open) \in Nat BY <1>1, FS_CardinalityType
<1> QED BY <1>2 DEF Round

(* The route policy names providers of the network.                        *)
LEMMA PolicyProviders ==
  ASSUME Types
  PROVE  Buyers \in SUBSET Providers /\ \A buyer : Sellers(buyer) \in SUBSET Providers
<1>1. config.allowed \in SUBSET (Providers \X Providers)
  BY ConfigurationsAssumption DEF Types
<1> QED BY <1>1 DEF Buyers, Sellers

(* The questions about BUY.                                                 *)
LEMMA BuyKeeps == ASSUME Configured, IInv, NEW o \in Owners, NEW r \in Runs, Buy(o, r)
                  PROVE  IInv'
<1> USE DEF IInv
<1> DEFINE round == Round(r[1], "buy", Buyers)
           cycle == [Idle EXCEPT !.at = "buy", !.waits = round.open]
<1>1. round.open \in SUBSET Providers /\ round.skipped \in Nat BY RoundIs, PolicyProviders
<1>2. /\ leg[o][r].at = "start" /\ Ask(o, round)
      /\ leg' = [leg EXCEPT ![o][r] = cycle]
  BY DEF Buy
<1> HIDE DEF round
<1>3. cycle \in Cycle /\ cycle.at = "buy" /\ cycle.waits = round.open BY <1>1 DEF Idle, Cycle
<1> HIDE DEF cycle
<1>4. o \in Modes => leg[o][r].waits = {} BY <1>2 DEF Scans, Scan
<1> QED BY <1>1, <1>2, <1>3, <1>4, RoundKeeps

(* Steps that end a run and change what was found, and ask and count         *)
(* nothing.                                                                  *)
LEMMA RunEndKeeps ==
  ASSUME Configured, IInv, NEW o \in Owners, NEW r \in Runs, leg[o][r].waits = {},
         leg[o][r].at # "idle", leg' = [leg EXCEPT ![o][r] = Idle],
         found' \in [Modes -> SUBSET Groups], failed' \in [Modes -> SUBSET Tokens],
         UNCHANGED <<config, pc, stats, todo, row, asked, whole, shared>>
  PROVE  IInv'
<1> USE DEF IInv
<1>1. /\ leg' \in [Owners -> [Runs -> Cycle]] /\ leg'[o][r] = Idle
      /\ \A s \in Runs : s # r => leg'[o][s] = leg[o][s]
      /\ \A n \in Modes : n # o => leg'[n] = leg[n]
  <2>1. Idle \in Cycle BY DEF Idle, Cycle
  <2> QED BY <2>1, SetRun
<1>2. Types' BY <1>1 DEF Types, TypeOK, shared
<1>3. ASSUME o \in Modes PROVE Scan(o)'
  <2>1. \A s \in Runs : leg'[o][s].waits = leg[o][s].waits BY <1>1 DEF Idle
  <2>2. Pending(o)' = Pending(o) BY <2>1 DEF Pending
  <2>3. Scan(o) BY <1>3 DEF Scans
  <2>4. \A s \in Runs : leg'[o][s].at \in {"idle", "start"} => leg'[o][s].waits = {}
    BY <1>1, <2>3 DEF Scan, Idle
  <2>5. pc[o] # "idle" BY <1>3, UnderWay
  <2> QED BY <2>2, <2>3, <2>4, <2>5 DEF Scan, Counts
<1>4. ASSUME NEW n \in Modes, n # o PROVE Scan(n)' BY <1>1, <1>4, OtherScan DEF Scans
<1>5. Scans' BY <1>3, <1>4 DEF Scans
<1>6. Memory' BY SameMemory DEF shared
<1>7. Races' BY FewerRaces DEF shared
<1> QED BY <1>2, <1>5, <1>6, <1>7

(* The questions about SELL, or the end of the run.                        *)
LEMMA SellKeeps == ASSUME Configured, IInv, NEW o \in Owners, NEW r \in Runs, Sell(o, r)
                   PROVE  IInv'
<1> USE DEF IInv
<1>1. CASE leg[o][r].bought = {}
  <2>1. /\ leg[o][r].at = "buy" /\ leg[o][r].waits = {}
        /\ leg' = [leg EXCEPT ![o][r] = Idle]
        /\ UNCHANGED <<config, pc, failed, stats, found, todo, row, asked, whole, shared>>
    BY <1>1 DEF Sell
  <2>2. leg[o][r].at # "idle" BY <2>1
  <2>3. found' \in [Modes -> SUBSET Groups] /\ failed' \in [Modes -> SUBSET Tokens]
    BY <2>1 DEF Types
  <2> QED BY <2>1, <2>2, <2>3, RunEndKeeps
<1>2. ASSUME NEW best \in leg[o][r].bought,
             LET round == Round(r[1], "sell", Sellers(best))
             IN /\ leg' = [leg EXCEPT ![o][r] = [@ EXCEPT !.at = "sell", !.waits = round.open,
                                                          !.bought = {best}]]
                /\ Ask(o, round)
      PROVE  IInv'
  <2> DEFINE round == Round(r[1], "sell", Sellers(best))
             cycle == [leg[o][r] EXCEPT !.at = "sell", !.waits = round.open, !.bought = {best}]
  <2>1. round.open \in SUBSET Providers /\ round.skipped \in Nat BY RoundIs, PolicyProviders
  <2>2. leg' = [leg EXCEPT ![o][r] = cycle] /\ Ask(o, round) BY <1>2 DEF Types
  <2> HIDE DEF round
  <2>3. leg[o][r] \in Cycle /\ best \in Providers BY DEF Types, Cycle
  <2>4. cycle \in Cycle /\ cycle.at = "sell" /\ cycle.waits = round.open
    BY <2>1, <2>3 DEF Cycle
  <2> HIDE DEF cycle
  <2>5. leg[o][r].at # "idle" /\ leg[o][r].waits = {} BY DEF Sell
  <2> QED BY <2>1, <2>2, <2>4, <2>5, RoundKeeps
<1> QED BY <1>1, <1>2 DEF Sell

(* The end of a run, with candidates or an error that ends its cycle.       *)
LEMMA EvaluateKeeps ==
  ASSUME Configured, IInv, NEW o \in Owners, NEW r \in Runs, Evaluate(o, r) \/ CycleFails(o, r)
  PROVE  IInv'
<1> USE DEF IInv
<1>1. found' \in [Modes -> SUBSET Groups] /\ failed' \in [Modes -> SUBSET Tokens]
  <2>1. CASE Evaluate(o, r)
    <3>1. PICK passing \in SUBSET leg[o][r].sold :
            found' = [m \in Modes |->
                        IF m = o /\ r[1] \notin failed[m]
                        THEN found[m] \cup ({r[1]} \X leg[o][r].bought \X passing) ELSE found[m]]
      BY <2>1 DEF Evaluate
    <3>2. leg[o][r].sold \subseteq Providers /\ leg[o][r].bought \subseteq Providers
      BY DEF Types, Cycle
    <3>3. {r[1]} \X leg[o][r].bought \X passing \subseteq Groups
      BY <3>2 DEF Groups, Runs
    <3> QED BY <2>1, <3>1, <3>3 DEF Types, Evaluate
  <2>2. CASE CycleFails(o, r) BY <2>2 DEF CycleFails, Types, Runs
  <2> QED BY <2>1, <2>2
<1>2. leg[o][r].at # "idle" BY DEF Evaluate, CycleFails
<1> QED BY <1>1, <1>2, RunEndKeeps DEF Evaluate, CycleFails

(* What an answer makes of the memory of its combination.                   *)
LEMMA AnswerKeepsMemory ==
  ASSUME Types, Memory, NEW key \in Keys, NEW outcome, UNCHANGED config,
         entries' = [entries EXCEPT ![key] = CASE outcome = "ok" -> Forget(@)
                                               [] outcome = "noRoute" -> Remember(@)
                                               [] OTHER -> @],
         denials' = [denials EXCEPT ![key] = CASE outcome = "ok" -> 0
                                               [] outcome = "noRoute" /\ config.memory ->
                                                    IF @ < FailureThreshold THEN @ + 1 ELSE @
                                               [] OTHER -> @]
  PROVE  /\ Memory' /\ denials' \in [Keys -> Nat]
         /\ entries' \in [Keys -> [failures: 0..FailureThreshold, skip: {"no", "future", "past"}]]
<1> DEFINE Entry == [failures: 0..FailureThreshold, skip: {"no", "future", "past"}]
<1>1. entries[key] \in Entry /\ denials[key] \in Nat /\ FailureThreshold \in Nat \ {0}
  BY Level1Bounds DEF Types, TypeOK
<1>2. entries \in [Keys -> Entry] /\ denials \in [Keys -> Nat] BY DEF Types, TypeOK
<1>3. /\ ~config.memory => entries[key] = NoEntry
      /\ entries[key].failures <= denials[key]
      /\ entries[key].skip # "no" => entries[key].failures = FailureThreshold
  BY DEF Memory
<1>4. \A other \in Keys : other # key => entries'[other] = entries[other]
                                           /\ denials'[other] = denials[other]
  BY <1>2
<1>5. /\ entries'[key] \in Entry /\ denials'[key] \in Nat
      /\ ~config.memory => entries'[key] = NoEntry
      /\ entries'[key].failures <= denials'[key]
      /\ entries'[key].skip # "no" => entries'[key].failures = FailureThreshold
  <2>1. CASE outcome = "ok"
    <3>1. entries'[key] = NoEntry /\ denials'[key] = 0 BY <1>2, <2>1 DEF Forget
    <3> QED BY <1>1, <3>1 DEF NoEntry
  <2>2. CASE outcome = "noRoute" /\ config.memory
    <3>1. /\ entries'[key] = Remember(entries[key])
          /\ denials'[key] = IF denials[key] < FailureThreshold THEN denials[key] + 1
                             ELSE denials[key]
      BY <1>2, <2>2
    <3>2. Remember(entries[key]) \in Entry
      BY <1>1, <2>2 DEF Remember
    <3>3. Remember(entries[key]).failures = IF entries[key].failures < FailureThreshold
                                            THEN entries[key].failures + 1
                                            ELSE entries[key].failures
      BY <2>2 DEF Remember
    <3>4. Remember(entries[key]).skip # "no" => Remember(entries[key]).failures = FailureThreshold
      BY <1>1, <1>3, <2>2 DEF Remember
    <3> QED BY <1>1, <1>3, <2>2, <3>1, <3>2, <3>3, <3>4
  <2>3. CASE outcome = "noRoute" /\ ~config.memory
    <3>1. entries'[key] = entries[key] /\ denials'[key] = denials[key]
      BY <1>2, <2>3 DEF Remember
    <3> QED BY <1>1, <1>3, <3>1
  <2>4. CASE outcome \notin {"ok", "noRoute"}
    <3>1. entries'[key] = entries[key] /\ denials'[key] = denials[key] BY <1>2, <2>4
    <3> QED BY <1>1, <1>3, <3>1
  <2> QED BY <2>1, <2>2, <2>3, <2>4
<1>6. entries' \in [Keys -> Entry] /\ denials' \in [Keys -> Nat]
  <2>1. DOMAIN entries' = Keys /\ DOMAIN denials' = Keys BY <1>2
  <2>2. \A k \in Keys : entries'[k] \in Entry /\ denials'[k] \in Nat BY <1>2, <1>4, <1>5
  <2>3. entries' = [k \in Keys |-> entries'[k]] /\ denials' = [k \in Keys |-> denials'[k]]
    BY <1>2
  <2> QED BY <2>2, <2>3
<1>7. Memory'
  <2> SUFFICES ASSUME NEW k \in Keys
               PROVE  /\ ~config'.memory => entries'[k] = NoEntry
                      /\ entries'[k].failures <= denials'[k]
                      /\ entries'[k].skip # "no" => entries'[k].failures = FailureThreshold
    BY DEF Memory
  <2>1. CASE k = key BY <1>5, <2>1
  <2>2. CASE k # key BY <1>4, <2>2 DEF Memory
  <2> QED BY <2>1, <2>2
<1> QED BY <1>6, <1>7

(* An answer is counted once, as a quote, a failure or a refusal.            *)
LEMMA CountedOnce ==
  ASSUME NEW s \in Statistics, NEW outcome \in {"ok", "refused", "noRoute", "failed"}
  PROVE  /\ Counted(s, outcome) \in Statistics
         /\ Counted(s, outcome).successful + Counted(s, outcome).failed
              + Counted(s, outcome).refused = s.successful + s.failed + s.refused + 1
<1>1. CASE outcome = "refused" BY <1>1 DEF Counted, Statistics
<1>2. s = [requests |-> s.requests, successful |-> s.successful, failed |-> s.failed,
           refused |-> s.refused, skipped |-> s.skipped]
      /\ s.requests \in Nat /\ s.successful \in Nat /\ s.failed \in Nat
      /\ s.refused \in Nat /\ s.skipped \in Nat
  BY DEF Statistics
<1>3. CASE outcome = "ok"
  <2>1. Counted(s, outcome) =
          [requests |-> s.requests + 1, successful |-> s.successful + 1, failed |-> s.failed,
           refused |-> s.refused, skipped |-> s.skipped]
    BY <1>2, <1>3 DEF Counted
  <2>2. Counted(s, outcome) \in Statistics BY <1>2, <2>1 DEF Statistics
  <2> QED BY <1>2, <2>1, <2>2
<1>4. CASE outcome \in {"noRoute", "failed"}
  <2>1. Counted(s, outcome) =
          [requests |-> s.requests + 1, successful |-> s.successful, failed |-> s.failed + 1,
           refused |-> s.refused, skipped |-> s.skipped]
    BY <1>2, <1>4 DEF Counted
  <2>2. Counted(s, outcome) \in Statistics BY <1>2, <2>1 DEF Statistics
  <2> QED BY <1>2, <2>1, <2>2
<1> QED BY <1>1, <1>3, <1>4

(* What an answer changes: its run, the counts of its scan and the entry of  *)
(* its combination.                                                          *)
LEMMA AnswerKeeps ==
  ASSUME Configured, IInv, NEW o \in Owners, NEW r \in Runs, NEW p \in Providers,
         NEW outcome \in {"ok", "refused", "noRoute", "failed"}, Answer(o, r, p, outcome)
  PROVE  IInv'
<1> USE DEF IInv
<1> DEFINE operation == leg[o][r].at
           key == <<p, operation, r[1]>>
           cycle == [leg[o][r] EXCEPT
                       !.waits = @ \ {p},
                       !.bought = IF operation = "buy" /\ outcome = "ok" THEN @ \cup {p} ELSE @,
                       !.sold = IF operation = "sell" /\ outcome = "ok" THEN @ \cup {p} ELSE @]
<1>1. operation \in Operations /\ p \in leg[o][r].waits
  BY DEF Answer
<1>2. leg[o][r] \in Cycle /\ leg \in [Owners -> [Runs -> Cycle]] BY DEF Types
<1>3. leg' = [leg EXCEPT ![o][r] = cycle] BY <1>2, ZenonT(40) DEF Answer, Cycle
<1>4. cycle \in Cycle /\ cycle.waits = leg[o][r].waits \ {p} /\ cycle.at = leg[o][r].at
  BY <1>2 DEF Cycle
<1> HIDE DEF cycle
<1>5. /\ leg' \in [Owners -> [Runs -> Cycle]] /\ leg'[o][r] = cycle
      /\ \A s \in Runs : s # r => leg'[o][s] = leg[o][s]
      /\ \A n \in Modes : n # o => leg'[n] = leg[n]
  BY <1>3, <1>4, SetRun
<1>6. stats' = [m \in Modes |-> IF m = o THEN Counted(stats[m], outcome) ELSE stats[m]]
  BY DEF Answer
<1>7. \A m \in Modes : stats[m] \in Statistics BY DEF Types
<1>8. stats' \in [Modes -> Statistics]
  <2>1. \A m \in Modes : Counted(stats[m], outcome) \in Statistics BY <1>7, CountedOnce
  <2> QED BY <1>6, <1>7, <2>1
<1>9. UNCHANGED <<config, pc, failed, found, todo, row, asked, whole, recent, queue>>
  BY DEF Answer
<1>10. key \in Keys BY <1>1 DEF Keys, Runs
<1>11. /\ Memory' /\ denials' \in [Keys -> Nat]
       /\ entries' \in [Keys -> [failures: 0..FailureThreshold, skip: {"no", "future", "past"}]]
  <2>1. /\ entries' = [entries EXCEPT ![key] = CASE outcome = "ok" -> Forget(@)
                                                 [] outcome = "noRoute" -> Remember(@)
                                                 [] OTHER -> @]
        /\ denials' = [denials EXCEPT ![key] = CASE outcome = "ok" -> 0
                                                 [] outcome = "noRoute" /\ config.memory ->
                                                      IF @ < FailureThreshold THEN @ + 1 ELSE @
                                                 [] OTHER -> @]
    BY DEF Answer
  <2> HIDE DEF key
  <2> QED BY <1>9, <1>10, <2>1, AnswerKeepsMemory
<1>12. Types' BY <1>5, <1>8, <1>9, <1>11 DEF Types, TypeOK
<1>13. ASSUME o \in Modes PROVE Scan(o)'
  <2>1. Cardinality(Pending(o)') = Cardinality(Pending(o)) - 1
    BY <1>1, <1>4, <1>5, <1>13, AnswerCounts
  <2>2. Counts(o)' = Counts(o) + 1
    <3>1. stats'[o] = Counted(stats[o], outcome) /\ stats[o] \in Statistics
      BY <1>6, <1>7, <1>13
    <3> QED BY <3>1, CountedOnce DEF Counts
  <2>3. Counts(o) \in Nat BY <1>7, <1>13 DEF Counts, Statistics
  <2>4. Scan(o) BY <1>13 DEF Scans
  <2>5. pc[o] # "idle"
    <3>1. leg[o][r].at # "idle" BY <1>1 DEF Operations
    <3> QED BY <1>13, <3>1, UnderWay
  <2>6. pc'[o] \in {"collect", "choose"} => Counts(o)' + Cardinality(Pending(o)') = asked'[o]
    BY <1>9, <2>1, <2>2, <2>3, <2>4, FinitePending DEF Scan
  <2>7. \A s \in Runs : leg'[o][s].at \in {"idle", "start"} => leg'[o][s].waits = {}
    BY <1>1, <1>4, <1>5, <2>4 DEF Scan, Operations
  <2> QED BY <1>9, <2>4, <2>5, <2>6, <2>7 DEF Scan
<1>14. ASSUME NEW n \in Modes, n # o PROVE Scan(n)'
  <2>1. stats'[n] = stats[n] BY <1>6, <1>14
  <2> QED BY <1>5, <1>9, <1>14, <2>1, OtherScan DEF Scans
<1>15. Scans' BY <1>13, <1>14 DEF Scans
<1>16. Races' BY <1>9, FewerRaces
<1> QED BY <1>11, <1>12, <1>15, <1>16

(* The end of the questions, on time or at the deadline.  The requests of a  *)
(* run that is left behind stay in the account.                              *)
LEMMA ChooseKeeps ==
  ASSUME Configured, IInv, NEW m \in Modes, Collected(m) \/ TimesOut(m)
  PROVE  IInv'
<1> USE DEF IInv
<1>1. PICK groups \in SUBSET Groups, timedOut \in BOOLEAN :
        /\ Choose(m, groups, timedOut)
        /\ ~timedOut => \A r \in Runs : r[1] \in failed[m] \/ leg[m][r].at = "idle"
  BY DEF Collected, TimesOut, Types
<1>2. pc[m] = "collect" /\ found' = [found EXCEPT ![m] = {}]
  BY DEF Collected, TimesOut
<1>3. /\ pc' = [pc EXCEPT ![m] = IF timedOut THEN "chooseLate" ELSE "choose"]
      /\ leg' = [leg EXCEPT ![m] = Remaining(m)]
      /\ UNCHANGED <<config, failed, row, stats, asked, whole, entries, recent, queue, denials>>
  BY <1>1 DEF Choose, shared
<1>4. /\ leg' \in [Owners -> [Runs -> Cycle]] /\ leg'[m] = Remaining(m)
      /\ \A n \in Modes : n # m => leg'[n] = leg[n]
  <2>1. Remaining(m) \in [Runs -> Cycle] BY DEF Remaining, Types, Owners, Idle, Cycle
  <2> QED BY <1>3, <2>1 DEF Types, Owners
<1>5. found' \in [Modes -> SUBSET Groups] BY <1>2 DEF Types
<1>6. Room \in Int
  BY ConfigurationsAssumption, Level1Bounds DEF Room, Types, TypeOK
<1>7. /\ todo' \in [Modes -> HandingOver] /\ todo'[m].checked = {}
      /\ m \in DispatchModes \/ todo'[m].left = {}
      /\ \A n \in Modes : n # m => todo'[n] = todo[n]
  BY <1>1, <1>6 DEF Choose, Types, Nobody, HandingOver
<1>8. pc' \in [Modes -> {"idle", "collect"} \cup Choosing] BY <1>3 DEF Types, TypeOK, Choosing
<1>9. Types' BY <1>3, <1>4, <1>5, <1>7, <1>8 DEF Types, TypeOK
<1>10. Scan(m)'
  <2>1. Scan(m) BY DEF Scans
  <2>2. pc'[m] = IF timedOut THEN "chooseLate" ELSE "choose" BY <1>3 DEF Types, TypeOK
  <2>3. \A r \in Runs : leg'[m][r] = IF r \in Orphans(m) THEN leg[m][r] ELSE Idle
    BY <1>4 DEF Remaining
  <2>4. \A r \in Runs : leg'[m][r].at \in {"idle", "start"} => leg'[m][r].waits = {}
    BY <2>1, <2>3 DEF Scan, Idle
  <2>5. ASSUME ~timedOut PROVE Counts(m)' + Cardinality(Pending(m)') = asked'[m]
    <3>1. ASSUME NEW r \in Runs PROVE leg'[m][r].waits = leg[m][r].waits
      <4>1. CASE r \in Orphans(m) BY <2>3, <4>1
      <4>2. CASE r \notin Orphans(m)
        <5>1. leg[m][r].at \in {"idle", "start"}
          <6>1. leg[m][r].at \in {"idle", "start", "buy", "sell"}
            BY DEF Types, Owners, Cycle
          <6> QED BY <1>1, <2>5, <4>2, <6>1 DEF Orphans, Operations
        <5>2. leg[m][r].waits = {} BY <2>1, <5>1 DEF Scan
        <5>3. leg'[m][r] = Idle BY <2>3, <4>2
        <5> QED BY <5>2, <5>3 DEF Idle
      <4> QED BY <4>1, <4>2
    <3>2. Pending(m)' = Pending(m) BY <3>1 DEF Pending
    <3>3. Counts(m)' = Counts(m) BY <1>3 DEF Counts
    <3> QED BY <1>2, <1>3, <2>1, <3>2, <3>3 DEF Scan
  <2> QED BY <1>2, <1>3, <2>1, <2>2, <2>4, <2>5 DEF Scan
<1>11. ASSUME NEW n \in Modes, n # m PROVE Scan(n)'
  <2>1. pc'[n] = pc[n] BY <1>3, <1>11 DEF Types, TypeOK
  <2> QED BY <1>3, <1>4, <1>11, <2>1, OtherScan DEF Scans
<1>12. Scans' BY <1>10, <1>11 DEF Scans
<1>13. Memory' BY <1>3, SameMemory
<1>14. Races' BY <1>3, <1>7, FewerRaces
<1> QED BY <1>9, <1>12, <1>13, <1>14

(* A look at the window: only where the group has no opportunity in it.      *)
LEMMA CheckKeeps ==
  ASSUME Configured, IInv, NEW m \in Modes, NEW g \in Groups, Check(m, g)
  PROVE  IInv'
<1> USE DEF IInv
<1>1. /\ todo' = [todo EXCEPT ![m].left = @ \ {g},
                              ![m].checked = IF IsDuplicate(g) THEN {} ELSE {g}]
      /\ UNCHANGED <<config, pc, leg, failed, stats, found, row, asked, whole, entries, recent, queue,
                     denials>>
  BY DEF Check, shared
<1>2. /\ todo' \in [Modes -> HandingOver]
      /\ todo'[m].checked = IF IsDuplicate(g) THEN {} ELSE {g}
      /\ \A n \in Modes : n # m => todo'[n] = todo[n]
  <2> DEFINE looked == IF IsDuplicate(g) THEN {} ELSE {g}
             to == [todo[m] EXCEPT !.left = @ \ {g}, !.checked = looked]
  <2>1. todo[m] \in HandingOver /\ todo \in [Modes -> HandingOver] BY DEF Types
  <2>2. looked \in SUBSET Groups OBVIOUS
  <2> HIDE DEF looked
  <2>3. todo' = [todo EXCEPT ![m] = to] BY <1>1, <2>1 DEF HandingOver, looked
  <2>4. to \in HandingOver /\ to.checked = looked BY <2>1, <2>2 DEF HandingOver
  <2> HIDE DEF to
  <2>5. todo'[m].checked = looked BY <2>1, <2>3, <2>4
  <2> QED BY <2>1, <2>3, <2>4, <2>5 DEF looked
<1>3. Types' BY <1>1, <1>2 DEF Types, TypeOK
<1>4. Scans' BY <1>1, SameScans
<1>5. Memory' BY <1>1, SameMemory
<1>6. m \in DispatchModes BY DEF Check, Races
<1>7. Races'
  <2>1. CASE IsDuplicate(g) BY <1>1, <1>2, <1>6, <2>1, FewerRaces
  <2>2. CASE ~IsDuplicate(g)
    <3>1. ASSUME NEW h \in Groups, h = g
          PROVE  recent'[h] + Cardinality(Undecided(h)') <= Cardinality(DispatchModes)
      <4>1. recent'[h] = 0 BY <1>1, <2>2, <3>1 DEF IsDuplicate, Types, TypeOK
      <4>2. Undecided(h)' \subseteq DispatchModes BY DEF Undecided
      <4>3. /\ Cardinality(Undecided(h)') \in Nat
            /\ Cardinality(Undecided(h)') <= Cardinality(DispatchModes)
        BY <4>2, FiniteUndecided, FS_Subset, FS_CardinalityType
      <4> QED BY <4>1, <4>3
    <3>2. ASSUME NEW h \in Groups, h # g
          PROVE  recent'[h] + Cardinality(Undecided(h)') <= Cardinality(DispatchModes)
      <4>1. Undecided(h)' \subseteq Undecided(h)
        BY <1>2, <2>2, <3>2, DispatchAssumption DEF Undecided
      <4>2. IsFiniteSet(Undecided(h)) /\ Cardinality(Undecided(h)) \in Nat BY FiniteUndecided
      <4>3. /\ Cardinality(Undecided(h)') <= Cardinality(Undecided(h))
            /\ Cardinality(Undecided(h)') \in Nat
        BY <4>1, <4>2, FS_Subset, FS_CardinalityType
      <4>4. recent[h] \in Nat /\ recent'[h] = recent[h] BY <1>1 DEF Types, TypeOK
      <4> QED BY <4>2, <4>3, <4>4, FiniteUndecided DEF Races
    <3>3. \A n \in Modes \ DispatchModes : todo'[n].left = {} /\ todo'[n].checked = {}
      BY <1>2, <1>6 DEF Races
    <3> QED BY <3>1, <3>2, <3>3 DEF Races
  <2> QED BY <2>1, <2>2
<1> QED BY <1>3, <1>4, <1>5, <1>7

(* The row is written: one opportunity more, one undecided scan less.        *)
LEMMA HandOverKeeps ==
  ASSUME Configured, IInv, NEW m \in Modes, NEW g \in Groups, HandOver(m, g)
  PROVE  IInv'
<1> USE DEF IInv
<1>1. /\ todo[m].checked = {g} /\ recent' = [recent EXCEPT ![g] = @ + 1]
      /\ UNCHANGED <<config, pc, leg, failed, stats, found, row, asked, whole, entries, denials>>
  BY DEF HandOver
<1>2. /\ todo' \in [Modes -> HandingOver] /\ todo'[m].checked = {}
      /\ \A n \in Modes : n # m => todo'[n] = todo[n]
  <2>1. todo \in [Modes -> HandingOver] BY DEF Types
  <2>2. CASE queue < QueueCapacity
    <3> DEFINE to == [todo[m] EXCEPT !.checked = {}, !.created = @ \cup {g}]
    <3>1. todo' = [todo EXCEPT ![m] = to] BY <2>1, <2>2 DEF HandOver, HandingOver
    <3>2. to \in HandingOver /\ to.checked = {} BY <2>1 DEF HandingOver
    <3> HIDE DEF to
    <3> QED BY <2>1, <3>1, <3>2
  <2>3. CASE ~(queue < QueueCapacity)
    <3> DEFINE to == [todo[m] EXCEPT !.checked = {}]
    <3>1. todo' = [todo EXCEPT ![m] = to] BY <2>1, <2>3 DEF HandOver, HandingOver
    <3>2. to \in HandingOver /\ to.checked = {} BY <2>1 DEF HandingOver
    <3> HIDE DEF to
    <3> QED BY <2>1, <3>1, <3>2
  <2> QED BY <2>2, <2>3
<1>3. queue' \in 0..QueueCapacity /\ recent' \in [Groups -> Nat]
  BY <1>1, Level1Bounds DEF HandOver, Types, TypeOK
<1>4. Types' BY <1>1, <1>2, <1>3 DEF Types, TypeOK
<1>5. Scans' BY <1>1, SameScans
<1>6. Memory' BY <1>1, SameMemory
<1>7. m \in DispatchModes BY <1>1 DEF Races
<1>8. \A n \in Modes \ DispatchModes : todo'[n].left = {} /\ todo'[n].checked = {}
  BY <1>2, <1>7 DEF Races
<1>9. Races'
  <2> SUFFICES ASSUME NEW h \in Groups
               PROVE  recent'[h] + Cardinality(Undecided(h)') <= Cardinality(DispatchModes)
    BY <1>8 DEF Races
  <2>1. IsFiniteSet(Undecided(h)) /\ Cardinality(Undecided(h)) \in Nat BY FiniteUndecided
  <2>2. recent[h] \in Nat /\ recent[h] + Cardinality(Undecided(h)) <= Cardinality(DispatchModes)
    BY DEF Races, Types, TypeOK
  <2>3. CASE h = g
    <3>1. m \in Undecided(h) /\ Undecided(h)' = Undecided(h) \ {m}
      BY <1>1, <1>2, <1>7, <2>3, DispatchAssumption DEF Undecided
    <3>2. Cardinality(Undecided(h) \ {m}) = Cardinality(Undecided(h)) - 1
      BY <2>1, <3>1, FS_RemoveElement
    <3>3. recent'[h] = recent[h] + 1 BY <1>1, <2>3 DEF Types, TypeOK
    <3>4. Cardinality(Undecided(h)') = Cardinality(Undecided(h)) - 1 BY <3>1, <3>2
    <3> QED BY <2>1, <2>2, <3>3, <3>4, FiniteUndecided
  <2>4. CASE h # g
    <3>1. Undecided(h)' = Undecided(h) BY <1>1, <1>2, <2>4, DispatchAssumption DEF Undecided
    <3>2. recent'[h] = recent[h] BY <1>1, <2>4 DEF Types, TypeOK
    <3> QED BY <2>2, <3>1, <3>2
  <2> QED BY <2>3, <2>4
<1> QED BY <1>4, <1>5, <1>6, <1>9

(* A hand-over that fails leaves no row.                                    *)
LEMMA HandOverFailsKeeps ==
  ASSUME Configured, IInv, NEW m \in Modes, HandOverFails(m)
  PROVE  IInv'
<1> USE DEF IInv
<1>1. /\ todo' = [todo EXCEPT ![m].checked = {}]
      /\ UNCHANGED <<config, pc, leg, failed, stats, found, row, asked, whole, entries, recent, queue,
                     denials>>
  BY DEF HandOverFails, shared
<1>2. /\ todo' \in [Modes -> HandingOver] /\ todo'[m].checked = {}
      /\ \A n \in Modes : n # m => todo'[n] = todo[n]
  <2> DEFINE to == [todo[m] EXCEPT !.checked = {}]
  <2>1. todo[m] \in HandingOver /\ todo \in [Modes -> HandingOver] BY DEF Types
  <2>2. todo' = [todo EXCEPT ![m] = to] BY <1>1, <2>1 DEF HandingOver
  <2>3. to \in HandingOver /\ to.checked = {} BY <2>1 DEF HandingOver
  <2> HIDE DEF to
  <2> QED BY <2>1, <2>2, <2>3
<1>3. Types' BY <1>1, <1>2 DEF Types, TypeOK
<1>4. Scans' BY <1>1, SameScans
<1>5. Memory' BY <1>1, SameMemory
<1>6. m \in DispatchModes BY DEF HandOverFails, Races
<1>7. Races' BY <1>1, <1>2, <1>6, FewerRaces
<1> QED BY <1>3, <1>4, <1>5, <1>7

(* A scan ends.  The verdict COMPLETE takes a quote for each request that    *)
(* no run left behind is waiting for.                                        *)
LEMMA LeaveKeeps ==
  ASSUME Configured, IInv, NEW m \in Modes, Finish(m) \/ Cancel(m) \/ ScanFails(m)
  PROVE  IInv'
<1> USE DEF IInv
<1>1. Leave(m) /\ pc[m] # "idle" BY DEF Finish, Cancel, ScanFails, Choosing
<1>2. PICK status \in {"running"} \cup (Ended \ {"idle"}) :
        /\ row' = [row EXCEPT ![m] = status]
        /\ status = "complete" => stats[m].successful + Cardinality(Pending(m)) = asked[m]
  <2>1. CASE Finish(m)
    <3> DEFINE status == FinalStatus(stats[m], pc[m] = "chooseLate")
    <3>1. row' = [row EXCEPT ![m] = status] BY <2>1 DEF Finish
    <3>2. status \in Ended \ {"idle"} BY DEF FinalStatus, Ended
    <3>3. ASSUME status = "complete"
          PROVE  stats[m].successful + Cardinality(Pending(m)) = asked[m]
      <4>1. /\ stats[m].successful \in Nat /\ stats[m].failed \in Nat
            /\ stats[m].refused \in Nat
        BY DEF Types, Statistics
      <4>2. pc[m] = "choose" /\ stats[m].failed + stats[m].refused <= 0
        BY <2>1, <3>3, <4>1 DEF FinalStatus, Finish, Choosing
      <4>3. stats[m].successful + stats[m].failed + stats[m].refused + Cardinality(Pending(m))
              = asked[m]
        BY <4>2 DEF Scans, Scan, Counts
      <4> QED BY <4>1, <4>2, <4>3, FinitePending
    <3> HIDE DEF status
    <3> QED BY <3>1, <3>2, <3>3
  <2>2. CASE Cancel(m)
    <3>1. row' = [row EXCEPT ![m] = "cancelled"] /\ "cancelled" \in Ended \ {"idle"}
      BY <2>2 DEF Cancel, Ended
    <3>2. "cancelled" # "complete" OBVIOUS
    <3> QED BY <3>1, <3>2, Zenon
  <2>3. CASE ScanFails(m)
    <3> DEFINE status == "running"
    <3>1. row[m] = status BY <1>1 DEF Scans, Scan
    <3>2. row' = [row EXCEPT ![m] = status] BY <2>3, <3>1 DEF ScanFails, Types, TypeOK
    <3>3. status # "complete" /\ status \in {"running"} \cup (Ended \ {"idle"}) OBVIOUS
    <3> HIDE DEF status
    <3> QED BY <3>2, <3>3
  <2> QED BY <2>1, <2>2, <2>3
<1>3. row'[m] = status BY <1>2 DEF Types, TypeOK
<1>4. /\ pc' = [pc EXCEPT ![m] = "idle"] /\ stats' = [stats EXCEPT ![m] = NoStatistics]
      /\ found' = [found EXCEPT ![m] = {}] /\ todo' = [todo EXCEPT ![m] = Nobody]
      /\ failed' = [failed EXCEPT ![m] = {}] /\ asked' = [asked EXCEPT ![m] = 0]
      /\ UNCHANGED <<config, entries, recent, queue, denials>>
  BY <1>1 DEF Leave, shared
<1>5. /\ whole' \in [Modes -> {"whole", "left", "short"}]
      /\ status = "complete" => whole'[m] # "short"
      /\ \A n \in Modes : n # m => whole'[n] = whole[n]
  <2> DEFINE verdict == IF status = "complete" THEN Wholeness(m) ELSE "whole"
  <2>1. whole' = [whole EXCEPT ![m] = verdict] BY <1>1, <1>3 DEF Leave
  <2>2. verdict \in {"whole", "left", "short"} BY DEF Wholeness
  <2>3. status = "complete" => verdict # "short" BY <1>2 DEF Wholeness
  <2> HIDE DEF verdict
  <2> QED BY <2>1, <2>2, <2>3 DEF Types
<1>6. /\ leg' \in [Owners -> [Runs -> Cycle]]
      /\ \A r \in Runs : leg'[m][r] = Idle
      /\ \A n \in Modes : n # m => leg'[n] = leg[n]
  <2> DEFINE idle == [r \in Runs |-> Idle]
             behind == [r \in Runs |-> IF r \in Orphans(m) THEN leg[m][r] ELSE leg[Late][r]]
  <2>1. m # Late BY LateAssumption
  <2>2. leg \in [Owners -> [Runs -> Cycle]] /\ m \in Owners /\ Late \in Owners
    BY DEF Types, Owners
  <2>3. leg' = [leg EXCEPT ![m] = idle, ![Late] = behind] BY <1>1, <2>1, <2>2 DEF Leave
  <2>4. idle \in [Runs -> Cycle] /\ \A r \in Runs : idle[r] = Idle BY DEF Idle, Cycle
  <2>5. behind \in [Runs -> Cycle] BY <2>2
  <2> HIDE DEF idle, behind
  <2>6. leg'[m] = idle BY <2>1, <2>2, <2>3
  <2>7. \A n \in Modes : n # m => leg'[n] = leg[n]
    BY <2>2, <2>3, LateAssumption DEF Owners
  <2>8. leg' \in [Owners -> [Runs -> Cycle]] BY <2>2, <2>3, <2>4, <2>5
  <2> QED BY <2>4, <2>6, <2>7, <2>8
<1>7. TypeOK' BY <1>2, <1>4 DEF Types, TypeOK, Ended
<1>8. /\ todo' \in [Modes -> HandingOver] /\ failed' \in [Modes -> SUBSET Tokens]
      /\ stats' \in [Modes -> Statistics] /\ asked' \in [Modes -> Nat]
      /\ found' \in [Modes -> SUBSET Groups]
  BY <1>4 DEF Types, Nobody, HandingOver, NoStatistics, Statistics
<1>9. Types' BY <1>4, <1>5, <1>6, <1>7, <1>8 DEF Types
<1>10. Scan(m)'
  <2>1. pc'[m] = "idle" /\ stats'[m] = NoStatistics /\ asked'[m] = 0
    BY <1>4 DEF Types, TypeOK
  <2>2. \A r \in Runs : leg'[m][r].at = "idle" /\ leg'[m][r].waits = {} BY <1>6 DEF Idle
  <2> QED BY <1>3, <1>5, <2>1, <2>2 DEF Scan
<1>11. ASSUME NEW n \in Modes, n # m PROVE Scan(n)'
  <2>1. /\ pc'[n] = pc[n] /\ stats'[n] = stats[n] /\ asked'[n] = asked[n]
        /\ row'[n] = row[n]
    BY <1>2, <1>4, <1>11 DEF Types, TypeOK
  <2> QED BY <1>5, <1>6, <1>11, <2>1, OtherScan DEF Scans
<1>12. Scans' BY <1>10, <1>11 DEF Scans
<1>13. Memory' BY <1>4, SameMemory
<1>14. Races'
  <2>1. /\ todo'[m].checked = {} /\ todo'[m].left = {}
        /\ \A n \in Modes : n # m => todo'[n] = todo[n]
    BY <1>4 DEF Types, Nobody
  <2> QED BY <1>4, <2>1, FewerRaces
<1> QED BY <1>9, <1>12, <1>13, <1>14

(* What happens around the scans.                                           *)
LEMMA JobEndsKeeps == ASSUME Configured, IInv, JobEnds PROVE IInv'
<1> USE DEF IInv
<1>1. UNCHANGED <<config, pc, leg, failed, stats, found, todo, row, asked, whole, entries, recent, denials>>
  BY DEF JobEnds, scanning
<1>2. queue' \in 0..QueueCapacity BY Level1Bounds DEF JobEnds, Types, TypeOK
<1>3. Types' BY <1>1, <1>2 DEF Types, TypeOK
<1> QED BY <1>1, <1>3, SameScans, SameMemory, FewerRaces

LEMMA WindowPassesKeeps == ASSUME Configured, IInv, NEW g \in Groups, WindowPasses(g) PROVE IInv'
<1> USE DEF IInv
<1>1. /\ UNCHANGED <<config, pc, leg, failed, stats, found, todo, row, asked, whole, entries, queue, denials>>
      /\ recent' = [recent EXCEPT ![g] = 0]
  BY DEF WindowPasses, scanning
<1>2. Types' BY <1>1 DEF Types, TypeOK
<1>3. Races'
  <2> SUFFICES ASSUME NEW h \in Groups
               PROVE  recent'[h] + Cardinality(Undecided(h)') <= Cardinality(DispatchModes)
    BY <1>1 DEF Races
  <2>1. Undecided(h)' = Undecided(h) BY <1>1 DEF Undecided
  <2>2. recent'[h] <= recent[h] /\ recent[h] \in Nat /\ recent'[h] \in Nat
    BY <1>1 DEF Types, TypeOK
  <2> QED BY <2>1, <2>2, FiniteUndecided DEF Races
<1> QED BY <1>1, <1>2, <1>3, SameScans, SameMemory

LEMMA PauseEndsKeeps == ASSUME Configured, IInv, NEW key \in Keys, PauseEnds(key) PROVE IInv'
<1> USE DEF IInv
<1>1. /\ UNCHANGED <<config, pc, leg, failed, stats, found, todo, row, asked, whole, recent, queue, denials>>
      /\ entries' = [entries EXCEPT ![key].skip = "past"] /\ entries[key].skip = "future"
  BY DEF PauseEnds, scanning
<1>2. Types' BY <1>1 DEF Types, TypeOK
<1>3. Memory'
  <2>1. ASSUME NEW k \in Keys
        PROVE  /\ entries'[k].failures = entries[k].failures
               /\ k # key => entries'[k] = entries[k]
    BY <1>1 DEF Types, TypeOK
  <2>2. config.memory BY <1>1 DEF Memory, NoEntry
  <2> QED BY <1>1, <2>1, <2>2 DEF Memory
<1> QED BY <1>1, <1>2, <1>3, SameScans, FewerRaces

LEMMA StutterKeeps == ASSUME Configured, IInv, UNCHANGED vars PROVE IInv'
<1> USE DEF IInv
<1>1. UNCHANGED <<config, pc, leg, failed, stats, found, todo, row, asked, whole, entries, recent, queue,
                  denials>>
  BY DEF vars, scanning, shared
<1>2. Types' BY <1>1 DEF Types, TypeOK
<1> QED BY <1>1, <1>2, SameScans, SameMemory, FewerRaces

(* Every step keeps the invariant.                                          *)
LEMMA NextKeeps == ASSUME Configured, IInv, [Next]_vars PROVE IInv'
<1>1. ASSUME NEW o \in Owners, RunSteps(o) PROVE IInv'
  <2>1. PICK r \in Runs :
          \/ Buy(o, r) \/ Sell(o, r) \/ Evaluate(o, r) \/ CycleFails(o, r)
          \/ \E p \in Providers :
               \E outcome \in {"ok", "refused", "noRoute", "failed"} : Answer(o, r, p, outcome)
    BY <1>1 DEF RunSteps
  <2>2. CASE Buy(o, r) BY <2>2, BuyKeeps
  <2>3. CASE Sell(o, r) BY <2>3, SellKeeps
  <2>4. CASE Evaluate(o, r) \/ CycleFails(o, r) BY <2>4, EvaluateKeeps
  <2>5. ASSUME NEW p \in Providers,
               NEW outcome \in {"ok", "refused", "noRoute", "failed"}, Answer(o, r, p, outcome)
        PROVE  IInv'
    BY <2>5, AnswerKeeps
  <2> QED BY <2>1, <2>2, <2>3, <2>4, <2>5
<1>2. ASSUME NEW m \in Modes, Create(m) PROVE IInv'
  <2>1. ASSUME NEW g \in Groups, Check(m, g) PROVE IInv' BY <2>1, CheckKeeps
  <2>2. ASSUME NEW g \in Groups, HandOver(m, g) PROVE IInv' BY <2>2, HandOverKeeps
  <2>3. CASE HandOverFails(m) BY <2>3, HandOverFailsKeeps
  <2>4. CASE Finish(m) BY <2>4, LeaveKeeps
  <2> QED BY <1>2, <2>1, <2>2, <2>3, <2>4 DEF Create
<1>3. ASSUME NEW m \in Modes, Begin(m) PROVE IInv' BY <1>3, BeginKeeps
<1>4. ASSUME NEW m \in Modes, Collected(m) \/ TimesOut(m) PROVE IInv' BY <1>4, ChooseKeeps
<1>5. ASSUME NEW m \in Modes, Cancel(m) \/ ScanFails(m) PROVE IInv' BY <1>5, LeaveKeeps
<1>6. CASE JobEnds BY <1>6, JobEndsKeeps
<1>7. ASSUME NEW g \in Groups, WindowPasses(g) PROVE IInv' BY <1>7, WindowPassesKeeps
<1>8. ASSUME NEW key \in Keys, PauseEnds(key) PROVE IInv' BY <1>8, PauseEndsKeeps
<1>9. CASE UNCHANGED vars BY <1>9, StutterKeeps
<1> QED BY <1>1, <1>2, <1>3, <1>4, <1>5, <1>6, <1>7, <1>8, <1>9 DEF Next

(* The invariant holds in every state of every behaviour.                   *)
LEMMA Invariance == ASSUME Configured PROVE Spec => []IInv
<1>1. Init => IInv BY InitOK
<1>2. IInv /\ [Next]_vars => IInv' BY NextKeeps
<1> QED BY <1>1, <1>2, PTL DEF Spec

(***************************************************************************)
(* The theorems                                                             *)
(***************************************************************************)
(* A scan is COMPLETE only when every request it began was answered with a   *)
(* quote or is still awaited by a run that an error in another run of its    *)
(* token left behind, however answers, errors, the deadline, a cancellation  *)
(* and the scans of the other modes interleave (scanner.py, _final_status).  *)
THEOREM CompleteIsComplete == ASSUME Configured PROVE Spec => []CompleteMeansAll
<1>1. IInv => CompleteMeansAll BY DEF IInv, Types, Scans, Scan, CompleteMeansAll
<1> QED BY <1>1, Invariance, PTL

(* A combination is paused only after as many refusals in a row as the       *)
(* threshold says, whichever scans asked for it (no_route.py).               *)
THEOREM PausesAreEarned == ASSUME Configured PROVE Spec => []PauseIsEarned
<1>1. IInv => PauseIsEarned
  <2> SUFFICES ASSUME IInv, NEW key \in Keys, entries[key].skip # "no"
               PROVE  denials[key] >= FailureThreshold
    BY DEF PauseIsEarned
  <2>1. entries[key].failures = FailureThreshold /\ entries[key].failures <= denials[key]
    BY DEF IInv, Memory
  <2>2. denials[key] \in Nat /\ FailureThreshold \in Nat BY Level1Bounds DEF IInv, Types
  <2> QED BY <2>1, <2>2
<1> QED BY <1>1, Invariance, PTL

(* The scans of different modes look for an opportunity of a group before    *)
(* they write their own: a group never has more than one for each mode that  *)
(* hands over (DeduplicationGuard and OpportunityHandoff.create).            *)
THEOREM RacesAreBounded == ASSUME Configured PROVE Spec => []DuplicatesAreRaces
<1>1. ASSUME Configured, IInv PROVE DuplicatesAreRaces
  <2> SUFFICES ASSUME NEW g \in Groups PROVE recent[g] <= Cardinality(DispatchModes)
    BY DEF DuplicatesAreRaces
  <2>1. recent[g] \in Nat /\ recent[g] + Cardinality(Undecided(g)) <= Cardinality(DispatchModes)
    BY <1>1 DEF IInv, Types, TypeOK, Races
  <2> QED BY <1>1, <2>1, FiniteUndecided
<1> QED BY <1>1, Invariance, PTL
=============================================================================
