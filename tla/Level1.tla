------------------------------- MODULE Level1 -------------------------------
(***************************************************************************)
(* The scans of Level 1.  A scan of one mode asks every provider for every  *)
(* token and every amount of the mode: the BUY answers of such a run are    *)
(* awaited together, the best of them is sold by the providers that the     *)
(* route policy allows, and what passes the threshold is handed to Level 2. *)
(*                                                                         *)
(* The runs of one token are its cycle.  An error in one of them ends the   *)
(* cycle but cancels no other run: those go on asking, through the rest of  *)
(* the scan and after it.  Of two runs of one token and amount that outlive *)
(* their scans, the older one is followed no further, as if its answers     *)
(* never came: it can change nothing but the memory.                        *)
(*                                                                         *)
(* The modes are tasks of their own.  Their scans overlap and share the     *)
(* memory of combinations without a route, the recent opportunities in the  *)
(* database and the queue of the Level 2 worker.                            *)
(*                                                                         *)
(* The semaphore of a scan delays requests and nothing more; ROI and profit *)
(* are the verdict of the calculator, so that groups are taken in any order *)
(* (Ranking is checked on its own in Selection).                            *)
(***************************************************************************)
EXTENDS Integers, FiniteSets, FiniteSetsExt

CONSTANTS
  Modes,              \* modes whose scans may overlap
  DispatchModes,      \* modes whose finds go to Level 2
  Late,               \* whose runs are that outlived their scan
  Providers, Tokens,  \* of the network
  Amounts,            \* that a mode may search with
  Unsupported,        \* combinations that the capability registry rules out
  FailureThreshold,   \* scanner.no_route_memory
  QueueCapacity,      \* scanner.level2.queue_capacity
  Configurations      \* configurations the program may have started with

(* no_route_memory.enabled, max_opportunities_per_scan, the route policy as  *)
(* pairs of a BUY provider and a SELL provider, and the amounts of each mode *)
(* (none: the mode is not run).                                              *)
ASSUME ConfigurationsAssumption ==
  Configurations \subseteq
    [memory: BOOLEAN, limit: Nat, allowed: SUBSET (Providers \X Providers),
     amounts: [Modes -> SUBSET Amounts]]
ASSUME DispatchAssumption == DispatchModes \subseteq Modes
ASSUME LateAssumption == Late \notin Modes
ASSUME Level1Bounds ==
  FailureThreshold \in Nat \ {0} /\ QueueCapacity \in Nat

Operations == {"buy", "sell"}
Runs == Tokens \X Amounts                      \* calls of _run_amount
Owners == Modes \cup {Late}
Keys == Providers \X Operations \X Tokens      \* CapabilityKey
Groups == Tokens \X Providers \X Providers     \* fingerprint of an opportunity

VARIABLES
  config,    \* the configuration of this process
  pc,        \* mode -> where its scan is
  leg,       \* owner -> run -> where it is
  failed,    \* mode -> tokens whose cycle an error has ended
  stats,     \* mode -> QuoteStatistics
  found,     \* mode -> candidates of the cycles that ended
  todo,      \* mode -> groups still to be handed over, those handed over
  row,       \* mode -> status of the last scan in the database
  entries,   \* NoRouteMemory._entries
  recent,    \* group -> its opportunities inside the deduplication window
  queue,     \* jobs that the worker holds
  (* History, read by properties only. *)
  asked,     \* mode -> requests that were begun
  whole,     \* mode -> whether its last scan, if COMPLETE, had every quote
  denials    \* key -> refusals of a route in a row

scanning == <<config, pc, leg, failed, stats, found, todo, row, asked, whole>>
shared == <<entries, recent, queue, denials>>
vars == <<scanning, shared>>

Idle == [at |-> "idle", waits |-> {}, bought |-> {}, sold |-> {}]
NoStatistics == [requests |-> 0, successful |-> 0, failed |-> 0, refused |-> 0, skipped |-> 0]
NoEntry == [failures |-> 0, skip |-> "no"]
Nobody == [left |-> {}, checked |-> {}, room |-> 0, created |-> {}]

Ended == {"idle", "complete", "partial", "failed", "cancelled"}

(***************************************************************************)
(* Memory of combinations without a route                                  *)
(***************************************************************************)
(* remember: a combination that is on its pause, or past it, is not paused  *)
(* anew.                                                                    *)
Remember(entry) ==
  LET failures == IF entry.failures < FailureThreshold THEN entry.failures + 1 ELSE entry.failures
  IN IF ~config.memory THEN entry ELSE
     [failures |-> failures,
      skip |-> IF failures >= FailureThreshold /\ entry.skip = "no" THEN "future" ELSE entry.skip]

(* Defect: an answer ends the pause but not the count. *)
ForgetPauseOnly(entry) == [entry EXCEPT !.skip = "no"]

(* forget: any usable answer takes the entry out. *)
Forget(entry) == NoEntry

(* should_skip, and what it leaves of an entry whose pause is over. *)
ShouldSkip(key) == config.memory /\ entries[key].skip = "future"
Expired(keys) ==
  [key \in Keys |-> IF key \in keys /\ entries[key].skip = "past" THEN NoEntry ELSE entries[key]]

(* CombinationFilter.allows: the registry rules out, the memory pauses. *)
Allows(key) == key \notin Unsupported /\ ~ShouldSkip(key)

(***************************************************************************)
(* Choice of providers                                                      *)
(***************************************************************************)
Buyers == {pair[1] : pair \in config.allowed}

Sellers(buyer) == {pair[2] : pair \in {q \in config.allowed : q[1] = buyer}}

(* What a round of questions begins with. *)
Round(t, operation, providers) ==
  LET keys == {<<p, operation, t>> : p \in providers}
      open == {p \in providers : Allows(<<p, operation, t>>)}
  IN [keys |-> keys, open |-> open,
      skipped |-> Cardinality(providers \ open)]

(***************************************************************************)
(* Start                                                                    *)
(***************************************************************************)
Init ==
  /\ config \in Configurations
  /\ pc = [m \in Modes |-> "idle"]
  /\ leg = [o \in Owners |-> [r \in Runs |-> Idle]] /\ failed = [m \in Modes |-> {}]
  /\ stats = [m \in Modes |-> NoStatistics]
  /\ found = [m \in Modes |-> {}]
  /\ todo = [m \in Modes |-> Nobody]
  /\ row = [m \in Modes |-> "none"]
  /\ entries = [key \in Keys |-> NoEntry]
  /\ recent = [g \in Groups |-> 0] /\ queue = 0
  /\ asked = [m \in Modes |-> 0] /\ whole = [m \in Modes |-> "whole"]
  /\ denials = [key \in Keys |-> 0]

(* scan: a collector of its own, a row that is RUNNING and a run of each     *)
(* token with each amount of the mode.                                       *)
Begin(m) ==
  /\ pc[m] = "idle" /\ config.amounts[m] # {}
  /\ pc' = [pc EXCEPT ![m] = "collect"]
  /\ row' = [row EXCEPT ![m] = "running"]
  /\ leg' = [leg EXCEPT ![m] = [r \in Runs |-> IF r[2] \in config.amounts[m]
                                               THEN [Idle EXCEPT !.at = "start"] ELSE Idle]]
  /\ UNCHANGED <<config, failed, stats, found, todo, asked, whole, shared>>

(***************************************************************************)
(* The run of one token with one amount                                     *)
(***************************************************************************)
(* A run that outlived its scan counts for nobody, but it uses the memory.   *)
Ask(o, round) ==
  /\ entries' = Expired(round.keys)
  /\ denials' = [key \in Keys |-> IF entries'[key] # entries[key] THEN 0 ELSE denials[key]]
  /\ stats' = [m \in Modes |-> IF m = o THEN [stats[m] EXCEPT !.skipped = @ + round.skipped]
                               ELSE stats[m]]
  /\ asked' = [m \in Modes |-> IF m = o THEN asked[m] + Cardinality(round.open) ELSE asked[m]]
  /\ UNCHANGED <<config, pc, failed, found, todo, row, whole, recent, queue>>

(* _max_buy up to its gather. *)
Buy(o, r) ==
  LET round == Round(r[1], "buy", Buyers)
  IN /\ leg[o][r].at = "start"
     /\ leg' = [leg EXCEPT ![o][r] = [Idle EXCEPT !.at = "buy", !.waits = round.open]]
     /\ Ask(o, round)

(* _sell_legs up to its gather; without a usable BUY the run ends.  The best *)
(* BUY is any of those that answered.                                        *)
Sell(o, r) ==
  /\ leg[o][r].at = "buy" /\ leg[o][r].waits = {}
  /\ \/ /\ leg[o][r].bought = {}
        /\ leg' = [leg EXCEPT ![o][r] = Idle]
        /\ UNCHANGED <<config, pc, failed, stats, found, todo, row, asked, whole, shared>>
     \/ \E best \in leg[o][r].bought :
          LET round == Round(r[1], "sell", Sellers(best))
          IN /\ leg' = [leg EXCEPT ![o][r] = [@ EXCEPT !.at = "sell", !.waits = round.open,
                                                       !.bought = {best}]]
             /\ Ask(o, round)

(* Defect: a request that was not sent is not counted. *)
CountedSent(s, outcome) == IF outcome = "refused" THEN s ELSE
  CASE outcome = "ok" -> [s EXCEPT !.requests = @ + 1, !.successful = @ + 1]
    [] OTHER -> [s EXCEPT !.requests = @ + 1, !.failed = @ + 1]

(* QuoteCollector._fetch of one answer.  A quote that fails its validation   *)
(* counts as any other failure, and only a refused route is remembered.      *)
Counted(s, outcome) ==
  CASE outcome = "refused" -> [s EXCEPT !.refused = @ + 1]
    [] outcome = "ok" -> [s EXCEPT !.requests = @ + 1, !.successful = @ + 1]
    [] OTHER -> [s EXCEPT !.requests = @ + 1, !.failed = @ + 1]

(* Every run of a scan has asked for its BUY before the first answer: they   *)
(* are tasks that were created together.                                     *)
Answer(o, r, p, outcome) ==
  LET operation == leg[o][r].at
      key == <<p, operation, r[1]>>
  IN /\ operation \in Operations /\ p \in leg[o][r].waits
     /\ \A s \in Runs : leg[o][s].at # "start"
     /\ leg' = [leg EXCEPT ![o][r].waits = @ \ {p},
                           ![o][r].bought = IF operation = "buy" /\ outcome = "ok"
                                            THEN @ \cup {p} ELSE @,
                           ![o][r].sold = IF operation = "sell" /\ outcome = "ok"
                                          THEN @ \cup {p} ELSE @]
     /\ stats' = [m \in Modes |-> IF m = o THEN Counted(stats[m], outcome) ELSE stats[m]]
     /\ entries' = [entries EXCEPT ![key] = CASE outcome = "ok" -> Forget(@)
                                              [] outcome = "noRoute" -> Remember(@)
                                              [] OTHER -> @]
     /\ denials' = [denials EXCEPT ![key] = CASE outcome = "ok" -> 0
                                              [] outcome = "noRoute" /\ config.memory ->
                                                   IF @ < FailureThreshold THEN @ + 1 ELSE @
                                              [] OTHER -> @]
     /\ UNCHANGED <<config, pc, failed, found, todo, row, asked, whole, recent, queue>>

(* _build_candidate of each SELL: it passes the threshold, does not, or is   *)
(* rejected.  Nobody reads what a run finds whose cycle has failed.          *)
Evaluate(o, r) ==
  /\ leg[o][r].at = "sell" /\ leg[o][r].waits = {}
  /\ leg' = [leg EXCEPT ![o][r] = Idle]
  /\ \E passing \in SUBSET leg[o][r].sold :
       found' = [m \in Modes |->
                   IF m = o /\ r[1] \notin failed[m]
                   THEN found[m] \cup ({r[1]} \X leg[o][r].bought \X passing) ELSE found[m]]
  /\ UNCHANGED <<config, pc, failed, stats, todo, row, asked, whole, shared>>

(* An error that is no ValueError, such as one of the fee snapshot's save,   *)
(* ends the cycle of this token alone, with all that its runs had found.     *)
CycleFails(o, r) ==
  /\ leg[o][r].at = "sell" /\ leg[o][r].waits = {} /\ leg[o][r].sold # {}
  /\ leg' = [leg EXCEPT ![o][r] = Idle]
  /\ failed' = [m \in Modes |-> IF m = o THEN failed[m] \cup {r[1]} ELSE failed[m]]
  /\ found' = [m \in Modes |-> IF m = o THEN {g \in found[m] : g[1] # r[1]} ELSE found[m]]
  /\ UNCHANGED <<config, pc, stats, todo, row, asked, whole, shared>>

(* The gather of a cycle that failed left its other runs behind. *)
Orphans(m) ==
  {r \in Runs : r[1] \in failed[m] /\ leg[m][r].at \in Operations}

(* What the end of the outer gather leaves of the runs. *)
Remaining(m) == [r \in Runs |-> IF r \in Orphans(m) THEN leg[m][r] ELSE Idle]

(***************************************************************************)
(* Opportunities: _create_opportunities                                     *)
(***************************************************************************)
Room == IF config.limit < QueueCapacity - queue THEN config.limit ELSE QueueCapacity - queue

(* The groups are chosen and the capacity is read, once. *)
Choose(m, groups, timedOut) ==
  /\ todo' = [todo EXCEPT ![m] = [Nobody EXCEPT !.left = IF m \in DispatchModes THEN groups ELSE {},
                                                !.room = Room]]
  /\ pc' = [pc EXCEPT ![m] = IF timedOut THEN "chooseLate" ELSE "choose"]
  /\ leg' = [leg EXCEPT ![m] = Remaining(m)]
  /\ UNCHANGED <<config, failed, row, stats, asked, whole, shared>>

(* Every cycle has ended: all of its runs, or one of them with an error. *)
Collected(m) ==
  /\ pc[m] = "collect"
  /\ \A r \in Runs : r[1] \in failed[m] \/ leg[m][r].at = "idle"
  /\ found' = [found EXCEPT ![m] = {}]
  /\ Choose(m, found[m], FALSE)

(* Defect: the scan has no deadline. *)
NoDeadline(m) == FALSE

(* asyncio.timeout cancels the gather of the cycles: its result, and with it *)
(* every candidate, is lost.  It reaches no run of a cycle that had ended.   *)
TimesOut(m) ==
  /\ pc[m] = "collect"
  /\ found' = [found EXCEPT ![m] = {}]
  /\ Choose(m, {}, TRUE)

Choosing == {"choose", "chooseLate"}

(* Defect: the window is not asked. *)
NeverDuplicate(g) == FALSE

(* DeduplicationGuard.is_duplicate: the window is read from the database. *)
IsDuplicate(g) == recent[g] > 0

Full(m) == Cardinality(todo[m].created) >= todo[m].room

Check(m, g) ==
  /\ pc[m] \in Choosing /\ todo[m].checked = {} /\ g \in todo[m].left /\ ~Full(m)
  /\ todo' = [todo EXCEPT ![m].left = @ \ {g},
                          ![m].checked = IF IsDuplicate(g) THEN {} ELSE {g}]
  /\ UNCHANGED <<config, pc, leg, failed, stats, found, row, asked, whole, shared>>

(* OpportunityHandoff.create: the rows are committed, then the worker takes  *)
(* the job or its queue is full.                                             *)
HandOver(m, g) ==
  /\ pc[m] \in Choosing /\ todo[m].checked = {g}
  /\ recent' = [recent EXCEPT ![g] = @ + 1]
  /\ IF queue < QueueCapacity
     THEN /\ queue' = queue + 1
          /\ todo' = [todo EXCEPT ![m].checked = {}, ![m].created = @ \cup {g}]
     ELSE /\ todo' = [todo EXCEPT ![m].checked = {}]
          /\ UNCHANGED queue
  /\ UNCHANGED <<config, pc, leg, failed, stats, found, row, asked, whole, entries, denials>>

(* An error of the hand-over is written down and the scan goes on. *)
HandOverFails(m) ==
  /\ pc[m] \in Choosing /\ todo[m].checked # {}
  /\ todo' = [todo EXCEPT ![m].checked = {}]
  /\ UNCHANGED <<config, pc, leg, failed, stats, found, row, asked, whole, shared>>

(***************************************************************************)
(* The end of a scan                                                        *)
(***************************************************************************)
(* _final_status *)
FinalStatus(s, timedOut) ==
  LET incomplete == s.failed + s.refused
  IN IF timedOut THEN (IF s.successful > 0 THEN "partial" ELSE "failed")
     ELSE IF incomplete > 0 THEN (IF s.successful > 0 THEN "partial" ELSE "failed")
     ELSE "complete"

(* The requests of a scan that nobody has answered yet. *)
Pending(m) == {rp \in Runs \X Providers : rp[2] \in leg[m][rp[1]].waits}

(* Every request had its quote, or all but those that a run left behind is   *)
(* still waiting for, or not even those.                                     *)
Wholeness(m) ==
  CASE stats[m].successful = asked[m] -> "whole"
    [] stats[m].successful # asked[m]
       /\ stats[m].successful + Cardinality(Pending(m)) = asked[m] -> "left"
    [] OTHER -> "short"

(* What a scan leaves when it ends, however it ends. *)
Leave(m) ==
  /\ pc' = [pc EXCEPT ![m] = "idle"]
  /\ leg' = [leg EXCEPT ![m] = [r \in Runs |-> Idle],
                        ![Late] = [r \in Runs |-> IF r \in Orphans(m) THEN leg[m][r] ELSE @[r]]]
  /\ failed' = [failed EXCEPT ![m] = {}]
  /\ stats' = [stats EXCEPT ![m] = NoStatistics]
  /\ found' = [found EXCEPT ![m] = {}]
  /\ todo' = [todo EXCEPT ![m] = Nobody]
  /\ asked' = [asked EXCEPT ![m] = 0]
  /\ whole' = [whole EXCEPT ![m] = IF row'[m] = "complete" THEN Wholeness(m) ELSE "whole"]
  /\ UNCHANGED <<config, shared>>

(* _finish *)
Finish(m) ==
  /\ pc[m] \in Choosing /\ todo[m].checked = {}
  /\ todo[m].left = {} \/ Full(m)
  /\ row' = [row EXCEPT ![m] = FinalStatus(stats[m], pc[m] = "chooseLate")]
  /\ Leave(m)

(* The task of the mode is cancelled at one of its awaits. *)
Cancel(m) ==
  /\ pc[m] # "idle"
  /\ row' = [row EXCEPT ![m] = "cancelled"]
  /\ Leave(m)

(* Reading the window or writing the row fails: _sweep writes it down, and   *)
(* the row stays as it was.                                                  *)
ScanFails(m) == pc[m] \in Choosing /\ UNCHANGED row /\ Leave(m)

(***************************************************************************)
(* Around the scans                                                         *)
(***************************************************************************)
JobEnds ==
  /\ queue > 0 /\ queue' = queue - 1
  /\ UNCHANGED <<scanning, entries, recent, denials>>

(* The opportunities of a group leave the deduplication window. *)
WindowPasses(g) ==
  /\ recent[g] > 0 /\ recent' = [recent EXCEPT ![g] = 0]
  /\ UNCHANGED <<scanning, entries, queue, denials>>

(* recheck_after_hours is over. *)
PauseEnds(key) ==
  /\ entries[key].skip = "future"
  /\ entries' = [entries EXCEPT ![key].skip = "past"]
  /\ UNCHANGED <<scanning, recent, queue, denials>>

RunSteps(o) ==
  \E r \in Runs :
    \/ Buy(o, r) \/ Sell(o, r) \/ Evaluate(o, r) \/ CycleFails(o, r)
    \/ \E p \in Providers :
         \E outcome \in {"ok", "refused", "noRoute", "failed"} : Answer(o, r, p, outcome)

Create(m) == \/ \E g \in Groups : Check(m, g) \/ HandOver(m, g)
             \/ HandOverFails(m) \/ Finish(m)

Next ==
  \/ \E m \in Modes :
       Begin(m) \/ Collected(m) \/ TimesOut(m) \/ Create(m) \/ Cancel(m) \/ ScanFails(m)
  \/ \E o \in Owners : RunSteps(o)
  \/ JobEnds
  \/ \E g \in Groups : WindowPasses(g)
  \/ \E key \in Keys : PauseEnds(key)

Spec == Init /\ [][Next]_vars

(* A request that is never answered runs into the deadline of its scan, and  *)
(* the database answers.                                                     *)
Fairness == \A m \in Modes : WF_vars(TimesOut(m)) /\ WF_vars(Create(m))

FairSpec == Spec /\ Fairness

(***************************************************************************)
(* Properties                                                               *)
(***************************************************************************)
(* Every variable keeps its type. *)
TypeOK ==
  /\ pc \in [Modes -> {"idle", "collect"} \cup Choosing]
  /\ row \in [Modes -> {"none", "running"} \cup (Ended \ {"idle"})]
  /\ queue \in 0..QueueCapacity /\ recent \in [Groups -> Nat]
  /\ entries \in [Keys -> [failures: 0..FailureThreshold, skip: {"no", "future", "past"}]]
  /\ \A m \in Modes : found[m] \subseteq Groups

(* A scan is COMPLETE only when every request it began was answered with a   *)
(* quote: nothing failed, nothing was refused, nothing was cut off by the    *)
(* deadline.  Excepted are the requests that an error in another run of the  *)
(* same token left behind, and those only while nobody has answered them.    *)
CompleteMeansAll ==
  TypeOK /\ \A m \in Modes : row[m] = "complete" => whole[m] # "short"

(* Without the exception the code does not keep it: a mode that searches     *)
(* with several amounts reports COMPLETE over requests that are still out.   *)
CompleteIsWhole == \A m \in Modes : row[m] = "complete" => whole[m] = "whole"

(* A provider that is paused has refused the combination as often as the     *)
(* threshold says, with no usable answer in between, whichever scan asked.   *)
PauseIsEarned ==
  \A key \in Keys : entries[key].skip # "no" => denials[key] >= FailureThreshold

(* However often a group is found inside the window, it has at most one      *)
(* opportunity for each scan that may look before the first one is written.  *)
DuplicatesAreRaces == \A g \in Groups : recent[g] <= Cardinality(DispatchModes)

(* Every scan ends. *)
ScanEnds == \A m \in Modes : (pc[m] # "idle") ~> (pc[m] = "idle")

(* What the comment at the timeout says: results that were there are kept    *)
(* (scanner.py:214).  The gather of the cycles is cancelled as a whole.      *)
TimeoutKeepsResults ==
  [][\A m \in Modes : (pc[m] = "collect" /\ pc'[m] = "chooseLate" /\ m \in DispatchModes)
       => todo'[m].left = found[m]]_vars

(* One opportunity for a group inside the window, which two scans that look  *)
(* at the same time do not keep.                                             *)
OneForAGroup == \A g \in Groups : recent[g] <= 1
=============================================================================
